-------------------------- MODULE CapabilityChain --------------------------
(***************************************************************************)
(* From catalog records to a checked claim: record_capability_             *)
(* applicability.py (is a kind of capability applicable on a device),      *)
(* record_capability_profile.py (each kind by itself),                     *)
(* record_realization_legality.py (a constraint for each kind) and         *)
(* record_realization_checking.py (what a realization claims).  A record:  *)
(*   schema, of     its schema; its identity <<target, device, kind>>, or  *)
(*                  <<>> when it gives no target and device                *)
(*   target, device, kind, applicability, provenance, usable, canonical    *)
(* The component "missing" is a field that is not there.                   *)
(***************************************************************************)
EXTENDS UsableDecision

RECORD_SCHEMA == "s2c2.capability_applicability.v1"
PROFILE_SCHEMA == "s2c2.capability_profile.v1"
LEGALITY_SCHEMA == "s2c2.realization_legality.v1"
CLAIM_SCHEMA == "s2c2.realization_claim.v1"
TARGETS == {"cpu", "cuda", "rocm", "sycl", "ascend", "npu", "cim"}
KINDS == <<"concurrent-pair", "named-nonblocking", "staged-dma">>
Kinds == ToSet(KINDS)
APPLICABILITY == {"yes", "no", "n/a"}
PROVENANCE == {"catalog", "occupancy-query", "unknown"}
CAPABILITY_TOKENS == {"capability.present", "capability.missing-evidence",
  "capability.not-applicable", "capability.unknown-target", "capability.unknown-kind"}

\* The first test that fails names the refusal.
FirstOf(tests) ==
  LET failed == {k \in DOMAIN tests : tests[k][1]}
  IN  IF failed = {} THEN "none" ELSE tests[Min(failed)][2]

\* capability_record
Capability(target, device, kind, applicability, canonical, provenance) ==
  [schema |-> RECORD_SCHEMA, of |-> <<target, device, kind>>,
   target |-> target, device |-> device, kind |-> kind, applicability |-> applicability,
   provenance |-> provenance, usable |-> "n/a", canonical |-> canonical]

\* Records of the device; an identity may give no target and device.
OnDevice(rec, target, device) == rec.of # <<>> /\ rec.of[1] = target /\ rec.of[2] = device
\* raw_record_error, of a record with a scope
RawError(rec) ==
  FirstOf(<<
    <<rec.schema # RECORD_SCHEMA, "decision.unknown-reason">>,
    <<rec.of # <<rec.target, rec.device, rec.kind>> \/ "missing" \in ToSet(rec.of),
      "decision.identity-mismatch">>,
    <<rec.target \notin TARGETS, "capability.unknown-target">>,
    <<rec.kind \notin Kinds, "capability.unknown-kind">>,
    <<rec.applicability \notin APPLICABILITY, "decision.unknown-reason">>,
    <<rec.usable \notin APPLICABILITY, "decision.unknown-reason">>,
    <<rec.provenance \notin PROVENANCE, "capability.missing-evidence">>,
    <<rec.canonical \notin CAPABILITY_TOKENS, "decision.unknown-reason">>>>)

\* derive_applicable_decision: one bad record of the device, of whatever kind,
\* refuses, and so does a repeated one.
DeriveApplicable(records, target, device, kind) ==
  LET scope == {i \in DOMAIN records : OnDevice(records[i], target, device)}
      bad == {i \in scope : RawError(records[i]) # "none"}
      mine == {i \in scope : records[i].of = <<target, device, kind>>}
      rec == records[Min(mine)]
  IN  IF target \notin TARGETS THEN No("capability.unknown-target")
      ELSE IF kind \notin Kinds THEN No("capability.unknown-kind")
      ELSE IF bad # {} THEN No(RawError(records[Min(bad)]))
      ELSE IF \E i, j \in scope : i # j /\ records[i].of = records[j].of
      THEN No("decision.duplicate-identity")
      ELSE IF mine = {} \/ rec.provenance = "unknown"
      THEN No("capability.missing-evidence")
      ELSE CASE rec.applicability = "n/a" -> Decision("n/a", <<>>)
             [] rec.applicability = "yes" -> Decision("yes", <<"capability.present">>)
             [] OTHER -> No(rec.canonical)

-----------------------------------------------------------------------------
\* record_capability_profile
Constraint(decision) ==
  CASE decision.result = "n/a" -> "not-applicable"
    [] decision.result = "yes" -> "allowed"
    [] OTHER -> IF "capability.not-applicable" \in ToSet(decision.reasons)
                THEN "forbidden" ELSE "unproven"
EntryProvenance(bag, decision) ==
  IF bag = <<>> THEN "missing"
  ELSE IF Len(bag) > 1 THEN "unknown"
  ELSE IF "capability.missing-evidence" \in ToSet(decision.reasons)
  THEN IF bag[1].provenance = "unknown" THEN "unknown" ELSE "missing"
  ELSE IF bag[1].provenance \in PROVENANCE THEN bag[1].provenance ELSE "unknown"

\* Faulty variant: the records of all kinds are judged together.
KindBagWhole(records, target, device, kind) ==
  Picked(records, {i \in DOMAIN records : OnDevice(records[i], target, device)})
KindBag(records, target, device, kind) ==
  Picked(records, {i \in DOMAIN records : records[i].of = <<target, device, kind>>})
Profile(records, target, device) ==
  LET entry(kind) ==
        LET bag == KindBag(records, target, device, kind)
            decision == DeriveApplicable(bag, target, device, kind)
        IN  [kind |-> kind, decision |-> decision, reasons |-> decision.reasons,
             provenance |-> EntryProvenance(bag, decision),
             constraint |-> Constraint(decision)]
  IN  [schema |-> PROFILE_SCHEMA, target |-> target, device |-> device,
       capabilities |-> <<entry(KINDS[1]), entry(KINDS[2]), entry(KINDS[3])>>]

-----------------------------------------------------------------------------
\* record_realization_legality: the last entry of a kind counts.
CONSTRAINTS == {"allowed", "forbidden", "not-applicable", "unproven"}
FactOf(profile, kind) ==
  LET entries == {k \in DOMAIN profile.capabilities : profile.capabilities[k].kind = kind}
      entry == profile.capabilities[Max(entries)]
      unproven(reason) == [constraint |-> "unproven", reasons |-> <<reason>>]
  IN  IF profile.schema # PROFILE_SCHEMA THEN unproven("decision.unknown-reason")
      ELSE IF entries = {} THEN unproven("capability.missing-evidence")
      ELSE IF entry.constraint \notin CONSTRAINTS THEN unproven("decision.unknown-reason")
      ELSE [constraint |-> entry.constraint, reasons |-> entry.reasons]
Legality(profile) ==
  LET fact(kind) ==
        LET found == FactOf(profile, kind)
        IN  [schema |-> LEGALITY_SCHEMA, of |-> <<profile.target, profile.device, kind>>,
             named |-> FALSE, constraint |-> found.constraint, reasons |-> found.reasons]
  IN  [schema |-> LEGALITY_SCHEMA, of |-> <<profile.target, profile.device>>,
       facts |-> <<fact(KINDS[1]), fact(KINDS[2]), fact(KINDS[3])>>]

-----------------------------------------------------------------------------
(***************************************************************************)
(* record_realization_checking.  named: a fact carries its kind outside    *)
(* its identity.  A claim's kinds are <<sequence>>, or <<>> when missing.  *)
(***************************************************************************)
Claim(target, device, kinds) ==
  [schema |-> CLAIM_SCHEMA, of |-> <<target, device>>, kinds |-> <<kinds>>]
LegalityClosed(L) ==
  /\ Len(L.of) = 2
  /\ [k \in DOMAIN L.facts |-> L.facts[k].of] =
       [k \in DOMAIN KINDS |-> L.of \o <<KINDS[k]>>]
  /\ \A fact \in ToSet(L.facts) :
       fact.schema = LEGALITY_SCHEMA /\ ~fact.named /\ fact.constraint \in CONSTRAINTS

ResultFor(constraint) ==
  CASE constraint = "allowed" -> "satisfy"
    [] constraint \in {"forbidden", "not-applicable"} -> "violate"
    [] constraint = "unproven" -> "unproven"
ClaimError(claim, L) ==
  FirstOf(<<
    <<L.schema # LEGALITY_SCHEMA \/ claim.schema # CLAIM_SCHEMA \/ claim.kinds = <<>>,
      "invalid-schema">>,
    <<~LegalityClosed(L), "malformed-legality">>,
    <<claim.kinds # <<>> /\ ~(ToSet(claim.kinds[1]) \subseteq Kinds), "unknown-kind">>,
    <<claim.of # L.of, "identity-mismatch">>>>)
Findings(claim, L) ==
  LET claimed == Picked(L.facts, {k \in DOMAIN L.facts : L.facts[k].of[3] \in ToSet(claim.kinds[1])})
  IN  [k \in DOMAIN claimed |->
         [kind |-> claimed[k].of[3], result |-> ResultFor(claimed[k].constraint),
          constraint |-> claimed[k].constraint]]
\* check_realization
Check(claim, L) ==
  IF ClaimError(claim, L) # "none"
  THEN [status |-> "contract-error", error |-> ClaimError(claim, L), findings |-> <<>>]
  ELSE [status |-> "ok", error |-> "none", findings |-> Findings(claim, L)]

\* run_xid of record_realization_checking_xid.py; run_e2e is run_xid of one device.
RunXid(records, target, device, claim) == Check(claim, Legality(Profile(records, target, device)))

-----------------------------------------------------------------------------
(***************************************************************************)
(* The case matrices with which the seven programs check themselves before *)
(* they print.                                                             *)
(***************************************************************************)
DEVICE_4090 == "sm89:rtx4090"
DEVICE_910B == "ascend910b"
DEVICE_HOST == "host"
OTHER_DEVICE == "sm80:a100"
Pair == "concurrent-pair"
Nonblocking == "named-nonblocking"
Dma == "staged-dma"

Reason(applicability) ==
  IF applicability = "yes" THEN "capability.present" ELSE "capability.not-applicable"
On(target, device, kind, applicability) ==
  Capability(target, device, kind, applicability, Reason(applicability), "catalog")
Cuda(kind, applicability) == On("cuda", DEVICE_4090, kind, applicability)
UnknownPair == [Cuda(Pair, "yes") EXCEPT !.provenance = "unknown"]
AllYes == <<Cuda(Pair, "yes"), Cuda(Nonblocking, "yes"), Cuda(Dma, "yes")>>
Present == Decision("yes", <<"capability.present">>)

\* record_capability_applicability: <<records, target, device, kind, decision>>
PairCase(records, decision) == <<records, "cuda", DEVICE_4090, Pair, decision>>
ApplicabilityCases ==
  LET yes == Cuda(Pair, "yes")
      dma == On("ascend", DEVICE_910B, Dma, "yes")
      cpu == [On("cpu", DEVICE_HOST, Pair, "no") EXCEPT !.provenance = "occupancy-query"]
  IN {
  PairCase(<<[yes EXCEPT !.usable = "yes"]>>, Present),
  PairCase(<<>>, No("capability.missing-evidence")),
  PairCase(<<UnknownPair>>, No("capability.missing-evidence")),
  <<<<yes>>, "invented", DEVICE_4090, Pair, No("capability.unknown-target")>>,
  <<<<yes>>, "cuda", DEVICE_4090, "sufficient", No("capability.unknown-kind")>>,
  PairCase(<<[Cuda(Pair, "no") EXCEPT !.usable = "yes"]>>, No("capability.not-applicable")),
  PairCase(<<On("cuda", OTHER_DEVICE, Pair, "yes")>>, No("capability.missing-evidence")),
  PairCase(<<yes, Cuda(Pair, "no")>>, No("decision.duplicate-identity")),
  PairCase(<<[yes EXCEPT !.of[3] = Nonblocking]>>, No("decision.identity-mismatch")),
  <<<<dma>>, "ascend", DEVICE_910B, Dma, Present>>,
  <<<<cpu>>, "cpu", DEVICE_HOST, Pair, No("capability.not-applicable")>>,
  PairCase(<<[yes EXCEPT !.schema = "s2c2.evidence_record.v1"]>>, No("decision.unknown-reason")),
  PairCase(<<[yes EXCEPT !.canonical = "authorization.rewrite"]>>, No("decision.unknown-reason")),
  PairCase(<<[yes EXCEPT !.applicability = "maybe"]>>, No("decision.unknown-reason")),
  PairCase(<<[yes EXCEPT !.provenance = "invented"]>>, No("capability.missing-evidence"))}
ApplicabilityValid ==
  \A c \in ApplicabilityCases : DeriveApplicable(c[1], c[2], c[3], c[4]) = c[5]

-----------------------------------------------------------------------------
\* record_capability_profile: <<records, constraints in the order of KINDS>>
Unproven == "unproven"
Allowed == "allowed"
ProfileCases == {
  <<<<Cuda(Pair, "yes"), Cuda(Nonblocking, "no"), Cuda(Dma, "yes")>>, <<Allowed, "forbidden", Allowed>>>>,
  <<<<>>, <<Unproven, Unproven, Unproven>>>>,
  <<<<Cuda(Pair, "no"), Cuda(Nonblocking, "yes"), Cuda(Dma, "yes")>>, <<"forbidden", Allowed, Allowed>>>>,
  <<[k \in DOMAIN KINDS |-> On("cuda", OTHER_DEVICE, KINDS[k], "yes")], <<Unproven, Unproven, Unproven>>>>,
  <<<<Cuda(Pair, "yes"), Cuda(Pair, "yes"), Cuda(Nonblocking, "yes")>>, <<Unproven, Allowed, Unproven>>>>,
  <<<<UnknownPair, Cuda(Nonblocking, "yes"), Cuda(Dma, "yes")>>, <<Unproven, Allowed, Allowed>>>>,
  <<AllYes, <<Allowed, Allowed, Allowed>>>>,
  <<<<Cuda(Pair, "yes"), Cuda(Nonblocking, "yes"), Cuda(Dma, "n/a")>>,
    <<Allowed, Allowed, "not-applicable">>>>}
ProfileOf(records) == Profile(records, "cuda", DEVICE_4090)
ProfileValid ==
  /\ \A c \in ProfileCases :
       /\ [k \in DOMAIN KINDS |-> ProfileOf(c[1]).capabilities[k].constraint] = c[2]
       /\ [k \in DOMAIN KINDS |-> ProfileOf(c[1]).capabilities[k].kind] = KINDS
  /\ \A k \in DOMAIN KINDS :
       LET e == ProfileOf(<<>>).capabilities[k]
       IN  e.provenance = "missing" /\ e.reasons = <<"capability.missing-evidence">>
  /\ LET e == ProfileOf(<<UnknownPair>>).capabilities[1]
     IN  e.provenance = "unknown" /\ e.reasons = <<"capability.missing-evidence">>
  /\ ProfileOf(<<Cuda(Pair, "yes"), Cuda(Pair, "yes")>>).capabilities[1].reasons
       = <<"decision.duplicate-identity">>

\* record_realization_legality
LegalityOf(records) == Legality(ProfileOf(records))
ConstraintsOf(bag) == [k \in DOMAIN KINDS |-> bag.facts[k].constraint]
LegalityCases == {
  <<<<Cuda(Pair, "yes")>>, <<Allowed, Unproven, Unproven>>>>,
  <<<<Cuda(Pair, "no")>>, <<"forbidden", Unproven, Unproven>>>>,
  <<<<Cuda(Dma, "n/a")>>, <<Unproven, Unproven, "not-applicable">>>>,
  <<<<>>, <<Unproven, Unproven, Unproven>>>>,
  <<<<UnknownPair>>, <<Unproven, Unproven, Unproven>>>>, <<AllYes, <<Allowed, Allowed, Allowed>>>>,
  <<<<Cuda(Pair, "no"), Cuda(Nonblocking, "yes"), Cuda(Dma, "yes")>>, <<"forbidden", Allowed, Allowed>>>>}
LegalityValid ==
  LET renamed == Legality([ProfileOf(<<>>) EXCEPT !.schema = "nope"])
      invented == Legality([ProfileOf(<<Cuda(Pair, "yes")>>)
                              EXCEPT !.capabilities[1].constraint = "invented"])
  IN  /\ \A c \in LegalityCases : ConstraintsOf(LegalityOf(c[1])) = c[2]
      /\ \A fact \in ToSet(renamed.facts) :
           fact.constraint = Unproven /\ fact.reasons = <<"decision.unknown-reason">>
      /\ invented.facts[1].constraint = Unproven
      /\ invented.facts[1].reasons = <<"decision.unknown-reason">>

-----------------------------------------------------------------------------
\* record_realization_checking: <<legality, claim, error, results>>
ClaimOf(kinds) == Claim("cuda", DEVICE_4090, kinds)
Satisfied(kind) == <<kind, "satisfy">>
CheckingCases ==
  LET all == LegalityOf(AllYes)
      forbidden == LegalityOf(<<Cuda(Pair, "no"), Cuda(Nonblocking, "yes"), Cuda(Dma, "yes")>>)
  IN {
  <<LegalityOf(<<Cuda(Pair, "yes")>>), ClaimOf(<<Pair>>), "none", <<Satisfied(Pair)>>>>,
  <<forbidden, ClaimOf(<<Pair>>), "none", <<<<Pair, "violate">>>>>>,
  <<LegalityOf(<<Cuda(Dma, "n/a")>>), ClaimOf(<<Dma>>), "none", <<<<Dma, "violate">>>>>>,
  <<LegalityOf(<<UnknownPair>>), ClaimOf(<<Pair>>), "none", <<<<Pair, Unproven>>>>>>,
  <<LegalityOf(<<Cuda(Pair, "yes")>>), ClaimOf(<<Pair, Nonblocking>>), "none",
    <<Satisfied(Pair), <<Nonblocking, Unproven>>>>>>,
  <<all, ClaimOf(KINDS), "none", [k \in DOMAIN KINDS |-> Satisfied(KINDS[k])]>>,
  <<all, ClaimOf(<<>>), "none", <<>>>>,
  <<forbidden, ClaimOf(<<Nonblocking>>), "none", <<Satisfied(Nonblocking)>>>>,
  <<all, ClaimOf(<<Dma, Pair, Dma>>), "none", <<Satisfied(Pair), Satisfied(Dma)>>>>,
  <<all, Claim("cuda", OTHER_DEVICE, <<Pair>>), "identity-mismatch", <<>>>>,
  <<all, ClaimOf(<<"sufficient">>), "unknown-kind", <<>>>>,
  <<[all EXCEPT !.facts = <<Head(@)>>], ClaimOf(<<Pair>>), "malformed-legality", <<>>>>,
  <<[all EXCEPT !.schema = "nope"], ClaimOf(<<Pair>>), "invalid-schema", <<>>>>,
  <<all, [ClaimOf(<<>>) EXCEPT !.kinds = <<>>], "invalid-schema", <<>>>>,
  <<[all EXCEPT !.facts[1].schema = "WRONG-SCHEMA"], ClaimOf(<<Pair>>), "malformed-legality", <<>>>>,
  <<[all EXCEPT !.facts[1].of[3] = "missing"], ClaimOf(<<Pair>>), "malformed-legality", <<>>>>,
  <<[all EXCEPT !.facts[1].named = TRUE], ClaimOf(<<Pair>>), "malformed-legality", <<>>>>}
Results(checking) ==
  [k \in DOMAIN checking.findings |->
     <<checking.findings[k].kind, checking.findings[k].result>>]
CheckingValid ==
  \A c \in CheckingCases :
    LET checking == Check(c[2], c[1])
    IN  /\ checking.error = c[3] /\ Results(checking) = c[4]
        /\ checking.status = "contract-error" <=> checking.error # "none"

\* record_realization_checking_xid and _e2e: <<records, claim, error, results>>
Crossed(target, device, records, claim, error, results) ==
  LET checking == RunXid(records, target, device, claim)
  IN  checking.error = error /\ Results(checking) = results
XidValid ==
  LET both == <<Dma, Pair>>
      dma == <<On("ascend", DEVICE_910B, Dma, "yes")>>
  IN  /\ Crossed("cuda", DEVICE_4090, <<Cuda(Pair, "yes")>>, ClaimOf(both), "none",
                 <<Satisfied(Pair), <<Dma, Unproven>>>>)
      /\ Crossed("ascend", DEVICE_910B, dma, Claim("ascend", DEVICE_910B, both), "none",
                 <<<<Pair, Unproven>>, Satisfied(Dma)>>)
      /\ Crossed("cpu", DEVICE_HOST, <<On("cpu", DEVICE_HOST, Pair, "n/a")>>,
                 Claim("cpu", DEVICE_HOST, <<Pair>>), "none", <<<<Pair, "violate">>>>)
      /\ Crossed("ascend", DEVICE_910B, dma, ClaimOf(<<Pair>>), "identity-mismatch", <<>>)
E2eValid ==
  LET both == <<Dma, Pair>>
      fixture(records, claim, error, results) ==
        Crossed("cuda", DEVICE_4090, records, claim, error, results)
  IN  /\ fixture(<<Cuda(Pair, "yes")>>, ClaimOf(both), "none", <<Satisfied(Pair), <<Dma, Unproven>>>>)
      /\ fixture(<<Cuda(Pair, "no"), Cuda(Dma, "yes")>>, ClaimOf(both), "none",
                 <<<<Pair, "violate">>, Satisfied(Dma)>>)
      /\ fixture(<<Cuda(Pair, "yes")>>, Claim("cuda", OTHER_DEVICE, <<Pair>>),
                 "identity-mismatch", <<>>)

-----------------------------------------------------------------------------
\* record_occupancy_capability: two decisions side by side, never one of both.
Report(occupancy, selected, object, capability, target, device, kind) ==
  [usable |-> DeriveUsable(occupancy, selected, object),
   applicable |-> DeriveApplicable(capability, target, device, kind)]
\* <<occupancy records, capability records, usable, applicable>>
ReportCases ==
  LET yes == <<SourceYes, OrderYes>>
      cap(applicability, usable) == <<[Cuda(Pair, applicability) EXCEPT !.usable = usable]>>
      missing == No("predicate.missing-input")
      other(selected, object) ==
        <<Elsewhere(SourceYes, selected, object), Elsewhere(OrderYes, selected, object)>>
  IN {
  <<yes \o <<DropYes>>, cap("yes", "yes"), UsableYes, Present>>,
  <<yes, cap("no", "yes"), UsableYes, No("capability.not-applicable")>>,
  <<<<SourceYes>>, cap("yes", "n/a"), missing, Present>>,
  <<<<SourceYes>>, cap("no", "yes"), missing, No("capability.not-applicable")>>,
  <<yes, cap("yes", "no"), UsableYes, Present>>,
  <<other(SELECTED_S1, OBJECT_2), cap("yes", "yes"), missing, Present>>,
  <<other(SELECTED_S0, OBJECT_3), cap("yes", "yes"), missing, Present>>,
  <<yes, <<On("cuda", OTHER_DEVICE, Pair, "yes")>>, UsableYes, No("capability.missing-evidence")>>,
  <<<<SourceYes, SourceYes, OrderYes>>, cap("yes", "yes") \o cap("yes", "yes"),
    No("decision.duplicate-identity"), No("decision.duplicate-identity")>>,
  <<<<Mismatched>>, <<[Cuda(Pair, "yes") EXCEPT !.schema = "s2c2.evidence_record.v1"]>>,
    No("decision.identity-mismatch"), No("decision.unknown-reason")>>}
ReportValid ==
  \A c \in ReportCases :
    Report(c[1], SELECTED_S0, OBJECT_2, c[2], "cuda", DEVICE_4090, Pair)
      = [usable |-> c[3], applicable |-> c[4]]
=============================================================================
