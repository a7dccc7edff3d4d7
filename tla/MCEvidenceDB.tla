---------------------------- MODULE MCEvidenceDB ----------------------------
(* Three tables: one of the campaign with a measured, a fixture and a       *)
(* foreign row; one that gives an identity of it another cost or another    *)
(* status; one of the campaign that repeats a row and has a bad number.     *)
EXTENDS EvidenceDB, CaseMatrices

Row(profile, sig, measured, source, cost) ==
  [schema |-> V1_SCHEMA, profile |-> profile, workload |-> "w", sig |-> sig,
   measured |-> measured, source |-> source, cost |-> cost, correctness |-> <<1>>, note |-> ""]
Measured(sig, us) == Row("p", sig, "yes", "device-log", <<us>>)
Fixture(sig) == Row("p", sig, "no", "fixture-table", <<3>>)

MCRows ==
  [first |-> <<Measured("x", 5), [Measured("x", 5) EXCEPT !.schema = ""], Fixture("y")>>,
   other |-> <<Row("q", "x", "yes", "device-log", <<4>>),
               Row("p", "y", "inferred", "", <<3>>), Measured("x", 7)>>,
   second |-> <<Measured("x", 6), Measured("x", 6), Row("p", "y", "yes", "device-log", <<>>),
                [Measured("z", 8) EXCEPT !.correctness = <<0>>]>>]
MCSources == DOMAIN MCRows
MCNamedAs == [first |-> "r1", other |-> "", second |-> "r2"]
MCFrozen == <<"first", "second">>
MCRevisions == {"", "r1", "r2"}
=============================================================================
