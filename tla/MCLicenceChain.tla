--------------------------- MODULE MCLicenceChain ---------------------------
(* Two threads.  Programs: one whose region has identity S0, one with S1,   *)
(* one whose explicit order loses edges, one where the rewriting collides   *)
(* and one with two regions; plans with complete, incomplete and foreign    *)
(* claims, two plans at once, and strategies; witnesses of this program, of *)
(* another one and of another device.                                       *)
EXTENDS LicenceChain

Happy1 == Program(<<Stores(<<"1", "2", "0">>, "id")>>)
Complete(selected) ==
  LET scoped(r) == [r EXCEPT !.scope[1] = selected]
      all == Append(AllClaims, LicenceOf("yes", LICENSE_KIND_V01))
  IN  [k \in DOMAIN all |-> scoped(all[k])]
ScopeFor(selected) == <<selected, OBJECT_2, ACTION_V01>>
ClaimsRequest(records, selected, expected, bound) ==
  [kind |-> "claims", bag |-> records, scope |-> ScopeFor(selected),
   expect |-> LicenseScope(ScopeFor(expected)), bound |-> bound]
Strategies(rows) == [kind |-> "optimum", rows |-> rows]

S0Claims == ClaimsRequest(Complete(SELECTED_S0), SELECTED_S0, SELECTED_S0, FALSE)
S1Claims == ClaimsRequest(Complete(SELECTED_S1), SELECTED_S1, SELECTED_S1, TRUE)
CapacityStrategies == Strategies(StrategiesFromCapacity(FourTilePlan(TRUE, TRUE), TileCosts(9, 3, 4)))
\* Requests that grant nothing, or that two of together are refused.
OtherRequests == {
  <<>>, <<S0Claims, S0Claims>>, <<CapacityStrategies>>, <<Strategies(TieStrategies)>>,
  <<ClaimsRequest(Complete(SELECTED_S1), SELECTED_S0, SELECTED_S0, FALSE)>>,
  <<ClaimsRequest(Complete(SELECTED_S0), SELECTED_S0, SELECTED_S1, FALSE)>>,
  <<ClaimsRequest(Append(Front(Complete(SELECTED_S1)), LicenceOf("yes", LICENSE_KIND_V01)),
                  SELECTED_S0, SELECTED_S0, FALSE)>>,
  <<ClaimsRequest(Append(Complete(SELECTED_S0), Sufficient("no")), SELECTED_S0, SELECTED_S0, TRUE)>>}

\* A program as the host sees it when it was sent as text.
Sent(p) == Extracted(Render(p))
Unordered == Sent([Happy EXCEPT !.hb = <<{}>>])
CallWith(p, again, q, w) == [program |-> p, again |-> again, requests |-> q, witness |-> w]

First ==
  UNION {{CallWith(p, FALSE, <<q>>, w) : q \in {S0Claims, S1Claims, Strategies(AcceptanceStrategies)},
            w \in {BoundWitness(Happy, DEVICE, "yes"), BoundWitness(p, DEVICE, "yes")}} :
           p \in {Happy, Happy1, Sparse, Unordered}}
  \cup {CallWith(Happy, FALSE, q, BoundWitness(Happy, DEVICE, "yes")) : q \in OtherRequests}
  \cup {CallWith(p, FALSE, <<Strategies(AcceptanceStrategies)>>, BoundWitness(Happy, DEVICE, "yes")) :
          p \in {Sent(Sparse), TwoRegions}}
  \cup {CallWith(Happy, FALSE, <<Strategies(AcceptanceStrategies)>>, w) :
          w \in {NoWitness, BoundWitness(Happy, "D2", "yes"), BoundWitness(Happy, DEVICE, "no")}}
  \cup {CallWith(Collision("evict"), FALSE, <<Strategies(AcceptanceStrategies)>>,
                 BoundWitness(Collision("evict"), DEVICE, "yes"))}
  \cup {CallWith(Happy1, TRUE, <<Strategies(AcceptanceStrategies)>>,
                 BoundWitness(Happy, DEVICE, "yes"))}

\* The second thread: a call that asks for authorization, and one that does not.
Second ==
  {CallWith(Happy, FALSE, <<ClaimsRequest(Complete(SELECTED_S0), SELECTED_S0, SELECTED_S0, FALSE)>>,
            BoundWitness(Happy, DEVICE, "yes")),
   CallWith(Happy1, FALSE, <<Strategies(AcceptanceStrategies)>>, NoWitness)}

CONSTANTS c1, c2
MCCallers == {c1, c2}
MCCalls == [c \in MCCallers |-> IF c = c1 THEN First ELSE Second]
=============================================================================
