--------------------------- MODULE MCCapacityPlan ---------------------------
(* Three residencies over four instants, sizes 1 and 2, in every            *)
(* arrangement; the four tiles of the repository's own example with every   *)
(* table of measured rows; and one evicted object with every combination    *)
(* of witnesses; specs that are rejected, or overridden by a budget; and    *)
(* three tiles with costs, each witnessed in full or with one witness less. *)
EXTENDS CapacityHandoff

Residency(o, n, s, e) == [object |-> o, size |-> n, start |-> s, end |-> e]
Spans == {w \in (0..2) \X (1..3) : w[1] < w[2]}
Residencies(o, sizes) == {Residency(o, n, w[1], w[2]) : n \in sizes, w \in Spans}

Nothing == <<>>
Input(rs, cap) ==
  [rs |-> rs, cap |-> cap, space |-> "hbm", budget |-> {}, sources |-> Nothing, data |-> Nothing,
   order |-> Nothing, drop |-> Nothing, policy |-> "none", table |-> <<>>]

\* Occupancies with distinct objects, and with one object resident twice.
Arranged(o1, o2, o3, sizes) ==
  {<<a, b, c>> : a \in Residencies(o1, sizes), b \in Residencies(o2, sizes), c \in Residencies(o3, sizes)}

Occupancies ==
  {[Input(rs, cap) EXCEPT !.policy = "s0"] :
     rs \in Arranged(0, 1, 2, {1, 2}) \cup Arranged(0, 1, 0, {1}), cap \in {1, 2, 3}}

Rejected ==
  {[Input(<<Residency(0, n, s, 1)>>, cap) EXCEPT !.policy = pol] :
     n \in {0, 1}, s \in {0, 1}, cap \in {0, 1}, pol \in {"none", "s0"}}
  \cup {[Input(<<Residency(0, 1, 0, 1)>>, 1) EXCEPT !.sources = [o \in {p[1]} |-> p[2]]] :
          p \in {<<0, "hbm">>, <<0, "ssd">>, <<1, "ssd">>}}

FourTiles == [k \in 1..4 |-> Residency(k - 1, 1, k - 1, k + 2)]
Row(s, k, e, t, g) == [scope |-> s, keep |-> k, evict |-> e, time |-> t, good |-> g]
Rows(k, e) ==
  {<<>>} \cup {<<Row(s, k, e, t, g)>> : s \in {"this", "other"}, t \in {1, 2}, g \in BOOLEAN}
Tables ==
  {a \o b \o c \o d : a \in Rows({1, 2}, {0}), b \in Rows({0, 1}, {2}), c \in Rows({0, 2}, {1}),
                      d \in {<<>>, <<Row("this", {0, 1}, {2}, 1, TRUE)>>, <<Row("this", {0, 1, 2}, {}, 0, TRUE)>>}}
Ranking == {[Input(FourTiles, 2) EXCEPT !.policy = "measured", !.table = t] : t \in Tables}

\* Object 0 is live in [1, 3), and evicted in one of two candidates.
Pair == <<Residency(0, 1, 1, 3), Residency(1, 1, 0, 2)>>
Partial(S) == {Nothing} \cup {[o \in {0} |-> x] : x \in S}
Overridden ==
  {[Input(FourTiles, 2) EXCEPT !.budget = {[cap |-> n, space |-> sp]}, !.policy = "s0",
                               !.sources = [o \in {0} |-> "ssd"],
                               !.drop = [o \in {0} |-> [known |-> TRUE, destination |-> "hbm"]]] :
     n \in {0, 1, 3}, sp \in {"hbm", "host"}}

Witnessed ==
  {[Input(Pair, 1) EXCEPT !.sources = s, !.data = d, !.order = b, !.drop = x] :
     s \in Partial({"ssd", "host"}),
     d \in Partial({[replica |-> "ssd", known |-> k, start |-> w[1], end |-> w[2]] :
                      k \in BOOLEAN, w \in {<<0, 3>>, <<1, 3>>, <<2, 3>>, <<1, 2>>}}),
     b \in Partial([known : BOOLEAN, before : {2, 3}]),
     x \in Partial([known : BOOLEAN, destination : {"hbm", "host"}])}

\* What each of the tiles 0, 1, 2 has to show, and what it costs to evict it.
Showings == [0..2 -> {"all", "not-ordered", "not-dropped"}]
Priced(k, e) ==
  {<<>>} \cup {<<Row(s, k, e, t, TRUE)>> : s \in {"this", "other"}, t \in {0, 1}}
Costs ==
  {a \o b \o c : a \in Priced({1, 2}, {0}), b \in Priced({0, 1}, {2}), c \in Priced({0, 2}, {1})}
Tiles(rs, n, shows, table) ==
  [Input(rs, n) EXCEPT !.policy = "measured", !.table = table,
     !.sources = [o \in 0..2 |-> "ssd"],
     !.data = [o \in 0..2 |-> [replica |-> "ssd", known |-> TRUE, start |-> 0, end |-> 7]],
     !.order = [o \in 0..2 |->
                  [known |-> TRUE, before |-> IF shows[o] = "not-ordered" THEN o ELSE rs[o + 1].end]],
     !.drop = [o \in 0..2 |-> [known |-> shows[o] # "not-dropped", destination |-> "hbm"]]]
Handed ==
  {Tiles(FourTiles, 2, shows, t) : shows \in Showings, t \in Costs}
  \cup {Tiles([FourTiles EXCEPT ![4].start = 2], 3, [o \in 0..2 |-> "all"], t) :
          t \in {[n \in 1..3 |-> Row("this", (0..3) \ {n - 1}, {n - 1}, IF n = 1 THEN 1 ELSE 2, TRUE)]}}

MCInputs == Occupancies \cup Rejected \cup Ranking \cup Overridden \cup Witnessed \cup Handed
=============================================================================
