----------------------------- MODULE Selections -----------------------------
(***************************************************************************)
(* Lists are read by their positions: what a loop with an "if ... continue" *)
(* keeps of a list is given by the set of the positions it keeps.           *)
(***************************************************************************)
EXTENDS Naturals, Sequences

\* The rows at the positions in S, in their order.
Picked(rows, S) ==
  LET picked[i \in 0..Len(rows)] ==
        IF i = 0 THEN <<>>
        ELSE IF i \in S THEN Append(picked[i - 1], rows[i]) ELSE picked[i - 1]
  IN  picked[Len(rows)]
=============================================================================
