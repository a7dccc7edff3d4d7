---------------------------- MODULE MCPrograms ----------------------------
(***************************************************************************)
(* Program families for TLC.  A shape is a sequence of sets of words; a    *)
(* program of the family takes one word of each set.  A word is a leaf     *)
(* operation on the buffers A and B or on V, the latest buffer produced    *)
(* by an operation of an enclosing block; the name of a region operation,  *)
(* which opens its region; "next", which closes a region and opens the     *)
(* following one of the same operation; or "end", "endA", "endB", "endV",  *)
(* which close it with a yield of nothing or of that buffer.               *)
(***************************************************************************)
EXTENDS ScheduleIR, SequencesExt

A == <<0, 1>>
B == <<0, 2>>
V == <<0, 9>>

Leaf(k, s, d) == [kind |-> k, src |-> s, dst |-> d]
Leaves == [
  packA |-> Leaf("pack", NoValue, A),        packB |-> Leaf("pack", NoValue, B),
  copyAB |-> Leaf("copy", A, B),             acopyAB |-> Leaf("acopy", A, B),
  streamAB |-> Leaf("stream", A, B),         streamVB |-> Leaf("stream", V, B),
  xferA |-> Leaf("transfer", A, V),          xferV |-> Leaf("transfer", V, V),
  unpackA |-> Leaf("unpack", A, NoValue),    unpackB |-> Leaf("unpack", B, NoValue),
  unpackV |-> Leaf("unpack", V, NoValue),
  wait |-> Leaf("wait", NoValue, NoValue),   waitall |-> Leaf("barrier", NoValue, NoValue)]
Yields == [end |-> <<>>, endA |-> <<A>>, endB |-> <<B>>, endV |-> <<V>>, next |-> <<>>, nextV |-> <<V>>]
Opens == [task |-> <<>>, concurrent |-> <<>>, overlap |-> <<>>, pipeline |-> <<>>,
          stage |-> <<>>, if |-> <<>>, switch |-> <<>>, forA |-> <<A>>]

-----------------------------------------------------------------------------
(* Reading the words of one program.  blocks is the stack of open blocks,  *)
(* each with its operation, its region and the last operation in it.       *)

Top(s) == s.blocks[Len(s.blocks)]
Visible(s) ==
  {j \in DOMAIN s.ops : \E b \in ToSet(s.blocks) :
     b.op = s.ops[j].parent /\ b.region = s.ops[j].region}

ValuesInScope(s) ==
  {<<j, 1>> : j \in {x \in Visible(s) : s.ops[x].results > 0}} \cup
  {<<b.op, -1>> : b \in {x \in ToSet(s.blocks) : x.op # 0 /\ s.ops[x.op].inits # <<>>}}
Latest(s) == CHOOSE v \in ValuesInScope(s) : \A w \in ValuesInScope(s) : w[1] <= v[1]

Tokens(s) == {j \in Visible(s) : s.ops[j].kind \in {"stream", "acopy", "task"}}
               \ {b.op : b \in ToSet(s.blocks)}

Resolve(s, v, n) == IF v = V THEN Latest(s) ELSE v

Put(s, op) ==
  [s EXCEPT !.ops = Append(@, op),
            !.blocks = [@ EXCEPT ![Len(@)].last = Len(s.ops) + 1]]

NewOp(s, kind) ==
  [kind |-> kind, parent |-> Top(s).op, region |-> Top(s).region, prev |-> Top(s).last,
   term |-> <<>>, src |-> NoValue, dst |-> NoValue, toks |-> {}, vals |-> <<>>,
   inits |-> <<>>, results |-> 0]

PutLeaf(s, l) ==
  LET n == Len(s.ops) + 1
      op == [NewOp(s, l.kind) EXCEPT
        !.src = Resolve(s, l.src, n),
        !.dst = IF l.dst = V THEN <<n, 1>> ELSE l.dst,
        !.results = IF l.dst = V THEN 1 ELSE 0,
        !.toks = CASE l.kind = "wait" -> {CHOOSE t \in Tokens(s) : \A u \in Tokens(s) : u <= t}
                   [] l.kind = "barrier" -> Tokens(s)
                   [] OTHER -> {}]
  IN IF (l.src = V /\ ValuesInScope(s) = {}) \/ (l.kind \in {"wait", "barrier"} /\ Tokens(s) = {})
     THEN [s EXCEPT !.ok = FALSE] ELSE Put(s, op)

PutOpen(s, word) ==
  LET n == Len(s.ops) + 1
      kind == IF word = "forA" THEN "for" ELSE word
      s2 == Put(s, [NewOp(s, kind) EXCEPT !.inits = Opens[word]])
  IN [s2 EXCEPT !.blocks = Append(@, [op |-> n, region |-> 1, last |-> 0])]

PutYield(s, word) ==
  LET n == Len(s.ops) + 1
      o == Top(s).op
      vals == [k \in DOMAIN Yields[word] |-> Resolve(s, Yields[word][k], n)]
      s2 == Put(s, [NewOp(s, "yield") EXCEPT !.vals = vals])
      s3 == [s2 EXCEPT !.ops[o].term = Append(@, n), !.ops[o].results = Len(vals)]
  IN IF Yields[word] = <<V>> /\ ValuesInScope(s) = {} THEN [s EXCEPT !.ok = FALSE]
     ELSE IF word \in {"next", "nextV"}
     THEN [s3 EXCEPT !.blocks = [@ EXCEPT ![Len(@)] = [op |-> o, region |-> Top(s).region + 1, last |-> 0]]]
     ELSE [s3 EXCEPT !.blocks = SubSeq(@, 1, Len(@) - 1)]

Read(s, word) ==
  IF ~s.ok THEN s
  ELSE IF word \in DOMAIN Leaves THEN PutLeaf(s, Leaves[word])
  ELSE IF word \in DOMAIN Opens THEN PutOpen(s, word)
  ELSE PutYield(s, word)

NothingRead == [ops |-> <<>>, blocks |-> <<[op |-> 0, region |-> 1, last |-> 0]>>, ok |-> TRUE]

Parse(words) ==
  LET s == FoldLeft(Read, NothingRead, words) IN [ok |-> s.ok, p |-> Put(s, NewOp(s, "yield")).ops]

Sentences(shape) ==
  FoldLeft(LAMBDA acc, words : {Append(a, w) : a \in acc, w \in words}, {<<>>}, shape)

Family(shapes) ==
  {r.p : r \in {x \in {Parse(w) : w \in UNION {Sentences(x) : x \in shapes}} : x.ok}}
=============================================================================
