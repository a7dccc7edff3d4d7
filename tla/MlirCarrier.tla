---------------------------- MODULE MlirCarrier ----------------------------
(***************************************************************************)
(* runtime/record_mlir_carrier.py: a program spelled as text and read      *)
(* back.  The tokens are left out: a text is                               *)
(*   lexed  every character belongs to a token                             *)
(*   head   it starts with "module";  tail  nothing follows the module     *)
(*   attrs  pairs <<key, value>>, a value <<"str", x>> or <<"int", n, type>>*)
(*   items  what the module holds: a block [kind, body], or a statement    *)
(*          [kind, attrs, nested] that has no business there               *)
(* The text of an induced order does not exist.                            *)
(***************************************************************************)
EXTENDS OptimumAuthorization

MODULE_ATTRS == {"capacity", "working_set"}
FACT_ATTRS == {"name", "op", "op_id"}
HB_ATTRS == {"from", "to"}

Str(x) == <<"str", x>>
I64(n) == <<"int", n, "i64">>
Keys(attrs) == {attrs[k][1] : k \in DOMAIN attrs}
ValueOf(attrs, key) == (CHOOSE pair \in ToSet(attrs) : pair[1] = key)[2]
IsString(attrs, key) == ValueOf(attrs, key)[1] = "str"

\* The first test that fails names the refusal.
FirstOf(tests) ==
  LET failed == SelectSeq(tests, LAMBDA t : t[1])
  IN  IF failed = <<>> THEN "none" ELSE failed[1][2]
Twice(attrs) == Cardinality(Keys(attrs)) # Len(attrs)

FactError(s) ==
  FirstOf(<<<<Twice(s.attrs), "syntax">>, <<s.nested, "nested-region">>,
            <<~(Keys(s.attrs) \subseteq FACT_ATTRS), "closed-set">>,
            <<"name" \notin Keys(s.attrs), "missing-name">>,
            <<"op" \notin Keys(s.attrs), "missing-op">>,
            <<"op_id" \notin Keys(s.attrs), "missing-op-id">>,
            <<\E k \in Keys(s.attrs) : ~IsString(s.attrs, k), "syntax">>>>)
EdgeError(s) ==
  FirstOf(<<<<Twice(s.attrs), "syntax">>, <<s.nested, "nested-region">>,
            <<~(Keys(s.attrs) \subseteq HB_ATTRS), "closed-set">>,
            <<"from" \notin Keys(s.attrs), "missing-hb-from">>,
            <<"to" \notin Keys(s.attrs), "missing-hb-to">>,
            <<\E k \in Keys(s.attrs) : ~IsString(s.attrs, k), "syntax">>>>)
StatementError(s) ==
  CASE s.kind = "fact" -> FactError(s)
    [] s.kind = "hb" -> EdgeError(s)
    [] OTHER -> "closed-set"
FirstError(errors) ==
  LET found == SelectSeq(errors, LAMBDA e : e # "none")
  IN  IF found = <<>> THEN "none" ELSE found[1]
ItemError(item) ==
  CASE item.kind = "block" ->
         FirstError([k \in DOMAIN item.body |-> StatementError(item.body[k])])
    [] item.kind = "fact" -> "fact-outside-block"
    [] item.kind = "hb" -> "hb-outside-block"
    [] OTHER -> "closed-set"

AttrError(attrs, key, missing) ==
  IF key \notin Keys(attrs) THEN missing
  ELSE IF IsString(attrs, key) \/ ValueOf(attrs, key)[3] # "i64" THEN "not-i64" ELSE "none"
ModuleError(attrs) ==
  IF ~(Keys(attrs) \subseteq MODULE_ATTRS) THEN "closed-set"
  ELSE FirstError(<<AttrError(attrs, "capacity", "missing-capacity"),
                    AttrError(attrs, "working_set", "missing-working-set")>>)

ExtractError(text) ==
  FirstError(<<
    IF text.lexed THEN "none" ELSE "syntax",
    IF text.head THEN "none" ELSE "not-one-module",
    IF Twice(text.attrs) THEN "syntax" ELSE "none",
    FirstError([k \in DOMAIN text.items |-> ItemError(text.items[k])]),
    IF text.tail THEN "none" ELSE "not-one-module",
    IF text.items = <<>> THEN "zero-block" ELSE ModuleError(text.attrs)>>)

Facts(body) ==
  LET facts == SelectSeq(body, LAMBDA s : s.kind = "fact")
      at(k, key) == ValueOf(facts[k].attrs, key)[2]
  IN  [k \in DOMAIN facts |-> Op(at(k, "op"), at(k, "name"), at(k, "op_id"))]
Edges(items) ==
  UNION {{<<ValueOf(s.attrs, "from")[2], ValueOf(s.attrs, "to")[2]>> :
            s \in {x \in ToSet(items[k].body) : x.kind = "hb"}} : k \in DOMAIN items}
Extracted(text) ==
  [blocks |-> [k \in DOMAIN text.items |-> Facts(text.items[k].body)],
   capacity |-> ValueOf(text.attrs, "capacity")[2],
   working |-> ValueOf(text.attrs, "working_set")[2],
   hb |-> IF Edges(text.items) = {} THEN <<>> ELSE <<Edges(text.items)>>,
   induced |-> {}]
\* extract: the program, or the code of the refusal and none.
Extract(text) ==
  IF ExtractError(text) = "none"
  THEN [refusal |-> "none", program |-> <<Extracted(text)>>]
  ELSE [refusal |-> ExtractError(text), program |-> <<>>]

-----------------------------------------------------------------------------
Fact(op) ==
  [kind |-> "fact", nested |-> FALSE,
   attrs |-> <<<<"name", Str(op.name)>>, <<"op", Str(op.op)>>, <<"op_id", Str(op.id)>>>>]
Hb(e) ==
  [kind |-> "hb", nested |-> FALSE,
   attrs |-> <<<<"from", Str(e[1])>>, <<"to", Str(e[2])>>>>]
Block(body) == [kind |-> "block", body |-> body]
ModuleText(items, capacity, working) ==
  [lexed |-> TRUE, head |-> TRUE, tail |-> TRUE, items |-> items,
   attrs |-> <<<<"capacity", capacity>>, <<"working_set", working>>>>]

\* render: the order of the whole program is spelled in its first block, and
\* an order without edges is not spelled at all.
Render(program) ==
  LET edges == IF program.hb = <<>> THEN <<>> ELSE SetToSeq(program.hb[1])
      facts(b) == [k \in DOMAIN b |-> Fact(b[k])]
      lines(b) == facts(program.blocks[b]) \o
                  IF b = 1 THEN [k \in DOMAIN edges |-> Hb(edges[k])] ELSE <<>>
  IN  ModuleText([b \in DOMAIN program.blocks |-> Block(lines(b))],
                 I64(program.capacity), I64(program.working))
\* _spellable: what is left of a program once it is text.
Spellable(program) == [program EXCEPT !.induced = {}]

\* _replay_host_matrix: the host answers the same for the text, given the
\* induced order the text cannot carry.
ReplayValid(c) ==
  LET handed == Extract(Render(c.program)).program[1]
  IN  /\ handed = Spellable(c.program)
      /\ EvaluateApply(c.envelopes, [handed EXCEPT !.induced = c.program.induced],
                       "D0", c.witness)
           = EvaluateApply(c.envelopes, c.program, "D0", c.witness)

-----------------------------------------------------------------------------
AcceptanceText == Render([Happy EXCEPT !.hb = <<DirectEdges(Happy)>>])
Drop(attrs, key) == SelectSeq(attrs, LAMBDA pair : pair[1] # key)
FactWithout(key) ==
  LET f == Fact(Op("store", "0", <<"id0">>)) IN [f EXCEPT !.attrs = Drop(@, key)]
EdgeWithout(key) == LET e == Hb(<<<<"id0">>, <<"id1">>>>) IN [e EXCEPT !.attrs = Drop(@, key)]
Holding(items) == [AcceptanceText EXCEPT !.items = items]
\* _validate: <<text, refusal>>.
RefusalCases ==
  LET good == AcceptanceText
      store == Fact(Op("store", "0", <<"id0">>))
      extra(key) == [good EXCEPT !.attrs = Append(@, <<key, Str("x")>>)]
      body(s) == Holding(<<Block(<<s>>)>>)
  IN {
  <<body(FactWithout("op_id")), "missing-op-id">>,
  <<body(FactWithout("name")), "missing-name">>,
  <<body(FactWithout("op")), "missing-op">>,
  <<[good EXCEPT !.attrs = Drop(@, "capacity")], "missing-capacity">>,
  <<[good EXCEPT !.attrs = Drop(@, "working_set")], "missing-working-set">>,
  <<extra("device"), "closed-set">>, <<extra("router"), "closed-set">>,
  <<extra("collective"), "closed-set">>,
  <<Holding(<<>>), "zero-block">>,
  <<[good EXCEPT !.head = FALSE], "not-one-module">>,
  <<[good EXCEPT !.tail = FALSE], "not-one-module">>,
  <<Holding(<<store>>), "fact-outside-block">>,
  <<Holding(<<Hb(<<<<"id0">>, <<"id1">>>>)>>), "hb-outside-block">>,
  <<body(EdgeWithout("from")), "missing-hb-from">>,
  <<body(EdgeWithout("to")), "missing-hb-to">>,
  <<ModuleText(good.items, <<"int", 2, "i32">>, I64(3)), "not-i64">>,
  <<ModuleText(good.items, I64(2), <<"int", 3, "i32">>), "not-i64">>,
  <<body([store EXCEPT !.nested = TRUE]), "nested-region">>,
  <<[good EXCEPT !.lexed = FALSE], "syntax">>,
  <<body([store EXCEPT !.attrs[1][2] = I64(0)]), "syntax">>,
  <<Holding(Append(good.items, [kind |-> "induced"])), "closed-set">>}

\* The texts that are read and refused later, by the host: <<program, envelope,
\* witness, match, applied, reasons>>.
WindowText(kind, name, id) ==
  LET ops == <<Op("store", "0", <<"id0">>), Op(kind, name, id),
               Op("store", "1", <<"id1">>), Op("store", "2", <<"id2">>)>>
  IN  [Program(<<ops>>) EXCEPT !.hb =
        <<{<<<<"id0">>, id>>, <<id, <<"id1">>>>, <<<<"id1">>, <<"id2">>>>}>>]
HostCases ==
  LET plan == EvaluateRewrite(<<Licensed("yes")>>, LICENSED_V01)
      read == Extract(AcceptanceText).program[1]
      witness(p) == BoundWitness(p, "D0", "yes")
      cx == WindowText("compute", "c", <<"cx">>)
      lx == WindowText("load", "l", <<"lx">>)
  IN {
  <<read, plan, witness(read), "yes", "yes", <<>>>>,
  <<[read EXCEPT !.capacity = 4, !.working = 5], plan, NoWitness, "no", "no", <<>>>>,
  <<[read EXCEPT !.working = 2], plan, NoWitness, "no", "no", <<>>>>,
  <<Prefetching, plan, NoWitness, "no", "no", <<>>>>,
  <<cx, plan, witness(cx), "yes", "yes", <<>>>>,
  <<lx, plan, witness(lx), "yes", "yes", <<>>>>,
  <<Program(<<Stores(<<"0", "1">>, "id")>>), plan, NoWitness, "no", "no", <<>>>>,
  <<Program(<<Stores(<<"0", "1", "2">>, "a"), Stores(<<"0", "1", "2">>, "b")>>),
    plan, NoWitness, "no", "no", <<>>>>,
  <<read, PlanSteps(<<"KEEP", "RESTORE", "EVICT", "TRANSFER">>), witness(read),
    "no", "no", <<"rewrite.sequence-mismatch">>>>,
  <<read, plan, NoWitness, "yes", "no", <<>>>>,
  <<read, plan, BoundWitness(read, "D2", "yes"), "yes", "no", <<>>>>,
  <<Sparse, plan, witness(Sparse), "yes", "no", <<>>>>,
  <<read, PlanFor(2, OBJECT_3), witness(read), "no", "no", <<"rewrite.identity-mismatch">>>>,
  <<Collision("evict"), plan, witness(Collision("evict")), "yes", "no", <<>>>>}
HostValid(c) ==
  LET bag == EvaluateApply(<<c[2]>>, c[1], "D0", c[3])
  IN  /\ <<bag.match, bag.applied, bag.reasons>> = <<c[4], c[5], c[6]>>
      /\ c[1].induced = {} => Extract(Render(c[1])).program = <<c[1]>>
=============================================================================
