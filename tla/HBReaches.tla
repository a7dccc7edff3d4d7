----------------------------- MODULE HBReaches -----------------------------
(***************************************************************************)
(* `HBGraph::reaches` of CheckS2C2Execution: the depth-first search with   *)
(* which the happens-before oracle answers whether one operation is        *)
(* ordered before another.  The graph is an adjacency function; the search *)
(* keeps a work list and the nodes it has pushed so far.  The work list is *)
(* a set here: the code pops its back, and any choice gives one answer.    *)
(***************************************************************************)

\* An adjacency function whose edges lead to nodes of the graph.
IsGraph(g) == g \in [DOMAIN g -> SUBSET DOMAIN g]

VARIABLES
  succ,             \* adjacency lists, [node -> set of nodes]
  from, to,         \* the arguments of the call
  seen, stack,      \* nodes pushed so far, nodes still to expand
  answer            \* "none" (no call yet), "busy", "yes" or "no"

dfsVars == <<from, to, seen, stack, answer>>

Answers == {"none", "busy", "yes", "no"}
NoNode == 0

(***************************************************************************)
(* What the answer should be.  b is after a when every set of nodes that   *)
(* holds the successors of a and is closed under the edges holds b.        *)
(***************************************************************************)
Closed(g, S) == \A x \in S : g[x] \subseteq S

Ordered(g, a, b) ==
  \A S \in SUBSET DOMAIN g : g[a] \subseteq S /\ Closed(g, S) => b \in S

-----------------------------------------------------------------------------
NoCall ==
  /\ from = NoNode /\ to = NoNode
  /\ seen = {} /\ stack = {}
  /\ answer = "none"

\* A call reaches(a, b): equal ends are never ordered, whatever the edges.
Call(a, b) ==
  /\ answer # "busy"
  /\ from' = a /\ to' = b
  /\ seen' = {}
  /\ IF a = b THEN stack' = {} /\ answer' = "no"
              ELSE stack' = {a} /\ answer' = "busy"

\* Faulty variants of Visit: successors marked but not pushed, and pushed
\* whether seen or not.
VisitWithoutPush ==
  /\ answer = "busy"
  /\ \E cur \in stack :
       IF to \in succ[cur]
       THEN answer' = "yes" /\ UNCHANGED <<seen, stack>>
       ELSE /\ seen' = seen \cup succ[cur]
            /\ stack' = stack \ {cur}
            /\ UNCHANGED answer
  /\ UNCHANGED <<from, to>>

VisitSeenAgain ==
  /\ answer = "busy"
  /\ \E cur \in stack :
       IF to \in succ[cur]
       THEN answer' = "yes" /\ UNCHANGED <<seen, stack>>
       ELSE /\ seen' = seen \cup succ[cur]
            /\ stack' = (stack \ {cur}) \cup succ[cur]
            /\ UNCHANGED answer
  /\ UNCHANGED <<from, to>>

\* Pop a node: return true at an edge to the target, else push what is new.
Visit ==
  /\ answer = "busy"
  /\ \E cur \in stack :
       IF to \in succ[cur]
       THEN answer' = "yes" /\ UNCHANGED <<seen, stack>>
       ELSE /\ seen' = seen \cup succ[cur]
            /\ stack' = (stack \ {cur}) \cup (succ[cur] \ seen)
            /\ UNCHANGED answer
  /\ UNCHANGED <<from, to>>

Exhausted ==
  /\ answer = "busy"
  /\ stack = {}
  /\ answer' = "no"
  /\ UNCHANGED <<from, to, seen, stack>>

Search == Visit \/ Exhausted

-----------------------------------------------------------------------------
DfsTypeOK ==
  /\ answer \in Answers
  /\ seen \subseteq DOMAIN succ
  /\ stack \subseteq DOMAIN succ
  /\ answer # "none" => from \in DOMAIN succ /\ to \in DOMAIN succ

\* The types of the search, on a well-formed graph.
TypeOK == IsGraph(succ) /\ DfsTypeOK

\* Everything pushed is reachable; every edge out of an expanded node leads
\* to a pushed one; the target has not been pushed.
DfsInv ==
  /\ answer \in {"busy", "yes"} => from # to
  /\ answer \in {"busy", "no"} /\ from # to =>
       /\ \A S \in SUBSET DOMAIN succ :
            succ[from] \subseteq S /\ Closed(succ, S)
              => seen \subseteq S /\ stack \subseteq S \cup {from}
       /\ \A x \in seen \cup {from} : x \in stack \/ succ[x] \subseteq seen
       /\ to \notin seen
       /\ answer = "no" => stack = {}

\* A positive answer is never given to an unordered pair, on any graph
\* (cycles included): lines 61-81 return true only along a path.
YesIsOrdered == answer = "yes" => Ordered(succ, from, to)

\* A negative answer is never given to an ordered pair of distinct nodes: the
\* work list empties only when the pushed nodes are closed under the edges.
NoIsUnordered == answer = "no" /\ from # to => ~Ordered(succ, from, to)
=============================================================================
