----------------------------- MODULE HBSearch -----------------------------
(***************************************************************************)
(* One call of `HBGraph::reaches`, on any graph of a given set and any two *)
(* of its nodes.                                                           *)
(***************************************************************************)
EXTENDS HBReaches

CONSTANT Graphs     \* the graphs the call may be made on

ASSUME GraphsAreGraphs == \A g \in Graphs : IsGraph(g)

SearchInit == succ \in Graphs /\ NoCall

SearchNext ==
  \/ (\E a, b \in DOMAIN succ : Call(a, b)) /\ answer = "none" /\ UNCHANGED succ
  \/ Search /\ UNCHANGED succ

SearchSpec == SearchInit /\ [][SearchNext]_<<succ, dfsVars>> /\ WF_<<succ, dfsVars>>(Search /\ UNCHANGED succ)

-----------------------------------------------------------------------------
\* `reaches` decides the happens-before order: yes to ordered pairs only, along
\* cycles too, and no to unordered pairs of distinct nodes only.
AnswerIsExact == YesIsOrdered /\ NoIsUnordered

\* Every call returns: a node is expanded at most twice (the start of the
\* search is not in seen, so a cycle through it pushes it once more).
CallReturns == (answer = "busy") ~> (answer \in {"yes", "no"})
=============================================================================
