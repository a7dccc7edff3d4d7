------------------------ MODULE MCScheduleExecution ------------------------
(* The program families the oracle and the runs of a schedule are checked   *)
(* on: sequences of blocking and asynchronous copies, tasks and their       *)
(* tokens, concurrent tasks, pipelines, overlaps, branches.  They are small *)
(* enough for the order of two operations to be decided by its definition.  *)
EXTENDS ScheduleExecution, MCPrograms

AnyLeaf == {"packA", "copyAB", "streamAB", "unpackA", "unpackB", "wait"}

InSequences == {
  << {"packA", "streamAB"}, AnyLeaf \cup {"acopyAB"}, AnyLeaf, AnyLeaf >>,
  << {"streamAB", "packA"}, {"xferA"}, {"xferV", "unpackV"}, {"unpackV", "unpackB"} >> }

InTasks == {
  << {"packA", "packB"}, {"task"}, {"streamAB", "copyAB", "xferA"}, AnyLeaf, {"end", "endV"},
     AnyLeaf, {"unpackB", "unpackV"} >>,
  << {"packA"}, {"task"}, {"streamAB", "xferA"}, {"end", "endV"}, {"wait", "unpackA"}, {"unpackB", "unpackV"} >>,
  << {"task"}, {"task"}, {"packA"}, {"streamAB", "acopyAB"}, {"end"}, {"wait"}, {"end"},
     {"wait", "unpackA"}, {"unpackB"} >>,
  << {"packA"}, {"task"}, {"task"}, {"xferA"}, {"endV"}, {"endV"}, {"unpackV"} >> }

InConcurrents == {
  << {"packA", "packB"}, {"concurrent"}, {"task"}, {"packA", "streamAB", "acopyAB"}, {"end"},
     {"task"}, AnyLeaf, {"unpackB", "packB"}, {"end"}, {"end"}, {"unpackA", "unpackB"} >>,
  << {"concurrent"}, {"task"}, {"packA"}, {"end"}, {"task"}, {"wait", "packB"}, {"unpackA"},
     {"end"}, {"end"}, {"unpackA", "unpackB"} >>,
  << {"concurrent"}, {"task"}, {"packA"}, {"end"}, {"task"}, {"wait", "packA"} , {"xferA"}, {"endV"},
     {"endV"}, {"unpackV", "streamVB"}, {"unpackB", "unpackV", "wait"} >> }

InPipelines == {
  << {"pipeline"}, {"stage"}, {"packA", "streamAB"}, {"end"}, {"stage"}, {"streamAB", "copyAB"},
     {"unpackA", "wait"}, {"end"}, {"end"}, {"unpackB"} >>,
  << {"pipeline"}, {"stage"}, {"packA", "packB"}, {"end"}, {"stage"}, {"unpackA"}, {"end"}, {"end"} >>,
  << {"packA"}, {"task"}, {"pipeline"}, {"stage"}, {"streamAB", "acopyAB"}, {"end"}, {"end"}, {"end"},
     {"wait", "unpackA"}, {"unpackB"} >>,
  << {"packA"}, {"pipeline"}, {"end"}, {"unpackA", "unpackB"} >> }

InOverlaps == {
  << {"packA", "packB"}, {"overlap"}, {"unpackA", "packA"}, {"next"}, {"streamAB", "copyAB"},
     {"wait", "unpackA", "unpackB"}, {"end"}, {"unpackB", "unpackA"} >>,
  << {"overlap"}, {"packA"}, {"next"}, {"unpackA", "packB"}, {"end"}, {"unpackA", "unpackB"} >> }

Straights == Family(InSequences \cup InTasks \cup InConcurrents \cup InPipelines \cup InOverlaps)

\* One branch or loop around or before the write that a later read needs, and
\* values carried by the yields of nested loops.
Conditionals == Family({
  << {"if", "forA"}, {"packA", "packB"}, {"end", "endA", "endB"}, {"unpackA", "unpackB", "unpackV"} >>,
  << {"switch"}, {"packB"}, {"nextV", "next"}, {"packA"}, {"end"}, {"unpackB"} >>,
  << {"packA"}, {"if", "switch"}, {"packB", "streamAB"}, {"next"}, {"packB", "wait"}, {"end"}, {"unpackB"} >>,
  << {"packA"}, {"forA"}, {"unpackV", "packA", "packB"}, {"endB", "endA"}, {"unpackV"} >>,
  << {"packB"}, {"forA"}, {"unpackV", "packA"}, {"endB", "endA"}, {"unpackV"} >>,
  << {"packB"}, {"forA"}, {"forA"}, {"unpackV"}, {"endB", "endV"}, {"endV"}, {"unpackV"} >> })

RunPrograms == Straights \cup Conditionals
=============================================================================
