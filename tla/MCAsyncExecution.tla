-------------------------- MODULE MCAsyncExecution --------------------------
(* The asynchronous lowering and its runs: copy events, waited tasks that do *)
(* and do not flatten, concurrent children that wait for one another,        *)
(* pipelines in tasks and concurrents in stages.                             *)
EXTENDS AsyncExecution, MCPrograms

Leaf3 == {"packA", "streamAB", "wait"}

LoweredPrograms == Family({
  << {"packA"}, {"streamAB", "acopyAB", "copyAB"}, {"waitall", "wait", "streamAB"}, {"unpackB"} >>,
  << {"packA"}, {"task"}, {"streamAB", "copyAB"}, {"end"}, {"wait"}, {"unpackB"} >>,
  << {"packA"}, {"task"}, Leaf3, {"streamAB", "wait"}, {"end"}, {"wait"}, {"unpackB"} >>,
  << {"task"}, {"xferA", "packB"}, {"streamVB", "packA"}, {"end"}, {"waitall"}, {"unpackB"} >>,
  << {"packA"}, {"concurrent"}, {"task"}, {"streamAB", "packB", "copyAB"}, {"end"},
     {"task"}, {"wait"}, {"unpackB"}, {"end"}, {"end"}, {"unpackA", "packB"} >>,
  << {"packA"}, {"concurrent"}, {"task"}, {"xferA"}, {"endV"}, {"task"}, {"packB", "streamAB"}, {"end"},
     {"endA", "endB"} , {"unpackA"} >>,
  << {"packA"}, {"concurrent"}, {"task"}, {"xferA"}, {"endV"}, {"endV"}, {"unpackV"} >>,
  << {"pipeline"}, {"stage"}, {"packA"}, {"end"}, {"stage"}, {"streamAB", "copyAB"}, {"wait", "packA"}, {"end"},
     {"end"}, {"unpackB", "unpackA"} >>,
  << {"packA"}, {"task"}, {"pipeline"}, {"stage"}, {"streamAB"}, {"end"}, {"end"}, {"end"}, {"wait"}, {"unpackB"} >>,
  << {"packA"}, {"pipeline"}, {"stage"}, {"concurrent"}, {"task"}, {"streamAB", "packB"}, {"end"}, {"end"},
     {"end"}, {"end"}, {"unpackA"} >>,
  << {"packA"}, {"task"}, {"overlap"}, {"streamAB"}, {"next"}, {"packA", "copyAB"}, {"end"}, {"end"},
     {"wait"}, {"unpackB"} >>,
  << {"packA"}, {"task"}, {"streamAB"}, {"endA"}, {"wait"}, {"unpackA"} >>,
  << {"packA"}, {"overlap"}, {"streamAB", "unpackA"}, {"next"}, {"streamAB"}, {"wait"}, {"end"}, {"unpackB"} >>,
  << {"packA"}, {"task"}, {"streamAB"}, {"end"}, {"task"}, {"streamAB", "packB"}, {"end"}, {"waitall"}, {"unpackB"} >>,
  << {"packA"}, {"concurrent"}, {"task"}, {"streamAB"}, {"end"}, {"end"},
     {"concurrent"}, {"task"}, {"xferA"}, {"endV"}, {"endV"}, {"unpackV"} >> })

\* A write whose only order before the read is the end of its task.
UnjoinedTasks == Family({
  << {"task"}, {"packA"}, {"end"}, {"unpackA"}, {"wait"} >>,
  << {"task"}, {"packA"}, {"end"}, {"wait"}, {"unpackA"} >> })

\* A waited task in a waited task.
NestedTasks == Family({
  << {"packA", "packB"}, {"task"}, {"task"}, {"packB", "packA"}, {"end"}, {"wait"}, {"end"}, {"wait"} >> })
=============================================================================
