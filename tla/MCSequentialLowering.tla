------------------------ MODULE MCSequentialLowering ------------------------
(* Straight programs whose regions nest two or three deep, so that patterns *)
(* can fire inside a region before or after the one around it, and with     *)
(* concurrent tasks ordered by a token between them.                        *)
EXTENDS SequentialLowering, MCPrograms

SequentialPrograms == Family({
  << {"packA"}, {"concurrent"}, {"task"}, {"streamAB", "acopyAB", "packB"}, {"end"},
     {"task"}, {"wait", "unpackA"}, {"unpackB", "unpackA"}, {"end"}, {"end"}, {"unpackB", "unpackA"} >>,
  << {"packA"}, {"overlap"}, {"unpackA", "packB"}, {"next"}, {"streamAB", "copyAB"}, {"wait", "unpackB"}, {"end"},
     {"unpackB", "unpackA"} >>,
  << {"packA"}, {"overlap"}, {"task"}, {"copyAB"}, {"end"}, {"next"},
     {"task"}, {"xferA"}, {"endV"}, {"end"}, {"unpackA", "unpackB"} >>,
  << {"packA"}, {"task"}, {"task"}, {"streamAB"}, {"wait"}, {"xferA"}, {"endV"}, {"end"}, {"wait"}, {"unpackB"} >>,
  << {"pipeline"}, {"stage"}, {"task"}, {"packA"}, {"end"}, {"end"}, {"stage"}, {"streamAB"}, {"waitall"}, {"end"},
     {"end"}, {"unpackB"} >>,
  << {"packA"}, {"pipeline"}, {"stage"}, {"concurrent"}, {"task"}, {"streamAB"}, {"end"},
     {"task"}, {"wait"}, {"unpackB"}, {"end"}, {"end"}, {"end"}, {"end"} >>,
  << {"packA"}, {"concurrent"}, {"task"}, {"concurrent"}, {"task"}, {"xferA"}, {"endV"}, {"endV"}, {"endV"},
     {"task"}, {"task"}, {"unpackA"}, {"end"}, {"end"}, {"endV"}, {"unpackA"} >> })
=============================================================================
