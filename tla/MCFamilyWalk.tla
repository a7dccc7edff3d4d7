---------------------------- MODULE MCFamilyWalk ----------------------------
(* The axes of F_0 as the code declares them, every choice of axes and of   *)
(* options, and three scores on each device: two of equal total and one     *)
(* that is incomparable with the first and better in total than both.       *)
EXTENDS FamilyWalk

Score(t, c, k) == [criticalPath |-> t, contention |-> c, capacity |-> k]

MCScheds == <<"cpu-seq", "gpu-async", "npu-staged-dma">>
MCMaps == <<"default", "t5">>
MCDevices == <<"cpu", "gpu", "npu", "cim">>
MCScores == {Score(2, 0, 0), Score(1, 1, 0), Score(0, 0, 1)}
=============================================================================
