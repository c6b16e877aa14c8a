---------------------------- MODULE MCAnalysisJob ----------------------------
(* Small instances of AnalysisJob. *)
EXTENDS AnalysisJob, TLC

CONSTANTS j1, j2, w1, w2, w3

OneJob == {j1}
TwoWorkers == {w1, w2}
ThreeWorkers == {w1, w2, w3}

NoFaults == {}
AllFaults == {"task_error", "slow_worker"}
TaskErrors == {"task_error"}

WorkerSymmetry == Permutations(Workers)
==============================================================================
