--------------------------- MODULE MCBacktestJobs ---------------------------
(* Small instances of BacktestJobs for TLC. *)
EXTENDS BacktestJobs, TLC

CONSTANTS j1, j2, j3, f1

TwoJobs   == {j1, j2}
ThreeJobs == {j1, j2, j3}

\* One SyncBacktestData request.
OneRequest == [f \in Fetches |-> "req"]

Symmetric == Permutations(Jobs)
=============================================================================
