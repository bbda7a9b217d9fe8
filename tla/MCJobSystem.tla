---------------------------- MODULE MCJobSystem -----------------------------
(* Small instances of JobSystem for TLC.                                   *)
EXTENDS JobSystem

CONSTANTS w1, w2, c1

NoWorkersOrTwo == {{}, {w1, w2}}
TwoWorkers == {{w1, w2}}
OneClient == {c1}
WorkerSymmetry == Permutations({w1, w2})
=============================================================================
