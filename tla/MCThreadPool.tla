---------------------------- MODULE MCThreadPool ----------------------------
(* Small instances of ThreadPool for TLC.                                  *)
EXTENDS ThreadPool, TLC

CONSTANTS w1, w2, c1

NoWorkersOrTwo == {{}, {w1, w2}}
OneClient == {c1}

(* The workers are interchangeable; used for the safety run only.          *)
WorkerSymmetry == Permutations({w1, w2})

(* count 3 with grain 2 gives two chunks of different length, offset by the
   non-zero begin; count 1 runs serially.                                  *)
UnevenLoop == {<<1, 4, 2>>, <<0, 1, 0>>}
=============================================================================
