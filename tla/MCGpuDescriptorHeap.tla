------------------------- MODULE MCGpuDescriptorHeap -------------------------
(* One recorder, with up to two command buffers in flight; two threads free
   slots and collect.                                                      *)
EXTENDS GpuDescriptorHeap, TLC

CONSTANTS q1, r1

MCQueueOf == r1 :> q1
MCWorkerOf == r1 :> 0
Symmetry == Permutations(Buffers) \cup Permutations(Sweepers)
=============================================================================
