--------------------------- MODULE MCUploadManager ---------------------------
(* Two recorders on one queue.  MCUploadManager.cfg: one records directly,
   the other under a worker lease.  MCUploadManagerDirect.cfg: both record
   directly and share the queue's pool of command buffers.                 *)
EXTENDS UploadManager, TLC

CONSTANTS q1, r1, r2

OneQueue == r1 :> q1 @@ r2 :> q1
DirectAndWorker == r1 :> 0 @@ r2 :> 1
BothDirect == r1 :> 0 @@ r2 :> 0
Symmetry == Permutations(Buffers) \cup Permutations(Chunks)
=============================================================================
