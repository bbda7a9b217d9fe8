----------------------------- MODULE MCFrameSync -----------------------------
(* Two images and two frames in flight: the acquire semaphores come round  *)
(* with every second frame, the tightest case.                             *)
EXTENDS FrameSync, TLC

MCN == 2
MCM == 2

=============================================================================
