------------------------------ MODULE JobGraph ------------------------------
(***************************************************************************)
(* What Core::Alloc::JobSystem promises its callers: every submitted job   *)
(* is started once, and only after the jobs it was made to depend on have  *)
(* ended.  How handles, nodes, counters and threads bring that about is    *)
(* JobSystem's business.                                                   *)
(***************************************************************************)
CONSTANT Jobs

VARIABLES
  state,   \* Jobs -> "none", "pending", "running", "ended"
  deps     \* Jobs -> the jobs it waits for

graphVars == <<state, deps>>

Init ==
  /\ state = [j \in Jobs |-> "none"]
  /\ deps = [j \in Jobs |-> {}]

Submit(j, D) ==
  /\ state[j] = "none"
  /\ \A d \in D : state[d] # "none"
  /\ state' = [state EXCEPT ![j] = "pending"]
  /\ deps' = [deps EXCEPT ![j] = D]

Start(j) ==
  /\ state[j] = "pending"
  /\ \A d \in deps[j] : state[d] = "ended"
  /\ state' = [state EXCEPT ![j] = "running"]
  /\ UNCHANGED deps

End(j) ==
  /\ state[j] = "running"
  /\ state' = [state EXCEPT ![j] = "ended"]
  /\ UNCHANGED deps

Next ==
  \E j \in Jobs : (\E D \in SUBSET Jobs : Submit(j, D)) \/ Start(j) \/ End(j)

Spec == Init /\ [][Next]_graphVars
=============================================================================
