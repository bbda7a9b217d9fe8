--------------------------- MODULE MCCrashPipeline ---------------------------
(* Two calls on one spool: on one thread or on two threads of one process, *)
(* the second with a GPU report, or in two instances of the application.   *)
EXTENDS CrashPipeline, TLC

CONSTANTS p1, p2, a, b, t1, t2

At(p, t, g) == [proc |-> p, thread |-> t, gpu |-> g]

MCProcs == {p1, p2}
MCCalls == {a, b}
MCSites ==
    {(a :> At(p1, t1, FALSE)) @@ (b :> at) :
        at \in {At(p1, t1, TRUE), At(p1, t1, FALSE), At(p1, t2, TRUE), At(p2, t2, FALSE)}}
MCNameOrder == <<b, a>>
MCLimit == [d \in Dirs |-> IF d = "pending" THEN 1 ELSE 0]

=============================================================================
