---------------------------- MODULE MCScheduler ----------------------------
(* Two CPUs, their idle threads and three other threads.                   *)
EXTENDS Scheduler, TLC

CONSTANTS c1, c2, i1, i2

MCIdleOf == (c1 :> i1) @@ (c2 :> i2)
=============================================================================
