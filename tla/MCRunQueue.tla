----------------------------- MODULE MCRunQueue -----------------------------
(***************************************************************************)
(* Three CPUs, two threads and a ring of two slots, so that the ring fills *)
(* and goes round; the counters start just below their wrap.               *)
(***************************************************************************)
EXTENDS RunQueueOrder

MCStarts == {7}
=============================================================================
