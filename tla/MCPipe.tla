------------------------------- MODULE MCPipe -------------------------------
(* A shell and two children it, or one of them, creates.                   *)
EXTENDS Pipe, TLC

CONSTANTS p1, p2

(* The children are interchangeable until one of them is created. *)
ChildSymmetry == Permutations({p1, p2})
=============================================================================
