---------------------------- MODULE BufferCounts ----------------------------
(***************************************************************************)
(* A DoubleBuffer (kernel/ipc/double_buffer.cc) as the number of bytes     *)
(* each of its halves holds: ahead in the half being read, behind in the   *)
(* half being written.  Pipes and sockets decide from these who blocks;    *)
(* module DoubleBuffer has the bytes themselves.                           *)
(***************************************************************************)
EXTENDS Integers

CONSTANT Size   \* m_size

ASSUME SizeAssumption == Size \in Nat \ {0}

NewBuffer == [ahead |-> 0, behind |-> 0]

(* DoubleBuffer::empty, DoubleBuffer::full *)
IsEmpty(b) == b.ahead = 0 /\ b.behind = 0
IsFull(b) == Size - b.behind = 0

(* DoubleBuffer::read: the halves are swapped when the first is used up *)
Swapped(b) == IF b.ahead = 0 THEN [ahead |-> b.behind, behind |-> 0] ELSE b
AfterRead(b, n) ==
    [Swapped(b) EXCEPT !.ahead = IF n < @ THEN @ - n ELSE 0]

(* DoubleBuffer::write *)
AfterWrite(b, n) ==
    [b EXCEPT !.behind = IF n < Size - @ THEN @ + n ELSE Size]

Held(b) == b.ahead + b.behind
=============================================================================
