--------------------------- MODULE RunQueueOrder ---------------------------
(***************************************************************************)
(* When kernel/proc/scheduler.cc's PriorityQueue is first in, first out.   *)
(* History variables are added to RunQueue: the threads in the order of    *)
(* their enqueue tickets, how many tickets dequeues have claimed, which    *)
(* ticket each dequeue holds, and whether an enqueue has ever been given   *)
(* the slot of an earlier ticket whose dequeue was still to come.          *)
(***************************************************************************)
EXTENDS RunQueue, Sequences

VARIABLES given,   \* given[n]: the thread enqueued with the n-th ticket
          claimed, \* how many tickets dequeues have claimed
          serial,  \* serial[c]: the number of the ticket CPU c has claimed
          lapped   \* the ring went round under a pending dequeue

ovars == <<vars, given, claimed, serial, lapped>>

OInit ==
    /\ Init
    /\ given = <<>> /\ claimed = 0
    /\ serial = [c \in Cpu |-> 0]
    /\ lapped = FALSE

(* Tickets n whose thread no dequeue has received yet. *)
Pending == {n \in 1 .. Len(given) : n > claimed \/ \E c \in Cpu : pc[c] = "take" /\ serial[c] = n}

OTakeHeadTicket(c, t) ==
    /\ TakeHeadTicket(c, t)
    /\ given' = Append(given, t)
    /\ lapped' = (lapped \/ \E n \in Pending : n + SlotCount <= Len(given) + 1)
    /\ UNCHANGED <<claimed, serial>>

OClaimTail(c) ==
    /\ ClaimTail(c)
    /\ IF pc'[c] = "take"
       THEN claimed' = claimed + 1 /\ serial' = [serial EXCEPT ![c] = claimed + 1]
       ELSE UNCHANGED <<claimed, serial>>
    /\ UNCHANGED <<given, lapped>>

OOther(c) ==
    /\ LoadTail(c) \/ PutSlot(c) \/ CheckHead(c) \/ TakeSlot(c) \/ ReturnNull(c)
    /\ UNCHANGED <<given, claimed, serial, lapped>>

ONext == \E c \in Cpu : \/ \E t \in Thread : OTakeHeadTicket(c, t)
                        \/ OClaimTail(c)
                        \/ OOther(c)

OSpec == OInit /\ [][ONext]_ovars

(* Kernel code runs with interrupts disabled, so a CPU inside a queue      *)
(* operation keeps executing.  A CPU that is out need not make a call.     *)
OProgress(c) == OClaimTail(c) \/ (pc[c] # "out" /\ OOther(c))

OFairSpec == OSpec /\ \A c \in Cpu : WF_ovars(OProgress(c))

(* The dequeue that claims the n-th ticket receives the thread enqueued    *)
(* with the n-th ticket, unless the ring went round under a pending        *)
(* dequeue: a CPU stalled between claiming a ticket and emptying its slot  *)
(* for as long as the others make SlotCount enqueues.                      *)
FirstInFirstOut ==
    [][\A c \in Cpu : TakeSlot(c) /\ ~lapped => given[serial[c]] \in held'[c] \ held[c]]_ovars

(* Every enqueue and dequeue returns: with no more threads than slots no   *)
(* CPU spins forever on a full or an empty slot.                           *)
CallsReturn == \A c \in Cpu : pc[c] # "out" ~> pc[c] = "out"
=============================================================================
