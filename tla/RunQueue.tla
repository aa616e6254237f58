------------------------------ MODULE RunQueue ------------------------------
(***************************************************************************)
(* kernel/proc/scheduler.cc, class PriorityQueue: the lock-free ring of    *)
(* thread pointers that every CPU enqueues on and dequeues from.  One      *)
(* action per atomic access; a spin loop is an action that is not enabled  *)
(* until the access it retries succeeds.                                   *)
(*                                                                         *)
(* An enqueue takes a ticket by advancing m_head and then waits for its    *)
(* slot to be free.  A dequeue compares m_head with a copy of m_tail,      *)
(* takes a ticket by moving m_tail from the copy to the next value, and    *)
(* then waits for its slot to be filled.  Both counters wrap.              *)
(*                                                                         *)
(* The accesses are interleaved as if memory were sequentially consistent: *)
(* the read-modify-writes are locked instructions, and amd64 does not      *)
(* reorder the two plain loads of a dequeue.                               *)
(***************************************************************************)
EXTENDS FiniteSets, Integers

CONSTANTS Cpu,
          Thread,
          NoThread,    \* the null pointer
          SlotCount,   \* k_slot_count: 1024 in the code
          Modulus,     \* counters are kept modulo this: 2^32 in the code
          Starts,      \* values the two counters may have reached when the queue is empty
          MaxTickets   \* bound on the tickets enqueues take in one behaviour

ASSUME RunQueueAssumption ==
    /\ IsFiniteSet(Cpu)
    /\ NoThread \notin Thread
    /\ SlotCount \in Nat \ {0}
    /\ Modulus \in Nat \ {0}
    /\ Modulus % SlotCount = 0
    /\ Starts \subseteq 0 .. Modulus - 1
    /\ MaxTickets \in Nat
    /\ 2 * MaxTickets < Modulus

VARIABLES slots,   \* m_slots
          head,    \* m_head
          tail,    \* m_tail
          pc,      \* where each CPU is
          ticket,  \* ticket[c]: local `head' of enqueue or `tail' of dequeue
          arg,     \* arg[c]: the thread CPU c is enqueueing
          held,    \* held[c]: the threads CPU c may enqueue or has dequeued
          tickets  \* number of tickets enqueues have taken (bounds the model)

vars == <<slots, head, tail, pc, ticket, arg, held, tickets>>

Slot == 0 .. SlotCount - 1
SlotOf(n) == n % SlotCount
Inc(n) == (n + 1) % Modulus

(* static_cast<int32_t>(h - t): the difference as a signed number of the   *)
(* counters' width.                                                        *)
Signed(h, t) == LET d == (h - t) % Modulus
                IN  IF 2 * d >= Modulus THEN d - Modulus ELSE d

(* An empty queue is quiescent with both counters equal, at 0 when it is   *)
(* created and at any value after enough enqueues and dequeues.            *)
Init ==
    /\ slots = [i \in Slot |-> NoThread]
    /\ head \in Starts /\ tail = head
    /\ pc = [c \in Cpu |-> "out"]
    /\ ticket = [c \in Cpu |-> 0]
    /\ arg = [c \in Cpu |-> NoThread]
    /\ held \in [Cpu -> SUBSET Thread]
    /\ \A c, d \in Cpu : c # d => held[c] \cap held[d] = {}
    /\ tickets = 0

(* enqueue: m_head.fetch_add(1) *)
TakeHeadTicket(c, t) ==
    /\ pc[c] = "out" /\ t \in held[c]
    /\ tickets < MaxTickets
    /\ ticket' = [ticket EXCEPT ![c] = head]
    /\ head' = Inc(head)
    /\ arg' = [arg EXCEPT ![c] = t]
    /\ held' = [held EXCEPT ![c] = @ \ {t}]
    /\ pc' = [pc EXCEPT ![c] = "put"]
    /\ tickets' = tickets + 1
    /\ UNCHANGED <<slots, tail>>

(* Fault: the slot is computed from m_head read again, not from the ticket. *)
PutSlotAtHead(c) ==
    /\ pc[c] = "put"
    /\ slots[SlotOf(head - 1)] = NoThread
    /\ slots' = [slots EXCEPT ![SlotOf(head - 1)] = arg[c]]
    /\ arg' = [arg EXCEPT ![c] = NoThread]
    /\ pc' = [pc EXCEPT ![c] = "out"]
    /\ UNCHANGED <<head, tail, ticket, held, tickets>>

(* enqueue: the slot.cmpxchg(nullptr, thread) that succeeds *)
PutSlot(c) ==
    /\ pc[c] = "put"
    /\ slots[SlotOf(ticket[c])] = NoThread
    /\ slots' = [slots EXCEPT ![SlotOf(ticket[c])] = arg[c]]
    /\ arg' = [arg EXCEPT ![c] = NoThread]
    /\ pc' = [pc EXCEPT ![c] = "out"]
    /\ UNCHANGED <<head, tail, ticket, held, tickets>>

(* dequeue: m_tail.load() *)
LoadTail(c) ==
    /\ pc[c] = "out"
    /\ ticket' = [ticket EXCEPT ![c] = tail]
    /\ pc' = [pc EXCEPT ![c] = "check"]
    /\ UNCHANGED <<slots, head, tail, arg, held, tickets>>

(* Fault: the comparison is < instead of <=. *)
CheckHeadStrict(c) ==
    /\ pc[c] = "check"
    /\ pc' = [pc EXCEPT ![c] = IF Signed(head, ticket[c]) < 0 THEN "null" ELSE "claim"]
    /\ UNCHANGED <<slots, head, tail, ticket, arg, held, tickets>>

(* dequeue: m_head.load() and the comparison *)
CheckHead(c) ==
    /\ pc[c] = "check"
    /\ pc' = [pc EXCEPT ![c] = IF Signed(head, ticket[c]) <= 0 THEN "null" ELSE "claim"]
    /\ UNCHANGED <<slots, head, tail, ticket, arg, held, tickets>>

(* dequeue: m_tail.compare_exchange(tail, tail + 1); a failure loads the   *)
(* present value into the local copy.                                      *)
ClaimTail(c) ==
    /\ pc[c] = "claim"
    /\ \/ /\ tail = ticket[c]
          /\ tail' = Inc(tail)
          /\ pc' = [pc EXCEPT ![c] = "take"]
          /\ UNCHANGED ticket
       \/ /\ tail # ticket[c]
          /\ ticket' = [ticket EXCEPT ![c] = tail]
          /\ pc' = [pc EXCEPT ![c] = "check"]
          /\ UNCHANGED tail
    /\ UNCHANGED <<slots, head, arg, held, tickets>>

(* dequeue: the slot.exchange(nullptr) that finds a thread *)
TakeSlot(c) ==
    /\ pc[c] = "take"
    /\ slots[SlotOf(ticket[c])] # NoThread
    /\ held' = [held EXCEPT ![c] = @ \cup {slots[SlotOf(ticket[c])]}]
    /\ slots' = [slots EXCEPT ![SlotOf(ticket[c])] = NoThread]
    /\ pc' = [pc EXCEPT ![c] = "out"]
    /\ UNCHANGED <<head, tail, ticket, arg, tickets>>

(* dequeue: return nullptr *)
ReturnNull(c) ==
    /\ pc[c] = "null"
    /\ pc' = [pc EXCEPT ![c] = "out"]
    /\ UNCHANGED <<slots, head, tail, ticket, arg, held, tickets>>

Next == \E c \in Cpu : \/ \E t \in Thread : TakeHeadTicket(c, t)
                       \/ PutSlot(c)
                       \/ LoadTail(c) \/ CheckHead(c) \/ ClaimTail(c)
                       \/ TakeSlot(c) \/ ReturnNull(c)

Spec == Init /\ [][Next]_vars
-----------------------------------------------------------------------------
(* The threads that are in the queue: those whose enqueue has its ticket   *)
(* and those stored in a slot.                                             *)
Queued == {arg[c] : c \in {d \in Cpu : pc[d] = "put"}}
             \cup {slots[i] : i \in {j \in Slot : slots[j] # NoThread}}

(* The ring implements the queue the scheduler relies on.                  *)
Phase(l) == CASE l \in {"out", "put"}     -> "out"
              [] l \in {"check", "claim"} -> "looking"
              [] l = "take"               -> "reserved"
              [] l = "null"               -> "null"

Queue == INSTANCE ThreadQueue WITH contents <- Queued,
                                   phase <- [c \in Cpu |-> Phase(pc[c])]

ImplementsThreadQueue == Queue!QSpec
=============================================================================
