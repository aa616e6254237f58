--------------------------- MODULE RunQueueProofs ---------------------------
(***************************************************************************)
(* The ring of kernel/proc/scheduler.cc is the queue the scheduler relies  *)
(* on, for any number of CPUs, threads and slots and any width of the      *)
(* counters.                                                               *)
(***************************************************************************)
EXTENDS RunQueue, FiniteSetTheorems, TLAPS

Counter == 0 .. Modulus - 1

(* How far counter h is ahead of counter t *)
Dist(h, t) == (h - t) % Modulus

Putting == {c \in Cpu : pc[c] = "put"}
Taking == {c \in Cpu : pc[c] = "take"}

TypeOK ==
    /\ slots \in [Slot -> Thread \cup {NoThread}]
    /\ head \in Counter /\ tail \in Counter
    /\ pc \in [Cpu -> {"out", "put", "check", "claim", "take", "null"}]
    /\ ticket \in [Cpu -> Counter]
    /\ arg \in [Cpu -> Thread \cup {NoThread}]
    /\ held \in [Cpu -> SUBSET Thread]
    /\ tickets \in 0 .. MaxTickets

(* A thread is in one slot, or on its way to one, or in the hands of one   *)
(* CPU.                                                                    *)
OnePlace ==
    /\ \A c, d \in Cpu : c # d => held[c] \cap held[d] = {}
    /\ \A c \in Cpu : held[c] \cap Queued = {}
    /\ \A c \in Putting : arg[c] # NoThread
    /\ \A c, d \in Putting : arg[c] = arg[d] => c = d
    /\ \A i, j \in Slot : slots[i] = slots[j] /\ slots[i] # NoThread => i = j
    /\ \A c \in Putting, i \in Slot : arg[c] # slots[i]

(* Threads that no dequeue has claimed *)
Unclaimed == Cardinality(Queued) - Cardinality(Taking)

(* The counters are as far apart as there are such threads, and a copy of  *)
(* m_tail that a dequeue works with is behind m_tail by no more than the   *)
(* tickets there have been.                                                *)
CountersMatch ==
    /\ IsFiniteSet(Queued)
    /\ Unclaimed = Dist(head, tail) /\ Unclaimed <= tickets
    /\ \A c \in Cpu : pc[c] \in {"check", "claim"} =>
          Dist(head, ticket[c]) \in Unclaimed .. tickets
    /\ \A c \in Cpu : pc[c] = "claim" => Dist(head, ticket[c]) # 0

QueueInv == TypeOK /\ OnePlace /\ CountersMatch
-----------------------------------------------------------------------------
LEMMA Distances ==
    ASSUME NEW h \in Counter, NEW t \in Counter
    PROVE  /\ Dist(h, t) = IF h >= t THEN h - t ELSE h - t + Modulus
           /\ Inc(h) = IF h + 1 = Modulus THEN 0 ELSE h + 1
           /\ Dist(h, t) \in Counter /\ Inc(h) \in Counter
           /\ Dist(h, t) + 1 < Modulus => Dist(Inc(h), t) = Dist(h, t) + 1
           /\ Dist(h, t) # 0 => Dist(h, Inc(t)) = Dist(h, t) - 1
<1>1. Modulus \in Nat \ {0}
  BY RunQueueAssumption
<1>2. ASSUME NEW a \in Counter, NEW b \in Counter
      PROVE  (a - b) % Modulus = IF a >= b THEN a - b ELSE a - b + Modulus
  BY <1>1 DEF Counter
<1>3. ASSUME NEW a \in Counter
      PROVE  (a + 1) % Modulus = IF a + 1 = Modulus THEN 0 ELSE a + 1
  BY <1>1 DEF Counter
<1>4. Inc(h) \in Counter /\ Inc(t) \in Counter
  BY <1>1, <1>3 DEF Inc, Counter
<1>5. /\ Dist(h, t) = IF h >= t THEN h - t ELSE h - t + Modulus
      /\ Dist(Inc(h), t) = IF Inc(h) >= t THEN Inc(h) - t ELSE Inc(h) - t + Modulus
      /\ Dist(h, Inc(t)) = IF h >= Inc(t) THEN h - Inc(t) ELSE h - Inc(t) + Modulus
  BY <1>2, <1>4 DEF Dist
<1>6. /\ Inc(h) = IF h + 1 = Modulus THEN 0 ELSE h + 1
      /\ Inc(t) = IF t + 1 = Modulus THEN 0 ELSE t + 1
  BY <1>3 DEF Inc
<1> QED  BY <1>1, <1>4, <1>5, <1>6 DEF Counter

LEMMA SignedIsDist ==
    ASSUME NEW h \in Counter, NEW t \in Counter, 2 * Dist(h, t) < Modulus
    PROVE  Signed(h, t) = Dist(h, t)
BY RunQueueAssumption, Distances DEF Signed, Dist, Counter

LEMMA SlotRange == \A n \in Int : SlotOf(n) \in Slot
BY RunQueueAssumption DEF SlotOf, Slot

(* A step that leaves the contents of the queue and the claims alone *)
LEMMA SameCounts ==
    ASSUME Queued' = Queued, Taking' = Taking
    PROVE  Unclaimed' = Unclaimed
BY DEF Unclaimed

LEMMA TakingFinite ==
    ASSUME NEW S \in SUBSET Cpu
    PROVE  IsFiniteSet(S) /\ Cardinality(S) \in Nat
BY RunQueueAssumption, FS_Subset, FS_CardinalityType

LEMMA QueueInvInit == Init => QueueInv
<1> SUFFICES ASSUME Init PROVE QueueInv
  OBVIOUS
<1> USE RunQueueAssumption DEF Init
<1>1. TypeOK
  BY DEF TypeOK, Counter
<1>2. Queued = {} /\ Putting = {} /\ Taking = {}
  BY DEF Queued, Putting, Taking
<1>3. OnePlace
  BY <1>2 DEF OnePlace
<1>4. CountersMatch
  <2>1. Dist(head, tail) = 0
    BY <1>1, Distances DEF TypeOK, Counter
  <2> QED  BY <1>1, <1>2, <2>1, FS_EmptySet DEF CountersMatch, Unclaimed, TypeOK
<1> QED  BY <1>1, <1>3, <1>4 DEF QueueInv
-----------------------------------------------------------------------------
(* What each action does to the places a thread can be in. *)
LEMMA TakeHeadEffect ==
    ASSUME QueueInv, NEW c \in Cpu, NEW t \in Thread, TakeHeadTicket(c, t)
    PROVE  /\ Queued' = Queued \cup {t} /\ t \notin Queued /\ t \in held[c]
           /\ Putting' = Putting \cup {c} /\ c \notin Putting /\ Taking' = Taking
           /\ arg' = [arg EXCEPT ![c] = t] /\ held' = [held EXCEPT ![c] = @ \ {t}]
           /\ pc' = [pc EXCEPT ![c] = "put"] /\ slots' = slots
<1> USE DEF TakeHeadTicket
<1>0. TypeOK /\ OnePlace
  BY DEF QueueInv
<1>1. Putting' = Putting \cup {c} /\ c \notin Putting /\ Taking' = Taking
  BY <1>0 DEF Putting, Taking, TypeOK
<1>2. \A d \in Cpu : arg'[d] = IF d = c THEN t ELSE arg[d]
  BY <1>0 DEF TypeOK
<1>3. Queued = {arg[d] : d \in Putting} \cup {slots[i] : i \in {j \in Slot : slots[j] # NoThread}}
  BY DEF Queued, Putting
<1>4. Queued' = {arg'[d] : d \in Putting'} \cup {slots'[i] : i \in {j \in Slot : slots'[j] # NoThread}}
  BY DEF Queued, Putting
<1>5. {arg'[d] : d \in Putting'} = {arg[d] : d \in Putting} \cup {t}
  BY <1>1, <1>2 DEF Putting
<1>6. Queued' = Queued \cup {t}
  BY <1>3, <1>4, <1>5
<1>7. t \notin Queued
  BY <1>0 DEF OnePlace
<1> QED  BY <1>1, <1>6, <1>7

LEMMA PutSlotEffect ==
    ASSUME QueueInv, NEW c \in Cpu, PutSlot(c)
    PROVE  /\ Queued' = Queued
           /\ Putting' = Putting \ {c} /\ c \in Putting /\ Taking' = Taking
           /\ SlotOf(ticket[c]) \in Slot /\ slots[SlotOf(ticket[c])] = NoThread
           /\ slots' = [slots EXCEPT ![SlotOf(ticket[c])] = arg[c]]
           /\ arg[c] \in Thread /\ arg[c] # NoThread
<1> USE DEF PutSlot
<1>0. TypeOK /\ OnePlace
  BY DEF QueueInv
<1>1. Putting' = Putting \ {c} /\ c \in Putting /\ Taking' = Taking
  BY <1>0 DEF Putting, Taking, TypeOK
<1>2. SlotOf(ticket[c]) \in Slot
  BY <1>0, SlotRange DEF TypeOK, Counter
<1>3. arg[c] # NoThread /\ arg[c] \in Thread
  BY <1>0, <1>1 DEF OnePlace, TypeOK
<1>4. \A i \in Slot : slots'[i] = IF i = SlotOf(ticket[c]) THEN arg[c] ELSE slots[i]
  BY <1>0 DEF TypeOK
<1>5. \A d \in Putting \ {c} : arg'[d] = arg[d]
  BY <1>0 DEF TypeOK, Putting
<1>6. Queued = {arg[d] : d \in Putting} \cup {slots[i] : i \in {j \in Slot : slots[j] # NoThread}}
  BY DEF Queued, Putting
<1>7. Queued' = {arg'[d] : d \in Putting'} \cup {slots'[i] : i \in {j \in Slot : slots'[j] # NoThread}}
  BY DEF Queued, Putting
<1>8. {arg[d] : d \in Putting} = {arg'[d] : d \in Putting'} \cup {arg[c]}
  BY <1>1, <1>5
<1>9. {slots'[i] : i \in {j \in Slot : slots'[j] # NoThread}}
        = {slots[i] : i \in {j \in Slot : slots[j] # NoThread}} \cup {arg[c]}
  BY <1>2, <1>3, <1>4
<1>10. Queued' = Queued
  BY <1>6, <1>7, <1>8, <1>9
<1> QED  BY <1>1, <1>2, <1>3, <1>10

LEMMA TakeSlotEffect ==
    ASSUME QueueInv, NEW c \in Cpu, TakeSlot(c)
    PROVE  /\ SlotOf(ticket[c]) \in Slot /\ slots[SlotOf(ticket[c])] \in Thread
           /\ slots' = [slots EXCEPT ![SlotOf(ticket[c])] = NoThread]
           /\ slots[SlotOf(ticket[c])] \in Queued
           /\ Queued' = Queued \ {slots[SlotOf(ticket[c])]}
           /\ held' = [held EXCEPT ![c] = @ \cup {slots[SlotOf(ticket[c])]}]
           /\ Putting' = Putting /\ c \in Taking /\ Taking' = Taking \ {c}
<1> USE DEF TakeSlot
<1>0. TypeOK /\ OnePlace
  BY DEF QueueInv
<1> DEFINE s == SlotOf(ticket[c])
           x == slots[s]
<1>1. Putting' = Putting /\ c \in Taking /\ Taking' = Taking \ {c}
  BY <1>0 DEF Putting, Taking, TypeOK
<1>2. s \in Slot
  BY <1>0, SlotRange DEF TypeOK, Counter
<1>3. x # NoThread /\ x \in Thread
  BY <1>0, <1>2 DEF TypeOK
<1>4. \A i \in Slot : slots'[i] = IF i = s THEN NoThread ELSE slots[i]
  BY <1>0 DEF TypeOK
<1>6. Queued = {arg[d] : d \in Putting} \cup {slots[i] : i \in {j \in Slot : slots[j] # NoThread}}
  BY DEF Queued, Putting
<1>7. Queued' = {arg[d] : d \in Putting} \cup {slots'[i] : i \in {j \in Slot : slots'[j] # NoThread}}
  BY <1>1 DEF Queued, Putting
<1> HIDE DEF s
<1>8. x \notin {arg[d] : d \in Putting}
  BY <1>0, <1>2 DEF OnePlace
<1>9. \A i \in Slot : i # s => slots[i] # x
  BY <1>0, <1>2, <1>3 DEF OnePlace
<1>10. {slots'[i] : i \in {j \in Slot : slots'[j] # NoThread}}
        = {slots[i] : i \in {j \in Slot : slots[j] # NoThread}} \ {x}
  BY <1>2, <1>3, <1>4, <1>9
<1>11. Queued' = Queued \ {x} /\ x \in Queued
  BY <1>2, <1>3, <1>6, <1>7, <1>8, <1>10
<1> QED  BY <1>1, <1>2, <1>3, <1>11 DEF s

LEMMA TypeNext ==
    ASSUME QueueInv, [Next]_vars
    PROVE  TypeOK'
<1>0. TypeOK
  BY DEF QueueInv
<1> USE RunQueueAssumption DEF TypeOK
<1>1. ASSUME NEW c \in Cpu, NEW t \in Thread, TakeHeadTicket(c, t) PROVE TypeOK'
  <2>1. Inc(head) \in Counter
    BY <1>0, Distances
  <2>2. tickets' \in 0 .. MaxTickets
    BY <1>0, <1>1 DEF TakeHeadTicket
  <2> QED  BY <1>0, <1>1, <2>1, <2>2 DEF TakeHeadTicket
<1>2. ASSUME NEW c \in Cpu, PutSlot(c) PROVE TypeOK'
  BY <1>0, <1>2 DEF PutSlot
<1>3. ASSUME NEW c \in Cpu, LoadTail(c) PROVE TypeOK'
  BY <1>0, <1>3 DEF LoadTail
<1>4. ASSUME NEW c \in Cpu, CheckHead(c) PROVE TypeOK'
  BY <1>0, <1>4 DEF CheckHead
<1>5. ASSUME NEW c \in Cpu, ClaimTail(c) PROVE TypeOK'
  <2>1. Inc(tail) \in Counter
    BY <1>0, Distances
  <2> QED  BY <1>0, <1>5, <2>1 DEF ClaimTail
<1>6. ASSUME NEW c \in Cpu, TakeSlot(c) PROVE TypeOK'
  <2>1. slots[SlotOf(ticket[c])] \in Thread
    BY <1>6, TakeSlotEffect
  <2> QED  BY <1>0, <1>6, <2>1 DEF TakeSlot
<1>7. ASSUME NEW c \in Cpu, ReturnNull(c) PROVE TypeOK'
  BY <1>0, <1>7 DEF ReturnNull
<1>8. CASE UNCHANGED vars
  BY <1>0, <1>8 DEF vars
<1> QED  BY <1>1, <1>2, <1>3, <1>4, <1>5, <1>6, <1>7, <1>8 DEF Next

(* A step of a dequeue that moves no thread *)
LEMMA OnePlaceKept ==
    ASSUME OnePlace, UNCHANGED <<slots, arg, held>>, Putting' = Putting
    PROVE  OnePlace' /\ Queued' = Queued
<1>1. Queued' = Queued
  BY DEF Queued, Putting
<1> QED  BY <1>1 DEF OnePlace

LEMMA OnePlaceNext ==
    ASSUME QueueInv, [Next]_vars
    PROVE  OnePlace'
<1>0. TypeOK /\ OnePlace
  BY DEF QueueInv
<1>1. ASSUME NEW c \in Cpu, NEW t \in Thread, TakeHeadTicket(c, t) PROVE OnePlace'
  <2>0. /\ Queued' = Queued \cup {t} /\ t \notin Queued /\ t \in held[c]
        /\ Putting' = Putting \cup {c} /\ c \notin Putting /\ slots' = slots
    BY <1>1, TakeHeadEffect
  <2>1. \A d \in Cpu : held'[d] = IF d = c THEN held[c] \ {t} ELSE held[d]
    <3>1. held' = [held EXCEPT ![c] = held[c] \ {t}]
      BY <1>1, TakeHeadEffect
    <3>2. held \in [Cpu -> SUBSET Thread]
      BY <1>0 DEF TypeOK
    <3> QED  BY <3>1, <3>2
  <2>2. \A d \in Cpu : arg'[d] = IF d = c THEN t ELSE arg[d]
    BY <1>0, <1>1, TakeHeadEffect DEF TypeOK
  <2>3. \A d, e \in Cpu : d # e => held'[d] \cap held'[e] = {}
    BY <1>0, <2>0, <2>1 DEF OnePlace
  <2>7. \A d \in Cpu : held'[d] \cap Queued' = {}
    BY <1>0, <2>0, <2>1 DEF OnePlace
  <2>4. /\ \A d \in Putting : arg[d] \in Queued /\ d \in Cpu
        /\ \A i \in Slot : slots[i] # NoThread => slots[i] \in Queued
        /\ t # NoThread
    BY RunQueueAssumption DEF Queued, Putting
  <2>5. /\ \A d \in Putting' : arg'[d] # NoThread
        /\ \A d, e \in Putting' : arg'[d] = arg'[e] => d = e
        /\ \A d \in Putting', i \in Slot : arg'[d] # slots'[i]
    BY <1>0, <2>0, <2>2, <2>4 DEF OnePlace
  <2>6. \A i, j \in Slot : slots'[i] = slots'[j] /\ slots'[i] # NoThread => i = j
    BY <1>0, <2>0 DEF OnePlace
  <2> QED  BY <2>3, <2>5, <2>6, <2>7 DEF OnePlace
<1>2. ASSUME NEW c \in Cpu, PutSlot(c) PROVE OnePlace'
  <2>0. /\ Queued' = Queued
        /\ Putting' = Putting \ {c} /\ c \in Putting
        /\ SlotOf(ticket[c]) \in Slot /\ slots[SlotOf(ticket[c])] = NoThread
        /\ arg[c] \in Thread /\ arg[c] # NoThread
        /\ held' = held
    BY <1>2, PutSlotEffect DEF PutSlot
  <2>1. \A i \in Slot : slots'[i] = IF i = SlotOf(ticket[c]) THEN arg[c] ELSE slots[i]
    BY <1>0, <1>2, PutSlotEffect DEF TypeOK
  <2>2. \A d \in Putting' : arg'[d] = arg[d] /\ d \in Putting /\ d # c
    BY <1>0, <1>2, <2>0 DEF TypeOK, Putting, PutSlot
  <2>3. /\ \A d, e \in Cpu : d # e => held'[d] \cap held'[e] = {}
        /\ \A d \in Cpu : held'[d] \cap Queued' = {}
    BY <1>0, <2>0 DEF OnePlace
  <2>4. /\ \A d \in Putting' : arg'[d] # NoThread
        /\ \A d, e \in Putting' : arg'[d] = arg'[e] => d = e
    BY <1>0, <2>0, <2>2 DEF OnePlace
  <2>5. \A i, j \in Slot : slots'[i] = slots'[j] /\ slots'[i] # NoThread => i = j
    BY <1>0, <2>0, <2>1 DEF OnePlace
  <2>6. \A d \in Putting', i \in Slot : arg'[d] # slots'[i]
    BY <1>0, <2>0, <2>1, <2>2 DEF OnePlace
  <2> QED  BY <2>3, <2>4, <2>5, <2>6 DEF OnePlace
<1>3. ASSUME NEW c \in Cpu, LoadTail(c) \/ CheckHead(c) \/ ClaimTail(c) \/ ReturnNull(c)
      PROVE  OnePlace'
  <2>1. UNCHANGED <<slots, arg, held>>
    BY <1>3 DEF LoadTail, CheckHead, ClaimTail, ReturnNull
  <2>2. Putting' = Putting
    BY <1>0, <1>3 DEF LoadTail, CheckHead, ClaimTail, ReturnNull, Putting, TypeOK
  <2> QED  BY <1>0, <2>1, <2>2, OnePlaceKept
<1>4. ASSUME NEW c \in Cpu, TakeSlot(c) PROVE OnePlace'
  <2> DEFINE s == SlotOf(ticket[c])
             x == slots[s]
  <2>0. /\ s \in Slot /\ x \in Thread /\ x \in Queued /\ Queued' = Queued \ {x}
        /\ Putting' = Putting /\ arg' = arg
    BY <1>4, TakeSlotEffect DEF TakeSlot
  <2>1. \A i \in Slot : slots'[i] = IF i = s THEN NoThread ELSE slots[i]
    BY <1>0, <1>4, TakeSlotEffect DEF TypeOK
  <2>2. \A d \in Cpu : held'[d] = IF d = c THEN held[c] \cup {x} ELSE held[d]
    BY <1>0, <1>4, TakeSlotEffect DEF TypeOK
  <2> HIDE DEF s, x
  <2>3. /\ \A d, e \in Cpu : d # e => held'[d] \cap held'[e] = {}
        /\ \A d \in Cpu : held'[d] \cap Queued' = {}
    BY <1>0, <2>0, <2>2 DEF OnePlace
  <2>4. /\ \A d \in Putting' : arg'[d] # NoThread
        /\ \A d, e \in Putting' : arg'[d] = arg'[e] => d = e
        /\ \A d \in Putting', i \in Slot : arg'[d] # slots'[i]
        /\ \A i, j \in Slot : slots'[i] = slots'[j] /\ slots'[i] # NoThread => i = j
    BY <1>0, <2>0, <2>1 DEF OnePlace
  <2> QED  BY <2>3, <2>4 DEF OnePlace
<1>5. CASE UNCHANGED vars
  <2>1. Putting' = Putting /\ UNCHANGED <<slots, arg, held>>
    BY <1>5 DEF vars, Putting
  <2> QED  BY <1>0, <2>1, OnePlaceKept
<1> QED  BY <1>1, <1>2, <1>3, <1>4, <1>5 DEF Next

LEMMA CountersNext ==
    ASSUME QueueInv, [Next]_vars
    PROVE  CountersMatch'
<1>0. TypeOK /\ CountersMatch
  BY DEF QueueInv
<1>n. /\ head \in Counter /\ tail \in Counter /\ tickets \in 0 .. MaxTickets
      /\ \A d \in Cpu : ticket[d] \in Counter
      /\ Modulus \in Nat /\ MaxTickets \in Nat /\ 2 * MaxTickets < Modulus
      /\ IsFiniteSet(Queued) /\ Cardinality(Queued) \in Nat
      /\ IsFiniteSet(Taking) /\ Cardinality(Taking) \in Nat
      /\ Unclaimed \in Counter
  <2>1. IsFiniteSet(Queued) /\ Cardinality(Queued) \in Nat
    BY <1>0, FS_CardinalityType DEF CountersMatch
  <2>2. IsFiniteSet(Taking) /\ Cardinality(Taking) \in Nat
    BY TakingFinite DEF Taking
  <2>3. Unclaimed \in Counter
    BY <1>0, Distances DEF CountersMatch, TypeOK
  <2> QED  BY <1>0, <2>1, <2>2, <2>3, RunQueueAssumption DEF TypeOK
<1>1. ASSUME NEW c \in Cpu, NEW t \in Thread, TakeHeadTicket(c, t) PROVE CountersMatch'
  <2>0. /\ Queued' = Queued \cup {t} /\ t \notin Queued /\ Taking' = Taking
        /\ head' = Inc(head) /\ tail' = tail /\ tickets' = tickets + 1 /\ tickets < MaxTickets
    BY <1>1, TakeHeadEffect DEF TakeHeadTicket
  <2>1. \A d \in Cpu : pc'[d] \in {"check", "claim"} => pc'[d] = pc[d] /\ ticket'[d] = ticket[d]
    BY <1>0, <1>1 DEF TakeHeadTicket, TypeOK
  <2>2. IsFiniteSet(Queued') /\ Unclaimed' = Unclaimed + 1
    <3>1. IsFiniteSet(Queued \cup {t}) /\ Cardinality(Queued \cup {t}) = Cardinality(Queued) + 1
      BY <1>n, <2>0, FS_AddElement
    <3> QED  BY <1>n, <2>0, <3>1 DEF Unclaimed
  <2>3. ASSUME NEW u \in Counter, Dist(head, u) <= tickets
        PROVE  Dist(head', u) = Dist(head, u) + 1
    <3>1. Dist(head, u) \in Nat /\ Dist(head, u) + 1 < Modulus
      BY <1>n, <2>0, <2>3, Distances DEF Counter
    <3> QED  BY <1>n, <2>0, <2>3, <3>1, Distances
  <2>4. Unclaimed' = Dist(head', tail') /\ Unclaimed' <= tickets'
    BY <1>0, <1>n, <2>0, <2>2, <2>3 DEF CountersMatch, Counter
  <2>5. ASSUME NEW d \in Cpu, pc'[d] \in {"check", "claim"}
        PROVE  Dist(head', ticket'[d]) \in Unclaimed' .. tickets' /\ Dist(head', ticket'[d]) # 0
    <3>1. ticket'[d] = ticket[d] /\ Dist(head, ticket[d]) \in Unclaimed .. tickets
      BY <1>0, <2>1, <2>5 DEF CountersMatch
    <3>2. Dist(head', ticket[d]) = Dist(head, ticket[d]) + 1
      BY <1>n, <2>3, <3>1 DEF Counter
    <3> QED  BY <1>n, <2>0, <2>2, <3>1, <3>2 DEF Counter
  <2> QED  BY <2>2, <2>4, <2>5 DEF CountersMatch
<1>2. ASSUME Queued' = Queued, Taking' = Taking, UNCHANGED <<head, tail, tickets>>,
             NEW c \in Cpu, \A d \in Cpu \ {c} : pc'[d] = pc[d] /\ ticket'[d] = ticket[d],
             pc'[c] \in {"check", "claim"} => Dist(head', ticket'[c]) \in Unclaimed .. tickets,
             pc'[c] = "claim" => Dist(head', ticket'[c]) # 0
      PROVE  CountersMatch'
  <2>1. Unclaimed' = Unclaimed
    BY <1>2, SameCounts
  <2> QED  BY <1>0, <1>2, <2>1 DEF CountersMatch
<1>3. ASSUME NEW c \in Cpu, PutSlot(c) PROVE CountersMatch'
  BY <1>0, <1>2, <1>3, PutSlotEffect DEF PutSlot, TypeOK
<1>4. ASSUME NEW c \in Cpu, LoadTail(c) \/ CheckHead(c) \/ ClaimTail(c) \/ ReturnNull(c)
      PROVE  Queued' = Queued
  <2>1. UNCHANGED <<slots, arg>>
    BY <1>4 DEF LoadTail, CheckHead, ClaimTail, ReturnNull
  <2>2. Putting' = Putting
    BY <1>0, <1>4 DEF LoadTail, CheckHead, ClaimTail, ReturnNull, Putting, TypeOK
  <2> QED  BY <2>1, <2>2 DEF Queued, Putting
<1>5. ASSUME NEW c \in Cpu, LoadTail(c) PROVE CountersMatch'
  <2>1. Taking' = Taking /\ ticket'[c] = tail /\ pc'[c] = "check"
    BY <1>0, <1>5 DEF LoadTail, Taking, TypeOK
  <2>2. Dist(head, tail) \in Unclaimed .. tickets
    BY <1>0, <1>n DEF CountersMatch, Counter
  <2> QED  BY <1>0, <1>2, <1>4, <1>5, <2>1, <2>2 DEF LoadTail, TypeOK
<1>6. ASSUME NEW c \in Cpu, CheckHead(c) PROVE CountersMatch'
  <2>1. Taking' = Taking /\ ticket' = ticket
    BY <1>0, <1>6 DEF CheckHead, Taking, TypeOK
  <2>2. Dist(head, ticket[c]) \in Unclaimed .. tickets
    BY <1>0, <1>6 DEF CheckHead, CountersMatch
  <2>3. Signed(head, ticket[c]) = Dist(head, ticket[c])
    BY <1>n, <2>2, SignedIsDist DEF Counter
  <2>4. pc'[c] = "claim" => Dist(head, ticket[c]) # 0
    BY <1>0, <1>6, <2>3 DEF CheckHead, TypeOK
  <2> QED  BY <1>0, <1>2, <1>4, <1>6, <2>1, <2>2, <2>4 DEF CheckHead, TypeOK
<1>7. ASSUME NEW c \in Cpu, ClaimTail(c), tail # ticket[c] PROVE CountersMatch'
  <2>1. Taking' = Taking /\ ticket'[c] = tail /\ pc'[c] = "check" /\ tail' = tail
    BY <1>0, <1>7 DEF ClaimTail, Taking, TypeOK
  <2>2. Dist(head, tail) \in Unclaimed .. tickets
    BY <1>0, <1>n DEF CountersMatch, Counter
  <2> QED  BY <1>0, <1>2, <1>4, <1>7, <2>1, <2>2 DEF ClaimTail, TypeOK
<1>8. ASSUME NEW c \in Cpu, ClaimTail(c), tail = ticket[c] PROVE CountersMatch'
  <2>1. /\ Taking' = Taking \cup {c} /\ c \notin Taking /\ ticket' = ticket /\ pc'[c] = "take"
        /\ tail' = Inc(tail) /\ UNCHANGED <<head, tickets>>
        /\ \A d \in Cpu : d # c => pc'[d] = pc[d]
    BY <1>0, <1>8 DEF ClaimTail, Taking, TypeOK
  <2>2. Unclaimed' = Unclaimed - 1
    <3>1. Cardinality(Taking \cup {c}) = Cardinality(Taking) + 1
      BY <1>n, <2>1, FS_AddElement
    <3>2. Queued' = Queued
      BY <1>4, <1>8
    <3> QED  BY <1>n, <2>1, <3>1, <3>2 DEF Unclaimed
  <2>3. Dist(head, tail) # 0
    BY <1>0, <1>8 DEF ClaimTail, CountersMatch
  <2>4. Dist(head', tail') = Dist(head, tail) - 1
    BY <1>n, <2>1, <2>3, Distances
  <2>5. ASSUME NEW d \in Cpu, pc'[d] \in {"check", "claim"}
        PROVE  /\ Dist(head', ticket'[d]) \in Unclaimed' .. tickets'
               /\ pc'[d] = "claim" => Dist(head', ticket'[d]) # 0
    <3>1. pc'[d] = pc[d] /\ Dist(head, ticket[d]) \in Unclaimed .. tickets
      BY <1>0, <2>1, <2>5 DEF CountersMatch
    <3> QED  BY <1>0, <1>n, <2>1, <2>2, <3>1 DEF CountersMatch, Counter
  <2>6. Unclaimed' = Dist(head', tail') /\ Unclaimed' <= tickets'
    BY <1>0, <1>n, <2>1, <2>2, <2>4 DEF CountersMatch, Counter
  <2> QED  BY <1>4, <1>8, <1>n, <2>5, <2>6 DEF CountersMatch
<1>9. ASSUME NEW c \in Cpu, TakeSlot(c) PROVE CountersMatch'
  <2> DEFINE x == slots[SlotOf(ticket[c])]
  <2>1. /\ x \in Queued /\ Queued' = Queued \ {x} /\ c \in Taking /\ Taking' = Taking \ {c}
        /\ UNCHANGED <<head, tail, ticket, tickets>>
    BY <1>9, TakeSlotEffect DEF TakeSlot
  <2>2. \A d \in Cpu : pc'[d] \in {"check", "claim"} => pc'[d] = pc[d]
    BY <1>0, <1>9 DEF TakeSlot, TypeOK
  <2> HIDE DEF x
  <2>3. IsFiniteSet(Queued') /\ Unclaimed' = Unclaimed
    <3>1. IsFiniteSet(Queued \ {x}) /\ Cardinality(Queued \ {x}) = Cardinality(Queued) - 1
      BY <1>n, <2>1, FS_RemoveElement
    <3>2. Cardinality(Taking \ {c}) = Cardinality(Taking) - 1
      BY <1>n, <2>1, FS_RemoveElement
    <3> QED  BY <1>n, <2>1, <3>1, <3>2 DEF Unclaimed
  <2> QED  BY <1>0, <2>1, <2>2, <2>3 DEF CountersMatch
<1>10. ASSUME NEW c \in Cpu, ReturnNull(c) PROVE CountersMatch'
  <2>1. Taking' = Taking /\ pc'[c] = "out"
    BY <1>0, <1>10 DEF ReturnNull, Taking, TypeOK
  <2> QED  BY <1>0, <1>2, <1>4, <1>10, <2>1 DEF ReturnNull, TypeOK
<1>11. CASE UNCHANGED vars
  <2>1. Queued' = Queued /\ Taking' = Taking
    BY <1>11 DEF vars, Queued, Taking
  <2>2. Unclaimed' = Unclaimed
    BY <2>1, SameCounts
  <2> QED  BY <1>0, <1>11, <2>1, <2>2 DEF vars, CountersMatch
<1> QED
  BY <1>1, <1>3, <1>5, <1>6, <1>7, <1>8, <1>9, <1>10, <1>11 DEF Next

(* The places of the threads and the distance of the counters are as       *)
(* QueueInv says, however the CPUs' accesses interleave.                   *)
THEOREM QueueInvariant == Spec => []QueueInv
<1>1. QueueInv /\ [Next]_vars => QueueInv'
  BY TypeNext, OnePlaceNext, CountersNext DEF QueueInv
<1> QED  BY <1>1, QueueInvInit, PTL DEF Spec
-----------------------------------------------------------------------------
LEMMA Phases ==
    /\ Phase("out") = "out" /\ Phase("put") = "out"
    /\ Phase("check") = "looking" /\ Phase("claim") = "looking"
    /\ Phase("take") = "reserved" /\ Phase("null") = "null"
BY DEF Phase

(* A claim is possible when there are threads that nobody has claimed. *)
LEMMA AvailableIsUnclaimed ==
    ASSUME QueueInv
    PROVE  Queue!Available <=> Dist(head, tail) > 0
<1>0. TypeOK /\ CountersMatch
  BY DEF QueueInv
<1>1. Queue!Reserved = Taking
  BY <1>0, Phases DEF Queue!Reserved, Taking, TypeOK
<1>2. Cardinality(Queued) \in Nat /\ Cardinality(Taking) \in Nat
  BY <1>0, FS_CardinalityType, TakingFinite DEF CountersMatch, Taking
<1>3. Queue!Available <=> Cardinality(Queued) > Cardinality(Taking)
  <2>1. \A S : Queue!Cardinality(S) = Cardinality(S)
    BY DEF Queue!Cardinality, Cardinality
  <2> QED  BY <1>1, <2>1 DEF Queue!Available
<1> QED  BY <1>0, <1>2, <1>3 DEF CountersMatch, Unclaimed

LEMMA QueueSimulation ==
    ASSUME QueueInv, QueueInv', [Next]_vars
    PROVE  [Queue!QNext]_(Queue!qvars)
<1> DEFINE phase == [c \in Cpu |-> Phase(pc[c])]
<1> USE DEF Queue!QNext, Queue!qvars
<1>0. TypeOK /\ CountersMatch
  BY DEF QueueInv
<1>p. ASSUME NEW c \in Cpu, NEW l \in {"out", "put", "check", "claim", "take", "null"},
             pc' = [pc EXCEPT ![c] = l]
      PROVE  phase' = [phase EXCEPT ![c] = Phase(l)]
  BY <1>0, <1>p DEF TypeOK
<1>s. ASSUME Queued' = Queued, held' = held, phase' = phase PROVE UNCHANGED Queue!qvars
  BY <1>s
<1>m. ASSUME NEW c \in Cpu, LoadTail(c) \/ CheckHead(c) \/ ClaimTail(c) \/ ReturnNull(c)
      PROVE  Queued' = Queued /\ held' = held
  <2>1. UNCHANGED <<slots, arg, held>>
    BY <1>m DEF LoadTail, CheckHead, ClaimTail, ReturnNull
  <2>2. Putting' = Putting
    BY <1>0, <1>m DEF LoadTail, CheckHead, ClaimTail, ReturnNull, Putting, TypeOK
  <2> QED  BY <2>1, <2>2 DEF Queued, Putting
<1>1. ASSUME NEW c \in Cpu, NEW t \in Thread, TakeHeadTicket(c, t) PROVE Queue!Put(c)
  <2>1. phase[c] = "out"
    BY <1>0, <1>1, Phases DEF TakeHeadTicket
  <2>2. phase' = phase
    BY <1>0, <1>1, <1>p, <2>1, Phases DEF TakeHeadTicket, TypeOK
  <2>3. t \in held[c] /\ Queued' = Queued \cup {t} /\ held' = [held EXCEPT ![c] = @ \ {t}]
    BY <1>1, TakeHeadEffect
  <2> QED  BY <2>1, <2>2, <2>3 DEF Queue!Put
<1>2. ASSUME NEW c \in Cpu, PutSlot(c) PROVE UNCHANGED Queue!qvars
  <2>1. phase[c] = "out"
    BY <1>0, <1>2, Phases DEF PutSlot
  <2>2. phase' = phase
    BY <1>0, <1>2, <1>p, <2>1, Phases DEF PutSlot, TypeOK
  <2> QED  BY <1>2, <1>s, <2>2, PutSlotEffect DEF PutSlot
<1>3. ASSUME NEW c \in Cpu, LoadTail(c) PROVE Queue!Look(c)
  <2>1. phase[c] = "out" /\ phase' = [phase EXCEPT ![c] = "looking"]
    BY <1>3, <1>p, Phases DEF LoadTail
  <2> QED  BY <1>3, <1>m, <2>1 DEF Queue!Look
(* m_head is not ahead of a copy of m_tail that may be old: the queue has  *)
(* nothing for the caller at this moment.                                  *)
<1>4. ASSUME NEW c \in Cpu, CheckHead(c) PROVE Queue!FindEmpty(c) \/ UNCHANGED Queue!qvars
  <2>0. Dist(head, ticket[c]) \in Unclaimed .. tickets /\ phase[c] = "looking"
    BY <1>0, <1>4, Phases DEF CheckHead, CountersMatch
  <2>n. /\ Unclaimed = Dist(head, tail) /\ Unclaimed \in Nat /\ tickets \in 0 .. MaxTickets
        /\ head \in Counter /\ ticket[c] \in Counter
        /\ MaxTickets \in Nat /\ Modulus \in Nat /\ 2 * MaxTickets < Modulus
    BY <1>0, Distances, RunQueueAssumption DEF CountersMatch, TypeOK, Counter
  <2>1. Signed(head, ticket[c]) = Dist(head, ticket[c])
    BY <2>0, <2>n, SignedIsDist
  <2>2. CASE Signed(head, ticket[c]) <= 0
    <3>1. ~Queue!Available
      BY <2>0, <2>n, <2>1, <2>2, AvailableIsUnclaimed
    <3>2. phase' = [phase EXCEPT ![c] = "null"]
      BY <1>4, <1>p, <2>2, Phases DEF CheckHead
    <3> QED  BY <1>4, <1>m, <2>0, <3>1, <3>2 DEF Queue!FindEmpty
  <2>3. CASE ~(Signed(head, ticket[c]) <= 0)
    <3>1. phase' = phase
      BY <1>0, <1>4, <1>p, <2>0, <2>3, Phases DEF CheckHead, TypeOK
    <3> QED  BY <1>4, <1>m, <1>s, <3>1
  <2> QED  BY <2>2, <2>3
(* m_head was ahead of the copy, and the copy is m_tail itself. *)
<1>5. ASSUME NEW c \in Cpu, ClaimTail(c) PROVE Queue!Reserve(c) \/ UNCHANGED Queue!qvars
  <2>0. phase[c] = "looking"
    BY <1>0, <1>5, Phases DEF ClaimTail
  <2>1. CASE tail = ticket[c]
    <3>1. Dist(head, tail) # 0 /\ Dist(head, tail) \in Nat
      BY <1>0, <1>5, <2>1, Distances DEF ClaimTail, CountersMatch, TypeOK, Counter
    <3>2. Queue!Available
      BY <3>1, AvailableIsUnclaimed
    <3>3. phase' = [phase EXCEPT ![c] = "reserved"]
      BY <1>5, <1>p, <2>1, Phases DEF ClaimTail
    <3> QED  BY <1>5, <1>m, <2>0, <3>2, <3>3 DEF Queue!Reserve
  <2>2. CASE tail # ticket[c]
    <3>1. phase' = phase
      <4>1. phase' = [phase EXCEPT ![c] = "looking"]
        BY <1>5, <1>p, <2>2, Phases DEF ClaimTail
      <4> QED  BY <2>0, <4>1
    <3> QED  BY <1>5, <1>m, <1>s, <3>1
  <2> QED  BY <2>1, <2>2
<1>6. ASSUME NEW c \in Cpu, TakeSlot(c) PROVE Queue!Receive(c)
  <2>1. phase[c] = "reserved" /\ phase' = [phase EXCEPT ![c] = "out"]
    BY <1>6, <1>p, Phases DEF TakeSlot
  <2> QED  BY <1>6, <2>1, TakeSlotEffect DEF Queue!Receive
<1>7. ASSUME NEW c \in Cpu, ReturnNull(c) PROVE Queue!ReturnNull(c)
  <2>1. phase[c] = "null" /\ phase' = [phase EXCEPT ![c] = "out"]
    BY <1>7, <1>p, Phases DEF ReturnNull
  <2> QED  BY <1>7, <1>m, <2>1 DEF Queue!ReturnNull
<1>8. CASE UNCHANGED vars
  BY <1>8, <1>s DEF vars, Queued
<1> QED  BY <1>1, <1>2, <1>3, <1>4, <1>5, <1>6, <1>7, <1>8 DEF Next

(* The lock-free ring is the queue of ThreadQueue: an enqueue takes effect *)
(* when it gets its ticket, a dequeue when it claims one or when it        *)
(* compares the counters and finds nothing; no thread is lost or handed to *)
(* two CPUs, and null is only returned of a queue that had nothing left.   *)
THEOREM RingImplementsQueue == Spec => ImplementsThreadQueue
<1>1. Init => Queue!QInit
  <2> SUFFICES ASSUME Init PROVE Queue!QInit
    OBVIOUS
  <2>1. Queued = {}
    BY DEF Init, Queued
  <2> QED  BY <2>1, Phases DEF Init, Queue!QInit
<1>2. QueueInv /\ QueueInv' /\ [Next]_vars => [Queue!QNext]_(Queue!qvars)
  BY QueueSimulation
<1> QED  BY <1>1, <1>2, QueueInvariant, PTL DEF Spec, ImplementsThreadQueue, Queue!QSpec
=============================================================================
