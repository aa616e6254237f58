------------------------ MODULE RunQueueOrderProofs ------------------------
(***************************************************************************)
(* The ring of kernel/proc/scheduler.cc is first in, first out, for any    *)
(* number of CPUs, threads and slots and any width of the counters, as     *)
(* long as it does not go round under a pending dequeue.  What RunQueue    *)
(* does at each step is taken from RunQueueProofs.                         *)
(***************************************************************************)
EXTENDS RunQueueOrder, RunQueueProofs, SequenceTheorems

(* The slot of ticket n, when l tickets have been given out and the next   *)
(* one has slot h.                                                         *)
PosAt(h, l, n) == LET d == h - 1 - (l - n)
                  IN  IF d < 0 THEN d + SlotCount ELSE d
Pos(n) == PosAt(SlotOf(head), Len(given), n)

HistoryOK ==
    /\ given \in Seq(Thread) /\ Len(given) = tickets
    /\ claimed \in 0 .. Len(given) /\ Dist(head, tail) = Len(given) - claimed
    /\ serial \in [Cpu -> Nat]
    /\ \A c \in Taking : serial[c] \in 1 .. claimed
    /\ \A c, d \in Taking : serial[c] = serial[d] => c = d

(* As long as the ring has not gone round under a pending dequeue, the     *)
(* pending tickets have slots of their own, and everything that is in a    *)
(* slot or on its way to one, or waited for, is where its ticket says.     *)
InSlots ==
    /\ \A n \in Pending : Len(given) - n < SlotCount
    /\ \A c \in Putting : \E n \in Pending : given[n] = arg[c] /\ Pos(n) = SlotOf(ticket[c])
    /\ \A i \in Slot : slots[i] # NoThread => \E n \in Pending : given[n] = slots[i] /\ Pos(n) = i
    /\ \A c \in Taking : Pos(serial[c]) = SlotOf(ticket[c])
    /\ Pos(claimed + 1) = SlotOf(tail)

OrderInv == HistoryOK /\ (~lapped => InSlots)

LEMMA Remainder ==
    ASSUME NEW s \in Nat \ {0}, NEW q \in Int, NEW r \in 0 .. s - 1
    PROVE  (s * q + r) % s = r
<1>1. ASSUME NEW a \in Int, NEW b \in Int, a < b PROVE s * b >= s * a + s
  <2>1. PICK k \in Nat : b = a + 1 + k
    <3>1. b - a - 1 \in Nat /\ b = a + 1 + (b - a - 1)
      BY <1>1
    <3> QED  BY <3>1
  <2>2. s * b = s * a + s + s * k
    BY <2>1
  <2>3. s * k >= 0
    OBVIOUS
  <2> QED  BY <2>2, <2>3
<1> DEFINE x == s * q + r
           p == x \div s
           z == x % s
<1>2. x \in Int /\ p \in Int /\ z \in 0 .. s - 1 /\ x = s * p + z
  OBVIOUS
<1> HIDE DEF p, z
<1>3. ASSUME p < q PROVE FALSE
  <2>1. s * q >= s * p + s
    BY <1>1, <1>2, <1>3
  <2> QED  BY <1>2, <2>1
<1>4. ASSUME q < p PROVE FALSE
  <2>1. s * p >= s * q + s
    BY <1>1, <1>2, <1>4
  <2> QED  BY <1>2, <2>1
<1>5. p = q
  BY <1>2, <1>3, <1>4
<1> QED  BY <1>2, <1>5 DEF z

(* Consecutive tickets have consecutive slots, when the counter wraps too: *)
(* the number of slots divides its range.                                  *)
LEMMA NextSlot ==
    ASSUME NEW h \in Counter
    PROVE  SlotOf(Inc(h)) = IF SlotOf(h) + 1 = SlotCount THEN 0 ELSE SlotOf(h) + 1
<1> DEFINE s == SlotCount
           q == h \div s
           r == h % s
<1>0. s \in Nat \ {0} /\ Modulus \in Nat \ {0} /\ Modulus % s = 0 /\ h \in Nat
  BY RunQueueAssumption DEF Counter
<1>1. q \in Int /\ r \in 0 .. s - 1 /\ h = s * q + r
  BY <1>0
<1> HIDE DEF q, r, s
<1>2. (h + 1) % s = IF r + 1 = s THEN 0 ELSE r + 1
  <2>1. CASE r + 1 = s
    <3>1. h + 1 = s * (q + 1) + 0 /\ q + 1 \in Int /\ 0 \in 0 .. s - 1
      BY <1>0, <1>1, <2>1
    <3> QED  BY <1>0, <2>1, <3>1, Remainder
  <2>2. CASE r + 1 # s
    <3>1. h + 1 = s * q + (r + 1) /\ r + 1 \in 0 .. s - 1
      BY <1>0, <1>1, <2>2
    <3> QED  BY <1>0, <1>1, <2>2, <3>1, Remainder
  <2> QED  BY <2>1, <2>2
<1>3. Inc(h) = IF h + 1 = Modulus THEN 0 ELSE h + 1
  BY Distances
<1>4. 0 % s = 0
  <2>1. s * 0 + 0 = 0 /\ 0 \in 0 .. s - 1
    BY <1>0
  <2> QED  BY <1>0, <2>1, Remainder
<1>5. CASE h + 1 = Modulus
  BY <1>0, <1>1, <1>2, <1>3, <1>4, <1>5 DEF SlotOf, r, s
<1>6. CASE h + 1 # Modulus
  BY <1>2, <1>3, <1>6 DEF SlotOf, r, s
<1> QED  BY <1>5, <1>6

LEMMA PosAtIs ==
    ASSUME NEW h \in Slot, NEW l \in Nat, NEW n \in Int, n <= l, l - n < SlotCount
    PROVE  /\ PosAt(h, l, n) \in Slot
           /\ PosAt(h, l, n) = h - 1 - (l - n) \/ PosAt(h, l, n) = h - 1 - (l - n) + SlotCount
BY RunQueueAssumption DEF PosAt, Slot

(* A ticket keeps its slot when another one is given out, *)
LEMMA PosAtKept ==
    ASSUME NEW h \in Slot, NEW l \in Nat, NEW n \in 1 .. l, l + 1 - n < SlotCount
    PROVE  PosAt(IF h + 1 = SlotCount THEN 0 ELSE h + 1, l + 1, n) = PosAt(h, l, n)
<1> SlotCount \in Nat \ {0}
  BY RunQueueAssumption
<1>1. CASE h + 1 = SlotCount
  BY <1>1 DEF PosAt, Slot
<1>2. CASE h + 1 # SlotCount
  BY <1>2 DEF PosAt, Slot
<1> QED  BY <1>1, <1>2

(* the new one has the slot of the counter, and the next ticket to be      *)
(* claimed the one after the last.                                         *)
LEMMA PosAtNext ==
    ASSUME NEW h \in Slot, NEW l \in Nat
    PROVE  /\ PosAt(IF h + 1 = SlotCount THEN 0 ELSE h + 1, l + 1, l + 1) = h
           /\ \A n \in 1 .. l : l - n < SlotCount =>
                 PosAt(h, l, n + 1) = IF PosAt(h, l, n) + 1 = SlotCount THEN 0
                                      ELSE PosAt(h, l, n) + 1
<1> SlotCount \in Nat \ {0}
  BY RunQueueAssumption
<1>1. PosAt(IF h + 1 = SlotCount THEN 0 ELSE h + 1, l + 1, l + 1) = h
  BY DEF PosAt, Slot
<1>2. ASSUME NEW n \in 1 .. l, l - n < SlotCount
      PROVE  PosAt(h, l, n + 1) = IF PosAt(h, l, n) + 1 = SlotCount THEN 0
                                  ELSE PosAt(h, l, n) + 1
  <2>1. CASE h - 1 - (l - n) < 0
    BY <1>2, <2>1 DEF PosAt, Slot
  <2>2. CASE ~(h - 1 - (l - n) < 0)
    BY <1>2, <2>2 DEF PosAt, Slot
  <2> QED  BY <2>1, <2>2
<1> QED  BY <1>1, <1>2

(* Pending tickets are in slots of their own. *)
LEMMA PosOwn ==
    ASSUME QueueInv, HistoryOK, NEW m \in Int, NEW n \in Int,
           m <= Len(given), Len(given) - m < SlotCount,
           n <= Len(given), Len(given) - n < SlotCount
    PROVE  Pos(m) \in Slot /\ (Pos(m) = Pos(n) => m = n)
<1>1. /\ SlotOf(head) \in 0 .. SlotCount - 1 /\ SlotCount \in Nat \ {0} /\ Len(given) \in Nat
  BY SlotRange, RunQueueAssumption DEF QueueInv, TypeOK, HistoryOK, Counter, Slot
<1>2. ASSUME NEW i \in Int, i <= Len(given), Len(given) - i < SlotCount
      PROVE  /\ Pos(i) \in Slot
             /\ \/ Pos(i) = SlotOf(head) - 1 - (Len(given) - i)
                \/ Pos(i) = SlotOf(head) - 1 - (Len(given) - i) + SlotCount
  BY <1>1, <1>2, PosAtIs DEF Pos, Slot
<1>3. Pos(m) \in Slot /\ Pos(n) \in Slot
  BY <1>2
<1>4. ASSUME Pos(m) = Pos(n) PROVE m = n
  <2>1. \/ Pos(m) = SlotOf(head) - 1 - (Len(given) - m)
        \/ Pos(m) = SlotOf(head) - 1 - (Len(given) - m) + SlotCount
    BY <1>2
  <2>2. \/ Pos(m) = SlotOf(head) - 1 - (Len(given) - n)
        \/ Pos(m) = SlotOf(head) - 1 - (Len(given) - n) + SlotCount
    BY <1>2, <1>4
  <2> QED  BY <1>1, <2>1, <2>2
<1> QED  BY <1>3, <1>4

LEMMA OrderInvInit == OInit => OrderInv
<1> SUFFICES ASSUME OInit PROVE OrderInv
  OBVIOUS
<1>0. QueueInv
  BY QueueInvInit DEF OInit
<1>1. Putting = {} /\ Taking = {} /\ given = <<>> /\ Len(given) = 0 /\ claimed = 0
  BY DEF OInit, Init, Putting, Taking
<1>2. Dist(head, tail) = 0
  BY <1>0, Distances DEF QueueInv, TypeOK, OInit, Init
<1>3. HistoryOK
  BY <1>1, <1>2 DEF HistoryOK, OInit, Init
<1>4. Pending = {}
  BY <1>1 DEF Pending
<1>5. Pos(claimed + 1) = SlotOf(tail)
  <2>1. SlotOf(head) \in Nat /\ head = tail
    BY <1>0, SlotRange DEF QueueInv, TypeOK, Counter, Slot, OInit, Init
  <2> QED  BY <1>1, <2>1 DEF Pos, PosAt
<1>6. InSlots
  BY <1>1, <1>4, <1>5 DEF InSlots, OInit, Init
<1> QED  BY <1>3, <1>6 DEF OrderInv

LEMMA PendingIs == Pending = {n \in 1 .. Len(given) : n > claimed \/ \E c \in Taking : serial[c] = n}
BY DEF Pending, Taking

(* A step that gives out, claims, fills and empties nothing *)
LEMMA OrderKept ==
    ASSUME OrderInv, UNCHANGED <<slots, head, tail, arg, tickets, given, claimed, serial, lapped>>,
           Putting' = Putting, Taking' = Taking,
           \A c \in Putting \cup Taking : ticket'[c] = ticket[c]
    PROVE  OrderInv'
<1>1. Pending' = Pending
  BY DEF Pending, Taking
<1>2. HistoryOK'
  BY DEF OrderInv, HistoryOK, Dist
<1>3. \A n : Pos(n)' = Pos(n)
  BY DEF Pos
<1>4. ASSUME InSlots PROVE InSlots'
  BY <1>1, <1>3, <1>4 DEF InSlots
<1> QED  BY <1>2, <1>4 DEF OrderInv

LEMMA OrderTakeHead ==
    ASSUME QueueInv, OrderInv, NEW c \in Cpu, NEW t \in Thread, OTakeHeadTicket(c, t)
    PROVE  OrderInv'
<1> DEFINE L == Len(given)
           S == SlotCount
           P(n) == PosAt(SlotOf(head'), L + 1, n)
<1>0. TypeOK /\ CountersMatch /\ HistoryOK /\ (~lapped => InSlots) /\ TakeHeadTicket(c, t)
  BY DEF QueueInv, OrderInv, OTakeHeadTicket
<1>1. /\ Putting' = Putting \cup {c} /\ c \notin Putting /\ Taking' = Taking /\ c \notin Taking
      /\ slots' = slots
      /\ \A d \in Cpu : arg'[d] = IF d = c THEN t ELSE arg[d]
      /\ \A d \in Cpu : ticket'[d] = IF d = c THEN head ELSE ticket[d]
  <2>1. c \notin Taking
    BY <1>0 DEF TakeHeadTicket, Taking
  <2>2. /\ \A d \in Cpu : arg'[d] = IF d = c THEN t ELSE arg[d]
        /\ \A d \in Cpu : ticket'[d] = IF d = c THEN head ELSE ticket[d]
    BY <1>0 DEF TypeOK, TakeHeadTicket
  <2> QED  BY <1>0, <2>1, <2>2, TakeHeadEffect
<1>2. /\ head' = Inc(head) /\ tail' = tail /\ tickets' = tickets + 1 /\ tickets < MaxTickets
      /\ given' = Append(given, t) /\ claimed' = claimed /\ serial' = serial
      /\ lapped' = (lapped \/ \E n \in Pending : n + S <= L + 1)
  BY <1>0 DEF TakeHeadTicket, OTakeHeadTicket
<1>n. /\ L \in Nat /\ S \in Nat \ {0} /\ claimed \in 0 .. L /\ L = tickets
      /\ SlotOf(head) \in 0 .. S - 1 /\ head \in Counter /\ tail \in Counter
      /\ Modulus \in Nat /\ MaxTickets \in Nat /\ 2 * MaxTickets < Modulus
  BY <1>0, SlotRange, RunQueueAssumption DEF HistoryOK, TypeOK, Counter, Slot
<1>3. /\ given' \in Seq(Thread) /\ Len(given') = L + 1 /\ given'[L + 1] = t
      /\ \A n \in 1 .. L : given'[n] = given[n]
  BY <1>0, <1>2 DEF HistoryOK
<1>4. HistoryOK'
  <2>1. Dist(head, tail) = L - claimed
    BY <1>0 DEF HistoryOK
  <2>2. Dist(head', tail') = Dist(head, tail) + 1
    BY <1>2, <1>n, <2>1, Distances
  <2> QED  BY <1>0, <1>1, <1>2, <1>3, <1>n, <2>1, <2>2 DEF HistoryOK
<1>5. Pending' = Pending \cup {L + 1} /\ Pending \subseteq 1 .. L
  <2>1. Pending = {n \in 1 .. L : n > claimed \/ \E d \in Taking : serial[d] = n}
    BY PendingIs
  <2>2. Pending' = {n \in 1 .. L + 1 : n > claimed \/ \E d \in Taking : serial[d] = n}
    BY <1>1, <1>2, <1>3 DEF Pending, Taking
  <2> QED  BY <1>n, <2>1, <2>2
<1>6. P(L + 1) = SlotOf(head)
  <2>1. SlotOf(head') = IF SlotOf(head) + 1 = S THEN 0 ELSE SlotOf(head) + 1
    BY <1>2, <1>n, NextSlot
  <2> QED  BY <1>n, <2>1, PosAtNext DEF Slot
<1>7. ASSUME NEW n \in 1 .. L, L + 1 - n < S PROVE P(n) = Pos(n)
  <2>1. SlotOf(head') = IF SlotOf(head) + 1 = S THEN 0 ELSE SlotOf(head) + 1
    BY <1>2, <1>n, NextSlot
  <2>2. PosAt(IF SlotOf(head) + 1 = S THEN 0 ELSE SlotOf(head) + 1, L + 1, n)
          = PosAt(SlotOf(head), L, n)
    <3>1. SlotOf(head) \in Slot /\ L \in Nat
      BY <1>n DEF Slot
    <3> QED  BY <1>7, <3>1, PosAtKept
  <2> QED  BY <2>1, <2>2 DEF Pos
<1>8. ASSUME ~lapped' PROVE InSlots'
  <2>0. InSlots /\ \A n \in Pending : L + 1 - n < S /\ n \in 1 .. L
    <3>1. ~lapped /\ ~\E n \in Pending : n + S <= L + 1
      BY <1>2, <1>8
    <3>2. \A n \in Pending : L + 1 - n < S /\ n \in 1 .. L
      BY <1>5, <1>n, <3>1
    <3> QED  BY <1>0, <3>1, <3>2
  <2>1. \A n \in Pending : P(n) = Pos(n) /\ given'[n] = given[n] /\ n \in Pending'
    BY <1>3, <1>5, <1>7, <2>0
  <2>2. \A n \in Pending' : Len(given') - n < SlotCount
    BY <1>3, <1>5, <1>n, <2>0
  <2>3. \A d \in Putting' : \E n \in Pending' : given'[n] = arg'[d] /\ P(n) = SlotOf(ticket'[d])
    <3>1. ASSUME NEW d \in Putting
          PROVE  \E n \in Pending' : given'[n] = arg'[d] /\ P(n) = SlotOf(ticket'[d])
      BY <1>1, <2>0, <2>1 DEF InSlots, Putting
    <3>2. given'[L + 1] = arg'[c] /\ P(L + 1) = SlotOf(ticket'[c]) /\ L + 1 \in Pending'
      BY <1>1, <1>3, <1>5, <1>6
    <3> QED  BY <1>1, <3>1, <3>2
  <2>4. \A i \in Slot : slots'[i] # NoThread => \E n \in Pending' : given'[n] = slots'[i] /\ P(n) = i
    BY <1>1, <2>0, <2>1 DEF InSlots
  <2>5. \A d \in Taking' : P(serial'[d]) = SlotOf(ticket'[d])
    <3>1. \A d \in Taking : serial[d] \in Pending /\ d \in Cpu /\ d # c
      BY <1>0, <1>1, <1>n, PendingIs DEF HistoryOK, Taking
    <3> QED  BY <1>1, <1>2, <2>0, <2>1, <3>1 DEF InSlots
  <2>6. P(claimed + 1) = SlotOf(tail')
    <3>1. CASE claimed = L
      <4>1. Dist(head, tail) = 0
        BY <1>0, <1>n, <3>1 DEF HistoryOK
      <4>2. head = tail
        <5>1. Dist(head, tail) = IF head >= tail THEN head - tail ELSE head - tail + Modulus
          BY <1>n, Distances
        <5> QED  BY <1>n, <4>1, <5>1 DEF Counter
      <4> QED  BY <1>2, <1>6, <3>1, <4>2
    <3>2. CASE claimed < L
      <4>1. claimed + 1 \in Pending
        BY <1>n, <3>2, PendingIs
      <4> QED  BY <1>2, <2>0, <2>1, <4>1 DEF InSlots
    <3> QED  BY <1>n, <3>1, <3>2
  <2> QED  BY <1>2, <1>3, <2>2, <2>3, <2>4, <2>5, <2>6 DEF InSlots, Pos
<1> QED  BY <1>4, <1>8 DEF OrderInv

LEMMA OrderPutSlot ==
    ASSUME QueueInv, OrderInv, NEW c \in Cpu, PutSlot(c), UNCHANGED <<given, claimed, serial, lapped>>
    PROVE  OrderInv'
<1>0. TypeOK /\ HistoryOK /\ (~lapped => InSlots)
  BY DEF QueueInv, OrderInv
<1>1. /\ Putting' = Putting \ {c} /\ c \in Putting /\ Taking' = Taking
      /\ UNCHANGED <<head, tail, ticket, tickets>>
      /\ \A i \in Slot : slots'[i] = IF i = SlotOf(ticket[c]) THEN arg[c] ELSE slots[i]
  BY <1>0, PutSlotEffect DEF PutSlot, TypeOK
<1>2. \A d \in Putting' : arg'[d] = arg[d] /\ d \in Putting
  BY <1>0, <1>1 DEF PutSlot, TypeOK, Putting
<1>3. Pending' = Pending
  BY <1>1 DEF Pending, Taking
<1>4. HistoryOK'
  BY <1>0, <1>1 DEF HistoryOK, Dist
<1>5. \A n : Pos(n)' = Pos(n)
  BY <1>1 DEF Pos
<1>6. ASSUME InSlots PROVE InSlots'
  <2>1. \A i \in Slot : slots'[i] # NoThread => \E n \in Pending : given[n] = slots'[i] /\ Pos(n) = i
    BY <1>1, <1>6 DEF InSlots
  <2> QED  BY <1>1, <1>2, <1>3, <1>5, <1>6, <2>1 DEF InSlots
<1> QED  BY <1>0, <1>4, <1>6 DEF OrderInv

LEMMA OrderClaim ==
    ASSUME QueueInv, OrderInv, NEW c \in Cpu, OClaimTail(c), tail = ticket[c]
    PROVE  OrderInv'
<1> DEFINE L == Len(given)
<1>0. TypeOK /\ CountersMatch /\ HistoryOK /\ (~lapped => InSlots) /\ ClaimTail(c)
  BY DEF QueueInv, OrderInv, OClaimTail
<1>1. /\ pc' = [pc EXCEPT ![c] = "take"] /\ pc[c] = "claim" /\ pc'[c] = "take"
      /\ tail' = Inc(tail) /\ UNCHANGED <<slots, head, ticket, arg, tickets, given, lapped>>
      /\ claimed' = claimed + 1 /\ serial' = [serial EXCEPT ![c] = claimed + 1]
  BY <1>0 DEF OClaimTail, ClaimTail, TypeOK
<1>2. Taking' = Taking \cup {c} /\ c \notin Taking /\ Putting' = Putting
  BY <1>0, <1>1 DEF Taking, Putting, TypeOK
<1>3. \A d \in Cpu : serial'[d] = IF d = c THEN claimed + 1 ELSE serial[d]
  BY <1>0, <1>1 DEF HistoryOK
<1>n. /\ L \in Nat /\ claimed \in 0 .. L /\ SlotOf(head) \in Slot
      /\ head \in Counter /\ tail \in Counter /\ Dist(head, tail) = L - claimed
      /\ Taking \subseteq Cpu
  BY <1>0, SlotRange DEF HistoryOK, TypeOK, Counter, Taking
<1>4. claimed < L
  BY <1>0, <1>1, <1>n DEF CountersMatch
<1>5. Dist(head', tail') = Dist(head, tail) - 1
  <2>1. Dist(head, tail) # 0
    BY <1>4, <1>n
  <2>2. Dist(head, Inc(tail)) = Dist(head, tail) - 1
    BY <1>n, <2>1, Distances
  <2> QED  BY <1>1, <2>2
<1>6. HistoryOK'
  <2>1. \A d \in Taking' : serial'[d] \in 1 .. claimed'
    BY <1>0, <1>1, <1>2, <1>3, <1>n DEF HistoryOK
  <2>2. \A d, e \in Taking' : serial'[d] = serial'[e] => d = e
    BY <1>0, <1>2, <1>3, <1>n DEF HistoryOK
  <2>3. serial' \in [Cpu -> Nat]
    BY <1>0, <1>1, <1>n DEF HistoryOK
  <2> QED  BY <1>0, <1>1, <1>4, <1>5, <1>n, <2>1, <2>2, <2>3 DEF HistoryOK
<1>7. Pending' = Pending
  <2>1. Pending = {n \in 1 .. L : n > claimed \/ \E d \in Taking : serial[d] = n}
    BY PendingIs
  <2>2. Pending' = {n \in 1 .. L : n > claimed + 1 \/ \E d \in Taking' : serial'[d] = n}
    BY <1>1 DEF Pending, Taking
  <2>3. \A n \in 1 .. L : (\E d \in Taking' : serial'[d] = n)
                            <=> n = claimed + 1 \/ \E d \in Taking : serial[d] = n
    BY <1>2, <1>3, <1>n
  <2> QED  BY <1>4, <1>n, <2>1, <2>2, <2>3
<1>8. \A n : Pos(n)' = Pos(n)
  BY <1>1 DEF Pos
<1>9. ASSUME InSlots PROVE InSlots'
  <2>1. claimed + 1 \in Pending /\ L - (claimed + 1) < SlotCount
    BY <1>4, <1>9, <1>n, PendingIs DEF InSlots
  <2>2. \A d \in Taking' : Pos(serial'[d]) = SlotOf(ticket[d])
    BY <1>2, <1>3, <1>9, <1>n DEF InSlots
  <2>3. Pos(claimed + 2) = SlotOf(tail')
    <3>1. SlotOf(tail') = IF SlotOf(tail) + 1 = SlotCount THEN 0 ELSE SlotOf(tail) + 1
      BY <1>1, <1>n, NextSlot
    <3>2. claimed + 1 \in 1 .. L /\ claimed + 1 + 1 = claimed + 2
      BY <1>4, <1>n
    <3>3. PosAt(SlotOf(head), L, claimed + 1 + 1)
            = IF PosAt(SlotOf(head), L, claimed + 1) + 1 = SlotCount THEN 0
              ELSE PosAt(SlotOf(head), L, claimed + 1) + 1
      BY <1>n, <2>1, <3>2, PosAtNext
    <3> QED  BY <1>9, <3>1, <3>2, <3>3 DEF InSlots, Pos
  <2>4. \A d \in Taking' : Pos(serial[d])' = SlotOf(ticket[d])'
    BY <1>1, <2>2 DEF Pos
  <2>5. Pos(claimed + 1)' = SlotOf(tail)'
    <3>1. claimed' + 1 = claimed + 2
      BY <1>1, <1>n
    <3> QED  BY <1>1, <2>3, <3>1 DEF Pos
  <2> QED  BY <1>1, <1>2, <1>7, <1>8, <1>9, <2>4, <2>5 DEF InSlots
<1> QED  BY <1>0, <1>1, <1>6, <1>9 DEF OrderInv

(* What a dequeue finds in its slot is what its ticket stands for. *)
LEMMA TicketInSlot ==
    ASSUME QueueInv, OrderInv, ~lapped, NEW c \in Cpu, TakeSlot(c)
    PROVE  given[serial[c]] = slots[SlotOf(ticket[c])]
<1>0. HistoryOK /\ InSlots /\ SlotOf(ticket[c]) \in Slot /\ slots[SlotOf(ticket[c])] # NoThread
      /\ c \in Taking
  BY TakeSlotEffect DEF OrderInv, TakeSlot
<1>1. PICK n \in Pending : given[n] = slots[SlotOf(ticket[c])] /\ Pos(n) = SlotOf(ticket[c])
  BY <1>0 DEF InSlots
<1>2. serial[c] \in Pending /\ Pos(serial[c]) = SlotOf(ticket[c])
  BY <1>0, PendingIs DEF HistoryOK, InSlots
<1>3. \A m \in Pending : m \in Int /\ m <= Len(given) /\ Len(given) - m < SlotCount
  BY <1>0, PendingIs DEF HistoryOK, InSlots
<1>4. n = serial[c]
  BY <1>0, <1>1, <1>2, <1>3, PosOwn
<1> QED  BY <1>1, <1>4

LEMMA OrderTakeSlot ==
    ASSUME QueueInv, OrderInv, NEW c \in Cpu, TakeSlot(c), UNCHANGED <<given, claimed, serial, lapped>>
    PROVE  OrderInv'
<1> DEFINE s == SlotOf(ticket[c])
           x == slots[s]
<1>0. TypeOK /\ OnePlace /\ HistoryOK /\ (~lapped => InSlots)
  BY DEF QueueInv, OrderInv
<1>1. /\ Putting' = Putting /\ c \in Taking /\ Taking' = Taking \ {c} /\ s \in Slot /\ x \in Thread
      /\ UNCHANGED <<head, tail, ticket, tickets, arg>>
      /\ \A i \in Slot : slots'[i] = IF i = s THEN NoThread ELSE slots[i]
  BY <1>0, TakeSlotEffect DEF TakeSlot, TypeOK
<1>2. HistoryOK'
  BY <1>0, <1>1 DEF HistoryOK, Dist
<1>3. Pending' = Pending \ {serial[c]}
  <2>1. Pending = {n \in 1 .. Len(given) : n > claimed \/ \E d \in Taking : serial[d] = n}
    BY PendingIs
  <2>2. Pending' = {n \in 1 .. Len(given) : n > claimed \/ \E d \in Taking' : serial[d] = n}
    BY DEF Pending, Taking
  <2>3. serial[c] \in 1 .. claimed /\ claimed \in Nat /\ \A d \in Taking : serial[d] = serial[c] => d = c
    BY <1>0, <1>1 DEF HistoryOK
  <2> QED  BY <1>1, <2>1, <2>2, <2>3
<1>4. \A n : Pos(n)' = Pos(n)
  BY <1>1 DEF Pos
<1>5. ASSUME ~lapped PROVE InSlots'
  <2>0. InSlots /\ given[serial[c]] = x
    BY <1>0, <1>5, TicketInSlot
  <2> HIDE DEF s, x
  <2>1. \A d \in Putting : arg[d] # x
    BY <1>0, <1>1 DEF OnePlace, x
  <2>2. \A i \in Slot : i # s /\ slots[i] # NoThread => slots[i] # x
    BY <1>0, <1>1 DEF OnePlace, x
  <2>3. \A d \in Putting : \E n \in Pending' : given[n] = arg[d] /\ Pos(n) = SlotOf(ticket[d])
    BY <1>3, <2>0, <2>1 DEF InSlots
  <2>4. \A i \in Slot : slots'[i] # NoThread =>
           \E n \in Pending' : given[n] = slots'[i] /\ Pos(n) = i
    BY <1>1, <1>3, <2>0, <2>2 DEF InSlots
  <2> QED  BY <1>1, <1>3, <1>4, <2>0, <2>3, <2>4 DEF InSlots
<1> QED  BY <1>2, <1>5 DEF OrderInv

LEMMA OrderStep ==
    ASSUME QueueInv, OrderInv, [ONext]_ovars
    PROVE  OrderInv'
<1>1. CASE UNCHANGED ovars
  BY <1>1, OrderKept DEF ovars, vars, Putting, Taking
<1>2. ASSUME NEW c \in Cpu, NEW t \in Thread, OTakeHeadTicket(c, t)
      PROVE  OrderInv'
  BY <1>2, OrderTakeHead
<1>3. ASSUME NEW c \in Cpu, OClaimTail(c)
      PROVE  OrderInv'
  <2>1. CASE tail = ticket[c]
    BY <1>3, <2>1, OrderClaim
  <2>2. CASE tail # ticket[c]
    <3>1. TypeOK
      BY DEF QueueInv
    <3>2. /\ Putting' = Putting /\ Taking' = Taking
          /\ UNCHANGED <<slots, head, tail, arg, tickets, given, claimed, serial, lapped>>
          /\ \A d \in Putting \cup Taking : ticket'[d] = ticket[d]
      BY <1>3, <2>2, <3>1 DEF OClaimTail, ClaimTail, TypeOK, Putting, Taking
    <3> QED  BY <3>2, OrderKept
  <2> QED  BY <2>1, <2>2
<1>4. ASSUME NEW c \in Cpu, OOther(c)
      PROVE  OrderInv'
  <2>1. CASE PutSlot(c)
    BY <1>4, <2>1, OrderPutSlot DEF OOther
  <2>2. CASE TakeSlot(c)
    BY <1>4, <2>2, OrderTakeSlot DEF OOther
  <2>3. CASE LoadTail(c) \/ CheckHead(c) \/ ReturnNull(c)
    <3>1. TypeOK
      BY DEF QueueInv
    <3>2. /\ Putting' = Putting /\ Taking' = Taking
          /\ UNCHANGED <<slots, head, tail, arg, tickets, given, claimed, serial, lapped>>
          /\ \A d \in Putting \cup Taking : ticket'[d] = ticket[d]
      BY <1>4, <2>3, <3>1
         DEF OOther, LoadTail, CheckHead, ReturnNull, TypeOK, Putting, Taking
    <3> QED  BY <3>2, OrderKept
  <2> QED  BY <1>4, <2>1, <2>2, <2>3 DEF OOther
<1> QED  BY <1>1, <1>2, <1>3, <1>4 DEF ONext

LEMMA HistoryOnly == [ONext]_ovars => [Next]_vars
BY DEF ONext, OTakeHeadTicket, OClaimTail, OOther, Next, ovars

(* The tickets handed out, claimed and waited for are as OrderInv says. *)
THEOREM OrderInvariant == OSpec => [](QueueInv /\ OrderInv)
<1>1. OInit => QueueInv /\ OrderInv
  BY QueueInvInit, OrderInvInit DEF OInit
<1>2. QueueInv /\ OrderInv /\ [ONext]_ovars => (QueueInv /\ OrderInv)'
  BY HistoryOnly, TypeNext, OnePlaceNext, CountersNext, OrderStep DEF QueueInv
<1> QED  BY <1>1, <1>2, PTL DEF OSpec

(* PriorityQueue is first in, first out for every number of CPUs, threads  *)
(* and slots, as long as the ring does not go round under a pending        *)
(* dequeue.                                                                *)
THEOREM TicketsInOrder == OSpec => FirstInFirstOut
<1>1. ASSUME QueueInv, OrderInv, NEW c \in Cpu, TakeSlot(c), ~lapped
      PROVE  given[serial[c]] \in held'[c] \ held[c]
  <2> DEFINE x == slots[SlotOf(ticket[c])]
  <2>1. given[serial[c]] = x
    BY <1>1, TicketInSlot
  <2>2. TypeOK /\ OnePlace /\ SlotOf(ticket[c]) \in Slot /\ x # NoThread
    BY <1>1, TakeSlotEffect DEF QueueInv, TakeSlot
  <2>3. x \in held'[c]
    BY <1>1, <2>2 DEF TakeSlot, TypeOK
  <2>4. x \notin held[c]
    BY <2>2 DEF OnePlace, Queued
  <2> QED  BY <2>1, <2>3, <2>4
<1>2. QueueInv /\ OrderInv /\ [ONext]_ovars
        => [\A c \in Cpu : TakeSlot(c) /\ ~lapped => given[serial[c]] \in held'[c] \ held[c]]_ovars
  BY <1>1
<1> QED  BY <1>2, OrderInvariant, PTL DEF OSpec, FirstInFirstOut
=============================================================================
