------------------------------ MODULE TrbRing -------------------------------
(***************************************************************************)
(* servers/usb/trb_ring.cc: a ring of transfer request blocks (TRBs) that  *)
(* the driver shares with an xHCI host controller.  The cycle bit of a TRB *)
(* says which of them it belongs to; a ring that the driver produces into  *)
(* ends with a link TRB that flips the meaning of the bit.                 *)
(***************************************************************************)
EXTENDS Integers, Sequences, FiniteSets

CONSTANT RingLength  \* k_ring_length

(* A TRB: type, cycle bit, the chain flag, bit 31 of status, the payload *)
Trb(type, chain, tag) == [type |-> type, cycle |-> FALSE, chain |-> chain, done |-> FALSE, tag |-> tag]

(* create and the constructor *)
NewRing(insertLink) ==
    [trb |-> [i \in 0 .. RingLength - 1 |->
                 Trb(IF insertLink /\ i = RingLength - 1 THEN "link" ELSE "none", FALSE, 0)],
     index |-> 0, cycle |-> TRUE, ok |-> TRUE]

(* enqueue; the TRB before the link may not be chained. *)
Enqueue(r, t) ==
    LET next == r.index + 1
        atLink == r.trb[next].type = "link"
        put == [r.trb EXCEPT ![r.index] = [t EXCEPT !.cycle = r.cycle]]
    IN  [trb |-> IF atLink THEN [put EXCEPT ![next].cycle = r.cycle] ELSE put,
         cycle |-> r.cycle # atLink,
         index |-> IF atLink THEN 0 ELSE next,
         ok |-> r.ok /\ ~(atLink /\ t.chain)]

(* Fault: the TRB before the wrap is passed over but not counted. *)
DequeueShort(r) ==
    LET d[n \in 0 .. RingLength] ==
            IF n = 0 THEN [index |-> r.index, cycle |-> r.cycle, length |-> 0, go |-> TRUE]
            ELSE LET b == d[n - 1]
                     wraps == b.index + 1 >= RingLength
                 IN  IF ~b.go \/ r.trb[b.index].cycle # b.cycle THEN [b EXCEPT !.go = FALSE]
                     ELSE [index |-> IF wraps THEN 0 ELSE b.index + 1, cycle |-> b.cycle # wraps,
                           length |-> b.length + (IF wraps THEN 0 ELSE 1), go |-> TRUE]
        end == d[RingLength]
    IN  [ring |-> [r EXCEPT !.index = end.index, !.cycle = end.cycle], length |-> end.length]

(* dequeue: how many TRBs from index on belong to the driver, and the ring after them *)
Dequeue(r) ==
    LET d[n \in 0 .. RingLength] ==
            IF n = 0 THEN [index |-> r.index, cycle |-> r.cycle, length |-> 0]
            ELSE LET b == d[n - 1]
                     wraps == b.index + 1 >= RingLength
                 IN  IF b.length < n - 1 \/ r.trb[b.index].cycle # b.cycle THEN b
                     ELSE [index |-> IF wraps THEN 0 ELSE b.index + 1,
                           cycle |-> b.cycle # wraps, length |-> n]
        end == d[RingLength]
    IN  [ring |-> [r EXCEPT !.index = end.index, !.cycle = end.cycle], length |-> end.length]

(* The controller's own position in a ring that it consumes: it takes a    *)
(* TRB with its cycle bit and follows a link TRB with its cycle bit.       *)
CanTake(r, hw) == r.trb[hw.index].cycle = hw.cycle /\ r.trb[hw.index].type # "link"

CanLink(r, hw) == r.trb[hw.index].cycle = hw.cycle /\ r.trb[hw.index].type = "link"

Linked(hw) == [index |-> 0, cycle |-> ~hw.cycle]

Taken(hw) == [hw EXCEPT !.index = @ + 1]

(* The controller's event ring has no link: it flips the bit at the end. *)
Posted(hw) == [index |-> (hw.index + 1) % RingLength,
               cycle |-> hw.cycle # (hw.index + 1 = RingLength)]

HwStart == [index |-> 0, cycle |-> TRUE]
=============================================================================
