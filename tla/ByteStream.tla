----------------------------- MODULE ByteStream -----------------------------
(***************************************************************************)
(* What the buffer between two ends of a pipe or a connection promises:    *)
(* the bytes that are accepted are delivered once each, in order.  A write *)
(* may accept only a part of its data, and nothing only when at least Size *)
(* bytes are waiting; a read may deliver less than was asked for, and      *)
(* nothing only when no byte is waiting.                                   *)
(***************************************************************************)
EXTENDS Integers, Sequences

CONSTANTS Cpu,   \* the CPUs that call read and write
          Byte,
          Size

VARIABLES sent,   \* all the bytes ever accepted
          taken,  \* how many of them have been delivered
          want,   \* want[c]: the size of the read in progress on CPU c
          data,   \* data[c]: the bytes of the write in progress on CPU c
          got     \* got[c]: the bytes delivered to a read that CPU c made last

bvars == <<sent, taken, want, data, got>>

Waiting == Len(sent) - taken

BInit ==
    /\ sent = <<>> /\ taken = 0
    /\ want = [c \in Cpu |-> 0]
    /\ data = [c \in Cpu |-> <<>>]
    /\ got = [c \in Cpu |-> <<>>]

AskRead(c) ==
    /\ want'[c] \in Nat /\ want' = [want EXCEPT ![c] = want'[c]]
    /\ got' = [got EXCEPT ![c] = <<>>]
    /\ UNCHANGED <<sent, taken, data>>

AskWrite(c) ==
    /\ data'[c] \in Seq(Byte) /\ data' = [data EXCEPT ![c] = data'[c]]
    /\ got' = [got EXCEPT ![c] = <<>>]
    /\ UNCHANGED <<sent, taken, want>>

Deliver(c) ==
    /\ \E k \in 0 .. Waiting :
          /\ k <= want[c]
          /\ k = 0 => want[c] = 0 \/ Waiting = 0
          /\ got' = [got EXCEPT ![c] = [i \in 1 .. k |-> sent[taken + i]]]
          /\ taken' = taken + k
    /\ want' = [want EXCEPT ![c] = 0]
    /\ UNCHANGED <<sent, data>>

Accept(c) ==
    /\ \E k \in 0 .. Len(data[c]) :
          /\ k = 0 => data[c] = <<>> \/ Waiting >= Size
          /\ Waiting + k <= 2 * Size
          /\ sent' = sent \o [i \in 1 .. k |-> data[c][i]]
    /\ data' = [data EXCEPT ![c] = <<>>]
    /\ UNCHANGED <<taken, want, got>>

BNext == \E c \in Cpu : AskRead(c) \/ AskWrite(c) \/ Deliver(c) \/ Accept(c)

BSpec == BInit /\ [][BNext]_bvars
=============================================================================
