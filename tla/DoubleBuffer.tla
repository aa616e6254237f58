---------------------------- MODULE DoubleBuffer ----------------------------
(***************************************************************************)
(* kernel/ipc/double_buffer.cc: two halves of one allocation.  Writers     *)
(* append to one while readers consume the other; a reader that has        *)
(* consumed its half swaps the two.  Both operations hold m_lock, and the  *)
(* steps between lock and unlock are separate actions here, so that the    *)
(* other CPUs may run between them.                                        *)
(***************************************************************************)
EXTENDS Integers, Sequences

CONSTANTS Cpu,
          Byte,
          Zero,      \* what the allocation holds at first
          Size,      \* m_size
          MaxRead,   \* bound on the size of a read
          MaxWrite,  \* bound on the size of a write
          MaxSent,   \* bound on the bytes accepted in one behaviour
          Nobody     \* the value of a lock that is free

ASSUME DoubleBufferAssumption ==
    /\ Zero \in Byte
    /\ Size \in Nat \ {0}
    /\ MaxRead \in Nat /\ MaxWrite \in Nat /\ MaxSent \in Nat
    /\ Nobody \notin Cpu

VARIABLES lock,   \* m_lock: the CPU that holds it
          pc,     \* where each CPU is
          want,   \* want[c]: data.size() of a read
          data,   \* data[c]: the data of a write
          got,    \* got[c]: what a read that CPU c made last copied out
          mem,    \* m_data
          rbase,  \* m_read_buffer->data, as an offset in m_data
          rsize,  \* m_read_buffer->size
          wbase,  \* m_write_buffer->data
          wsize,  \* m_write_buffer->size
          pos,    \* m_read_position
          sent,   \* history: the bytes accepted so far
          taken   \* history: how many of them have been read

vars == <<lock, pc, want, data, got, mem, rbase, rsize, wbase, wsize, pos, sent, taken>>

Address == 0 .. 2 * Size - 1
Min2(a, b) == IF a <= b THEN a ELSE b
WriteSize(c) == Min2(Len(data[c]), Size - wsize)
ReadSize(c) == Min2(want[c], rsize - pos)

TypeOK ==
    /\ lock \in Cpu \cup {Nobody}
    /\ pc \in [Cpu -> {"out", "swap", "copy", "store", "grow"}]
    /\ want \in [Cpu -> Nat]
    /\ data \in [Cpu -> Seq(Byte)]
    /\ got \in [Cpu -> Seq(Byte)]
    /\ mem \in [Address -> Byte]
    /\ rbase \in Nat /\ wbase \in Nat
    /\ rsize \in 0 .. Size /\ wsize \in 0 .. Size
    /\ pos \in 0 .. rsize
    /\ sent \in Seq(Byte)
    /\ taken \in Nat

Init ==
    /\ lock = Nobody
    /\ pc = [c \in Cpu |-> "out"]
    /\ want = [c \in Cpu |-> 0]
    /\ data = [c \in Cpu |-> <<>>]
    /\ got = [c \in Cpu |-> <<>>]
    /\ mem = [a \in Address |-> Zero]
    /\ rbase = Size /\ rsize = 0
    /\ wbase = 0 /\ wsize = 0
    /\ pos = 0
    /\ sent = <<>> /\ taken = 0

Goto(c, l) == pc' = [pc EXCEPT ![c] = l]

(* Fault: read does not take the lock. *)
ReadLockNoWait(c, n) ==
    /\ pc[c] = "out"
    /\ lock' = c
    /\ want' = [want EXCEPT ![c] = n]
    /\ got' = [got EXCEPT ![c] = <<>>]
    /\ Goto(c, "swap")
    /\ UNCHANGED <<data, mem, rbase, rsize, wbase, wsize, pos, sent, taken>>

(* read: the ScopedLock is taken *)
ReadLock(c, n) ==
    /\ pc[c] = "out" /\ lock = Nobody
    /\ lock' = c
    /\ want' = [want EXCEPT ![c] = n]
    /\ got' = [got EXCEPT ![c] = <<>>]
    /\ Goto(c, "swap")
    /\ UNCHANGED <<data, mem, rbase, rsize, wbase, wsize, pos, sent, taken>>

(* Fault: m_write_buffer is left pointing at the half now being read. *)
ReadSwapOnlyRead(c) ==
    /\ pc[c] = "swap"
    /\ IF pos >= rsize /\ wsize # 0
       THEN /\ rbase' = wbase /\ wbase' = wbase
            /\ rsize' = wsize /\ wsize' = 0
            /\ pos' = 0
       ELSE UNCHANGED <<rbase, rsize, wbase, wsize, pos>>
    /\ Goto(c, "copy")
    /\ UNCHANGED <<lock, want, data, got, mem, sent, taken>>

(* read: swap the buffers when the read buffer is consumed and the other   *)
(* one is not empty                                                        *)
ReadSwap(c) ==
    /\ pc[c] = "swap"
    /\ IF pos >= rsize /\ wsize # 0
       THEN /\ rbase' = wbase /\ wbase' = rbase
            /\ rsize' = wsize /\ wsize' = 0
            /\ pos' = 0
       ELSE UNCHANGED <<rbase, rsize, wbase, wsize, pos>>
    /\ Goto(c, "copy")
    /\ UNCHANGED <<lock, want, data, got, mem, sent, taken>>

(* read: copy out, advance, unlock *)
ReadCopy(c) ==
    /\ pc[c] = "copy"
    /\ IF pos >= rsize
       THEN /\ got' = [got EXCEPT ![c] = <<>>]
            /\ UNCHANGED <<pos, taken>>
       ELSE /\ got' = [got EXCEPT ![c] = [i \in 1 .. ReadSize(c) |-> mem[rbase + pos + i - 1]]]
            /\ pos' = pos + ReadSize(c)
            /\ taken' = taken + ReadSize(c)
    /\ lock' = Nobody
    /\ Goto(c, "out")
    /\ want' = [want EXCEPT ![c] = 0]
    /\ UNCHANGED <<data, mem, rbase, rsize, wbase, wsize, sent>>

(* write: the ScopedLock is taken *)
WriteLock(c, d) ==
    /\ pc[c] = "out" /\ lock = Nobody
    /\ Len(sent) + Len(d) <= MaxSent
    /\ lock' = c
    /\ data' = [data EXCEPT ![c] = d]
    /\ got' = [got EXCEPT ![c] = <<>>]
    /\ Goto(c, "store")
    /\ UNCHANGED <<want, mem, rbase, rsize, wbase, wsize, pos, sent, taken>>

(* write: copy in *)
WriteStore(c) ==
    /\ pc[c] = "store"
    /\ mem' = [a \in Address |-> IF a \in wbase + wsize .. wbase + wsize + WriteSize(c) - 1
                                 THEN data[c][a - (wbase + wsize) + 1]
                                 ELSE mem[a]]
    /\ Goto(c, "grow")
    /\ UNCHANGED <<lock, want, data, got, rbase, rsize, wbase, wsize, pos, sent, taken>>

(* write: the size grows by write_size, unlock *)
WriteGrow(c) ==
    /\ pc[c] = "grow"
    /\ wsize' = wsize + WriteSize(c)
    /\ sent' = sent \o [i \in 1 .. WriteSize(c) |-> data[c][i]]
    /\ lock' = Nobody
    /\ Goto(c, "out")
    /\ data' = [data EXCEPT ![c] = <<>>]
    /\ UNCHANGED <<want, got, mem, rbase, rsize, wbase, pos, taken>>

Writes == UNION {[1 .. n -> Byte] : n \in 0 .. MaxWrite}

Next == \E c \in Cpu : \/ \E n \in 0 .. MaxRead : ReadLock(c, n)
                       \/ \E d \in Writes : WriteLock(c, d)
                       \/ ReadSwap(c) \/ ReadCopy(c) \/ WriteStore(c) \/ WriteGrow(c)

Spec == Init /\ [][Next]_vars
-----------------------------------------------------------------------------
(* The write size used by the copy is still the write size when the size   *)
(* grows, and stays inside the half: no write reaches the unread half or   *)
(* leaves the allocation, however reads and writes of other CPUs fall.     *)
CopiesStayInHalf ==
    /\ {rbase, wbase} = {0, Size}
    /\ \A c \in Cpu : pc[c] = "grow" => wsize + WriteSize(c) <= Size
    /\ pos <= rsize /\ rsize <= Size

(* empty() and full() as the callers see them *)
Empty == pos >= rsize /\ wsize = 0
Full == Size - wsize = 0

(* empty() answers exactly whether bytes are waiting, and full() only when *)
(* at least m_size of them are.                                            *)
EmptyAndFullTellTheTruth ==
    lock = Nobody => /\ Empty <=> Len(sent) = taken
                     /\ Full => Len(sent) - taken >= Size

(* The inductive invariant behind the theorems of DoubleBufferProofs: the  *)
(* lock is held exactly by a CPU inside an operation, the unread bytes of  *)
(* the read half and then the bytes of the write half are the bytes of the *)
(* stream still to be read.                                                *)
LockHeld == \A c \in Cpu : pc[c] # "out" <=> lock = c

Contents ==
    /\ Len(sent) = taken + (rsize - pos) + wsize
    /\ \A i \in 0 .. rsize - pos - 1 : mem[rbase + pos + i] = sent[taken + 1 + i]
    /\ \A i \in 0 .. wsize - 1 : mem[wbase + i] = sent[taken + (rsize - pos) + 1 + i]

MidCall == \A c \in Cpu :
    /\ pc[c] = "copy" /\ pos = rsize => wsize = 0
    /\ pc[c] = "grow" => \A i \in 1 .. WriteSize(c) : mem[wbase + wsize + i - 1] = data[c][i]

DInv == TypeOK /\ LockHeld /\ {rbase, wbase} = {0, Size} /\ Contents /\ MidCall

(* Readers and writers on any number of CPUs see one byte stream: nothing  *)
(* is lost, duplicated or reordered.                                       *)
Stream == INSTANCE ByteStream

ImplementsByteStream == Stream!BSpec
=============================================================================
