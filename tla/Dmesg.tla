------------------------------- MODULE Dmesg --------------------------------
(***************************************************************************)
(* The kernel's log: dmesg over a spin lock (kernel/dmesg.hh, dmesg.cc), a *)
(* ring buffer (ustd/ring_buffer.hh) and the device that programs read it  *)
(* from (kernel/dev/dmesg_device.cc).  A character is the CPU that printed *)
(* it, a line is LogLine of them.                                          *)
(***************************************************************************)
EXTENDS Integers, Sequences

CONSTANTS LogCpus,     \* the CPUs
          LogLine,  \* characters of a line
          LogCapacity, \* characters that the ring buffer holds
          MaxPrinted,  \* bound: lines that are logged
          ReadSizes    \* sizes with which the log's device is read

VARIABLES dmCpu,    \* dmCpu[c]: characters that c has still to print, or where it is
          dmLock,   \* s_lock of dmesg.cc
          dmRing,   \* the ring buffer
          dmText,   \* what a reader of the device has read from its start
          dmPrinted \* lines so far

dmVars == <<dmCpu, dmLock, dmRing, dmText, dmPrinted>>

DmesgInit ==
    /\ dmCpu = [c \in LogCpus |-> [at |-> "idle", left |-> 0]]
    /\ dmLock = "free"
    /\ dmRing = [data |-> [i \in 0 .. LogCapacity - 1 |-> "none"], head |-> 0, size |-> 0]
    /\ dmText = <<>> /\ dmPrinted = 0

(* RingBuffer::enqueue *)
Enqueued(ring, char) ==
    [data |-> [ring.data EXCEPT ![(ring.head + ring.size) % LogCapacity] = char],
     head |-> IF ring.size = LogCapacity THEN (ring.head + 1) % LogCapacity ELSE ring.head,
     size |-> IF ring.size = LogCapacity THEN ring.size ELSE ring.size + 1]

(* dmesg: the lock, one character after the other, the lock again *)
BeginMessage(c) ==
    /\ dmCpu[c].at = "idle" /\ dmPrinted < MaxPrinted
    /\ dmCpu' = [dmCpu EXCEPT ![c].at = "lock"]
    /\ dmPrinted' = dmPrinted + 1
    /\ UNCHANGED <<dmLock, dmRing, dmText>>

(* Fault: the lock is not waited for. *)
LockAnyway(c) ==
    /\ dmCpu[c].at = "lock"
    /\ dmLock' = c
    /\ dmCpu' = [dmCpu EXCEPT ![c] = [at |-> "print", left |-> LogLine]]
    /\ UNCHANGED <<dmRing, dmText, dmPrinted>>

LockLog(c) ==
    /\ dmCpu[c].at = "lock" /\ dmLock = "free"
    /\ dmLock' = c
    /\ dmCpu' = [dmCpu EXCEPT ![c] = [at |-> "print", left |-> LogLine]]
    /\ UNCHANGED <<dmRing, dmText, dmPrinted>>

PutLogChar(c) ==
    /\ dmCpu[c].at = "print" /\ dmCpu[c].left > 0
    /\ dmRing' = Enqueued(dmRing, c)
    /\ dmCpu' = [dmCpu EXCEPT ![c].left = @ - 1]
    /\ UNCHANGED <<dmLock, dmText, dmPrinted>>

UnlockLog(c) ==
    /\ dmCpu[c].at = "print" /\ dmCpu[c].left = 0
    /\ dmCpu' = [dmCpu EXCEPT ![c].at = "idle"]
    /\ dmLock' = "free"
    /\ UNCHANGED <<dmRing, dmText, dmPrinted>>

(* DmesgDevice::read at the offset the reader has come to, which indexes   *)
(* the storage and not the oldest character.                               *)
ReadLog(n) ==
    LET offset == Len(dmText)
        size == IF n < (dmRing.size - offset) THEN n ELSE dmRing.size - offset
    IN  /\ size > 0
        /\ dmText' = dmText \o [i \in 1 .. size |-> dmRing.data[offset + i - 1]]
        /\ UNCHANGED <<dmCpu, dmLock, dmRing, dmPrinted>>

DmesgNext ==
    \/ \E c \in LogCpus : BeginMessage(c) \/ LockLog(c) \/ PutLogChar(c) \/ UnlockLog(c)
    \/ \E n \in ReadSizes : ReadLog(n)

DmesgSpec == DmesgInit /\ [][DmesgNext]_dmVars
-----------------------------------------------------------------------------
(* Until the buffer is full, what is read from the device in pieces, while *)
(* other CPUs log, is the log from its start, and the lines of different   *)
(* CPUs are not mixed.  (Once it is full the device reads it rotated.)     *)
(* That head = 0 means this takes MaxPrinted * LogLine < 2 * LogCapacity:  *)
(* after a whole lap head is 0 again.                                      *)
LogReadsBack ==
    dmRing.head = 0 =>
        /\ \A i \in 1 .. Len(dmText) : dmText[i] = dmRing.data[i - 1]
        /\ \A i \in 0 .. dmRing.size - 1 :
               dmRing.data[i] = dmRing.data[LogLine * (i \div LogLine)]
=============================================================================
