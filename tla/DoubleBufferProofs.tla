------------------------- MODULE DoubleBufferProofs -------------------------
(***************************************************************************)
(* DoubleBuffer implements ByteStream, for every buffer size and any       *)
(* number of CPUs.                                                         *)
(***************************************************************************)
EXTENDS DoubleBuffer, SequenceTheorems, TLAPS

LEMMA PrefixIsSeq ==
    ASSUME NEW d \in Seq(Byte), NEW k \in 0 .. Len(d)
    PROVE  /\ [i \in 1 .. k |-> d[i]] \in Seq(Byte)
           /\ Len([i \in 1 .. k |-> d[i]]) = k
OBVIOUS

LEMMA Halves ==
    ASSUME TypeOK, {rbase, wbase} = {0, Size}
    PROVE  /\ (rbase = 0 /\ wbase = Size) \/ (rbase = Size /\ wbase = 0)
           /\ Size \in Nat \ {0}
           /\ \A i \in 0 .. Size - 1 : rbase + i \in Address /\ wbase + i \in Address
<1>1. (rbase = 0 /\ wbase = Size) \/ (rbase = Size /\ wbase = 0)
  BY DoubleBufferAssumption DEF TypeOK
<1> QED  BY <1>1, DoubleBufferAssumption DEF Address

LEMMA Sizes ==
    ASSUME TypeOK, NEW c \in Cpu
    PROVE  /\ WriteSize(c) \in 0 .. Len(data[c]) /\ WriteSize(c) <= Size - wsize
           /\ WriteSize(c) = 0 => Len(data[c]) = 0 \/ wsize = Size
           /\ ReadSize(c) \in 0 .. rsize - pos /\ ReadSize(c) <= want[c] /\ ReadSize(c) \in Nat
           /\ ReadSize(c) = 0 => want[c] = 0 \/ pos = rsize
<1>1. Len(data[c]) \in Nat /\ want[c] \in Nat /\ wsize \in 0 .. Size /\ rsize \in 0 .. Size
      /\ pos \in 0 .. rsize /\ Size \in Nat
  BY DoubleBufferAssumption DEF TypeOK
<1> QED  BY <1>1 DEF WriteSize, ReadSize, Min2

LEMMA DInvInit == Init => DInv
<1> SUFFICES ASSUME Init PROVE DInv
  OBVIOUS
<1> USE DoubleBufferAssumption DEF Init
<1>1. TypeOK
  BY DEF TypeOK, Address
<1>2. LockHeld
  BY DEF LockHeld
<1>3. {rbase, wbase} = {0, Size}
  OBVIOUS
<1>4. Contents
  BY DEF Contents
<1>5. MidCall
  BY DEF MidCall
<1> QED  BY <1>1, <1>2, <1>3, <1>4, <1>5 DEF DInv

LEMMA DInvNext == DInv /\ [Next]_vars => DInv'
<1> SUFFICES ASSUME DInv, [Next]_vars PROVE DInv'
  OBVIOUS
<1> USE DoubleBufferAssumption DEF Goto
<1>0. TypeOK /\ LockHeld /\ {rbase, wbase} = {0, Size} /\ Contents /\ MidCall
  BY DEF DInv
<1>n. /\ Size \in Nat \ {0} /\ wsize \in 0 .. Size /\ rsize \in 0 .. Size /\ pos \in 0 .. rsize
      /\ taken \in Nat /\ Len(sent) \in Nat
      /\ (rbase = 0 /\ wbase = Size) \/ (rbase = Size /\ wbase = 0)
  <2>1. /\ Size \in Nat \ {0} /\ wsize \in 0 .. Size /\ rsize \in 0 .. Size /\ pos \in 0 .. rsize
        /\ taken \in Nat /\ Len(sent) \in Nat
    BY <1>0 DEF TypeOK
  <2>2. (rbase = 0 /\ wbase = Size) \/ (rbase = Size /\ wbase = 0)
    BY <1>0, Halves
  <2> QED  BY <2>1, <2>2
<1>1. ASSUME NEW c \in Cpu, NEW n \in 0 .. MaxRead, ReadLock(c, n)
      PROVE  DInv'
  <2>1. TypeOK'
    BY <1>0, <1>1 DEF TypeOK, ReadLock
  <2>2. LockHeld'
    BY <1>0, <1>1 DEF LockHeld, TypeOK, ReadLock
  <2>3. Contents' /\ ({rbase, wbase} = {0, Size})'
    BY <1>0, <1>1 DEF Contents, ReadLock
  <2>4. MidCall'
    <3>1. \A d \in Cpu : pc'[d] \notin {"copy", "store", "grow"}
      BY <1>0, <1>1 DEF LockHeld, TypeOK, ReadLock
    <3> QED  BY <3>1 DEF MidCall
  <2> QED  BY <2>1, <2>2, <2>3, <2>4 DEF DInv
<1>2. ASSUME NEW c \in Cpu, ReadSwap(c)
      PROVE  DInv'
  <2>1. TypeOK'
    <3>1. /\ rbase' \in Nat /\ wbase' \in Nat /\ rsize' \in 0 .. Size /\ wsize' \in 0 .. Size
          /\ pos' \in 0 .. rsize'
      BY <1>n, <1>2 DEF ReadSwap
    <3> QED  BY <1>0, <1>2, <3>1 DEF TypeOK, ReadSwap
  <2>2. LockHeld'
    BY <1>0, <1>2 DEF LockHeld, TypeOK, ReadSwap
  <2>3. \A d \in Cpu \ {c} : pc[d] = "out" /\ pc'[d] = "out"
    BY <1>0, <1>2 DEF LockHeld, TypeOK, ReadSwap
  <2>4. ({rbase, wbase} = {0, Size})'
    BY <1>0, <1>2 DEF ReadSwap
  <2>5. Contents' /\ MidCall'
    <3>1. CASE pos >= rsize /\ wsize # 0
      <4>1. /\ rbase' = wbase /\ rsize' = wsize /\ wsize' = 0 /\ pos' = 0 /\ pos = rsize
            /\ mem' = mem /\ sent' = sent /\ taken' = taken /\ pc'[c] = "copy"
        BY <1>0, <1>2, <3>1 DEF ReadSwap, TypeOK
      <4>2. Contents'
        BY <1>0, <4>1 DEF Contents, TypeOK
      <4>3. MidCall'
        BY <2>3, <4>1 DEF MidCall
      <4> QED  BY <4>2, <4>3
    <3>2. CASE ~(pos >= rsize /\ wsize # 0)
      <4>1. /\ UNCHANGED <<rbase, rsize, wbase, wsize, pos, mem, sent, taken>>
            /\ pc'[c] = "copy"
        BY <1>0, <1>2, <3>2 DEF ReadSwap, TypeOK
      <4>2. Contents'
        BY <1>0, <4>1 DEF Contents
      <4>3. MidCall'
        <5>1. pos = rsize => wsize = 0
          BY <1>n, <3>2
        <5> QED  BY <2>3, <4>1, <5>1 DEF MidCall
      <4> QED  BY <4>2, <4>3
    <3> QED  BY <3>1, <3>2
  <2> QED  BY <2>1, <2>2, <2>4, <2>5 DEF DInv
<1>3. ASSUME NEW c \in Cpu, ReadCopy(c)
      PROVE  DInv'
  <2>1. \A d \in Cpu : pc'[d] = "out"
    BY <1>0, <1>3 DEF LockHeld, TypeOK, ReadCopy
  <2>2. LockHeld' /\ MidCall' /\ ({rbase, wbase} = {0, Size})'
    BY <1>0, <1>3, <2>1 DEF LockHeld, MidCall, ReadCopy
  <2>3. CASE pos >= rsize
    <3>1. TypeOK'
      <4>1. got' \in [Cpu -> Seq(Byte)]
        <5>1. <<>> \in Seq(Byte) /\ got \in [Cpu -> Seq(Byte)]
          BY <1>0, EmptySeq DEF TypeOK
        <5>2. got' = [got EXCEPT ![c] = <<>>]
          BY <1>3, <2>3 DEF ReadCopy
        <5> QED  BY <5>1, <5>2, Zenon
      <4> QED  BY <1>0, <1>3, <2>3, <4>1 DEF TypeOK, ReadCopy
    <3>2. Contents'
      BY <1>0, <1>3, <2>3 DEF Contents, ReadCopy
    <3> QED  BY <2>2, <3>1, <3>2 DEF DInv
  <2>4. CASE ~(pos >= rsize)
    <3> DEFINE k == ReadSize(c)
    <3>1. k \in 0 .. rsize - pos /\ k \in Nat
      BY <1>0, Sizes
    <3>2. /\ got' = [got EXCEPT ![c] = [i \in 1 .. k |-> mem[rbase + pos + i - 1]]]
          /\ pos' = pos + k /\ taken' = taken + k
          /\ UNCHANGED <<mem, data, rbase, rsize, wbase, wsize, sent>>
      BY <1>3, <2>4 DEF ReadCopy
    <3> HIDE DEF k
    <3>3. [i \in 1 .. k |-> mem[rbase + pos + i - 1]] \in Seq(Byte)
      <4>1. \A i \in 1 .. k : rbase + pos + i - 1 \in Address
        BY <1>n, <3>1 DEF Address
      <4>2. \A i \in 1 .. k : mem[rbase + pos + i - 1] \in Byte
        BY <1>0, <4>1 DEF TypeOK
      <4> QED  BY <3>1, <4>2
    <3>4. got' \in [Cpu -> Seq(Byte)]
      BY <1>0, <3>2, <3>3 DEF TypeOK
    <3>5. TypeOK'
      BY <1>0, <1>3, <3>1, <3>2, <3>4 DEF TypeOK, ReadCopy
    <3>6. Contents'
      <4>1. Len(sent') = taken' + (rsize' - pos') + wsize'
        BY <1>0, <1>n, <3>1, <3>2 DEF Contents
      <4>2. ASSUME NEW i \in 0 .. rsize - (pos + k) - 1
            PROVE  mem[rbase + (pos + k) + i] = sent[(taken + k) + 1 + i]
        <5>1. /\ k + i \in 0 .. rsize - pos - 1
              /\ rbase + pos + (k + i) = rbase + (pos + k) + i
              /\ taken + 1 + (k + i) = (taken + k) + 1 + i
          BY <1>n, <3>1
        <5> QED  BY <1>0, <5>1 DEF Contents
      <4>3. ASSUME NEW i \in 0 .. wsize - 1
            PROVE  mem[wbase + i] = sent[(taken + k) + (rsize - (pos + k)) + 1 + i]
        <5>1. (taken + k) + (rsize - (pos + k)) + 1 + i = taken + (rsize - pos) + 1 + i
          BY <1>n, <3>1
        <5> QED  BY <1>0, <5>1 DEF Contents
      <4> QED  BY <3>2, <4>1, <4>2, <4>3 DEF Contents
    <3> QED  BY <2>2, <3>5, <3>6 DEF DInv
  <2> QED  BY <2>3, <2>4
<1>4. ASSUME NEW c \in Cpu, NEW d \in Writes, WriteLock(c, d)
      PROVE  DInv'
  <2>1. d \in Seq(Byte)
    BY DEF Writes
  <2>2. TypeOK'
    BY <1>0, <1>4, <2>1 DEF TypeOK, WriteLock
  <2>3. LockHeld'
    BY <1>0, <1>4 DEF LockHeld, TypeOK, WriteLock
  <2>4. Contents' /\ MidCall' /\ ({rbase, wbase} = {0, Size})'
    <3>1. \A e \in Cpu : pc'[e] = "out" \/ pc'[e] = "store"
      BY <1>0, <1>4 DEF LockHeld, TypeOK, WriteLock
    <3> QED  BY <1>0, <1>4, <3>1 DEF Contents, MidCall, WriteLock
  <2> QED  BY <2>2, <2>3, <2>4 DEF DInv
<1>5. ASSUME NEW c \in Cpu, WriteStore(c)
      PROVE  DInv'
  <2> DEFINE k == WriteSize(c)
  <2>1. k \in 0 .. Len(data[c]) /\ k <= Size - wsize
    BY <1>0, Sizes
  <2>2. /\ UNCHANGED <<lock, want, data, got, rbase, rsize, wbase, wsize, pos, sent, taken>>
        /\ pc' = [pc EXCEPT ![c] = "grow"] /\ pc[c] = "store"
        /\ mem' = [a \in Address |-> IF a \in wbase + wsize .. wbase + wsize + k - 1
                                     THEN data[c][a - (wbase + wsize) + 1] ELSE mem[a]]
    BY <1>5 DEF WriteStore
  <2>3. WriteSize(c)' = k
    BY <2>2 DEF WriteSize
  <2> HIDE DEF k
  <2>4. /\ wsize \in 0 .. Size /\ rsize \in 0 .. Size /\ pos \in 0 .. rsize
        /\ Len(data[c]) \in Nat /\ \A i \in 1 .. Len(data[c]) : data[c][i] \in Byte
    BY <1>0 DEF TypeOK
  <2>5. mem' \in [Address -> Byte]
    <3>1. \A a \in Address : a \in wbase + wsize .. wbase + wsize + k - 1
                                => a - (wbase + wsize) + 1 \in 1 .. Len(data[c])
      <4>1. k \in Nat /\ k <= Len(data[c]) /\ wbase + wsize \in Nat
        BY <1>n, <2>1, <2>4
      <4> QED  BY <2>4, <4>1 DEF Address
    <3>2. \A a \in Address : mem[a] \in Byte
      BY <1>0 DEF TypeOK
    <3> QED  BY <2>2, <2>4, <3>1, <3>2
  <2>6. TypeOK'
    BY <1>0, <2>2, <2>5 DEF TypeOK
  <2>7. LockHeld' /\ ({rbase, wbase} = {0, Size})'
    BY <1>0, <2>2 DEF LockHeld, TypeOK
  <2>8. \A i \in 0 .. Size - 1 : mem'[rbase + i] = mem[rbase + i]
    BY <1>n, <2>1, <2>2, <2>4 DEF Address
  <2>9. \A i \in 0 .. wsize - 1 : mem'[wbase + i] = mem[wbase + i]
    BY <1>n, <2>1, <2>2, <2>4 DEF Address
  <2>10. ASSUME NEW i \in 1 .. k
         PROVE  mem'[wbase + wsize + i - 1] = data[c][i]
    <3>1. /\ wbase + wsize + i - 1 \in Address
          /\ wbase + wsize + i - 1 \in wbase + wsize .. wbase + wsize + k - 1
          /\ (wbase + wsize + i - 1) - (wbase + wsize) + 1 = i
      BY <1>n, <2>1, <2>4 DEF Address
    <3> QED  BY <2>2, <3>1
  <2>11. Contents'
    <3>1. \A i \in 0 .. rsize - pos - 1 : mem'[rbase + pos + i] = sent[taken + 1 + i]
      <4> SUFFICES ASSUME NEW i \in 0 .. rsize - pos - 1
                   PROVE  mem'[rbase + pos + i] = sent[taken + 1 + i]
        OBVIOUS
      <4>1. pos + i \in 0 .. Size - 1 /\ rbase + (pos + i) = rbase + pos + i
        BY <1>0, <2>4 DEF TypeOK
      <4>2. mem'[rbase + pos + i] = mem[rbase + pos + i]
        BY <2>8, <4>1
      <4> QED  BY <1>0, <4>2 DEF Contents
    <3>2. \A i \in 0 .. wsize - 1 : mem'[wbase + i] = sent[taken + (rsize - pos) + 1 + i]
      BY <1>0, <2>9 DEF Contents
    <3> QED  BY <1>0, <2>2, <3>1, <3>2 DEF Contents
  <2>12. MidCall'
    <3>1. \A d \in Cpu \ {c} : pc'[d] = "out"
      BY <1>0, <2>2 DEF LockHeld, TypeOK
    <3>2. pc'[c] = "grow"
      BY <1>0, <2>2 DEF TypeOK
    <3> QED  BY <2>2, <2>3, <2>10, <3>1, <3>2 DEF MidCall
  <2> QED  BY <2>6, <2>7, <2>11, <2>12 DEF DInv
<1>6. ASSUME NEW c \in Cpu, WriteGrow(c)
      PROVE  DInv'
  <2> DEFINE k == WriteSize(c)
             s == [i \in 1 .. k |-> data[c][i]]
  <2>1. k \in 0 .. Len(data[c]) /\ k <= Size - wsize /\ data[c] \in Seq(Byte) /\ k \in Nat
    BY <1>0, Sizes DEF TypeOK
  <2>2. /\ wsize' = wsize + k /\ sent' = sent \o s
        /\ UNCHANGED <<want, got, mem, rbase, rsize, wbase, pos, taken>>
        /\ data' = [data EXCEPT ![c] = <<>>] /\ lock' = Nobody
    BY <1>6 DEF WriteGrow
  <2>3. \A i \in 1 .. k : mem[wbase + wsize + i - 1] = data[c][i]
    BY <1>0, <1>6 DEF MidCall, WriteGrow
  <2> HIDE DEF k
  <2>4. s \in Seq(Byte) /\ Len(s) = k /\ \A i \in 1 .. k : s[i] = data[c][i]
    BY <2>1, PrefixIsSeq
  <2> HIDE DEF s
  <2>5. sent \in Seq(Byte) /\ Len(sent) \in Nat
    BY <1>0 DEF TypeOK
  <2>6. /\ sent' \in Seq(Byte) /\ Len(sent') = Len(sent) + k
        /\ \A i \in 1 .. Len(sent) : sent'[i] = sent[i]
        /\ \A i \in 1 .. k : sent'[Len(sent) + i] = data[c][i]
    BY <2>1, <2>2, <2>4, <2>5, ConcatProperties
  <2>7. TypeOK'
    <3>1. wsize' \in 0 .. Size
      BY <1>n, <2>1, <2>2
    <3>2. /\ data' \in [Cpu -> Seq(Byte)]
          /\ pc' \in [Cpu -> {"out", "swap", "copy", "store", "grow"}]
          /\ lock' \in Cpu \cup {Nobody}
      <4>1. <<>> \in Seq(Byte)
        OBVIOUS
      <4> QED  BY <1>0, <1>6, <4>1 DEF TypeOK, WriteGrow
    <3>3. sent' \in Seq(Byte)
      BY <2>6
    <3> QED  BY <1>0, <2>2, <3>1, <3>2, <3>3 DEF TypeOK
  <2>8. \A d \in Cpu : pc'[d] = "out"
    BY <1>0, <1>6 DEF LockHeld, TypeOK, WriteGrow
  <2>9. LockHeld' /\ MidCall' /\ ({rbase, wbase} = {0, Size})'
    BY <1>0, <2>2, <2>8 DEF LockHeld, MidCall
  <2>10. Contents'
    <3>1. Len(sent) = taken + (rsize - pos) + wsize /\ taken \in Nat /\ wsize \in Nat
          /\ rsize \in Nat /\ pos \in 0 .. rsize /\ wbase \in Nat
      BY <1>0 DEF Contents, TypeOK
    <3>2. Len(sent') = taken' + (rsize' - pos') + wsize'
      BY <1>n, <2>1, <2>2, <2>6, <3>1
    <3>3. ASSUME NEW i \in 0 .. rsize - pos - 1
          PROVE  mem[rbase + pos + i] = sent'[taken + 1 + i]
      <4>1. taken + 1 + i \in 1 .. Len(sent)
        BY <3>1
      <4>2. mem[rbase + pos + i] = sent[taken + 1 + i]
        BY <1>0 DEF Contents
      <4> QED  BY <2>6, <4>1, <4>2
    <3>4. ASSUME NEW i \in 0 .. wsize + k - 1
          PROVE  mem[wbase + i] = sent'[taken + (rsize - pos) + 1 + i]
      <4>1. CASE i < wsize
        <5>1. i \in 0 .. wsize - 1 /\ taken + (rsize - pos) + 1 + i \in 1 .. Len(sent)
          BY <2>1, <3>1, <4>1
        <5>2. mem[wbase + i] = sent[taken + (rsize - pos) + 1 + i]
          BY <1>0, <5>1 DEF Contents
        <5> QED  BY <2>6, <5>1, <5>2
      <4>2. CASE ~(i < wsize)
        <5>1. i - wsize + 1 \in 1 .. k
          BY <2>1, <3>1, <4>2
        <5>2. /\ wbase + wsize + (i - wsize + 1) - 1 = wbase + i
              /\ Len(sent) + (i - wsize + 1) = taken + (rsize - pos) + 1 + i
          BY <3>1, <4>2, <2>1
        <5> QED  BY <2>3, <2>6, <5>1, <5>2
      <4> QED  BY <4>1, <4>2
    <3>5. \A i \in 0 .. wsize' - 1 : mem'[wbase' + i] = sent'[taken' + (rsize' - pos') + 1 + i]
      <4>1. wsize' = wsize + k /\ UNCHANGED <<mem, wbase, taken, rsize, pos>>
        BY <2>2
      <4>2. ASSUME NEW i \in 0 .. wsize' - 1
            PROVE  mem'[wbase' + i] = sent'[taken' + (rsize' - pos') + 1 + i]
        <5>1. i \in 0 .. wsize + k - 1
          BY <2>1, <3>1, <4>1
        <5>2. mem[wbase + i] = sent'[taken + (rsize - pos) + 1 + i]
          BY <3>4, <5>1
        <5> QED  BY <4>1, <5>2
      <4> QED  BY <4>2
    <3>6. \A i \in 0 .. rsize' - pos' - 1 : mem'[rbase' + pos' + i] = sent'[taken' + 1 + i]
      BY <2>2, <3>3
    <3> QED  BY <3>2, <3>5, <3>6 DEF Contents
  <2> QED  BY <2>7, <2>9, <2>10 DEF DInv
<1>7. CASE UNCHANGED vars
  <2> USE <1>0, <1>7 DEF vars
  <2>1. TypeOK'
    BY DEF TypeOK
  <2>2. LockHeld' /\ ({rbase, wbase} = {0, Size})'
    BY DEF LockHeld
  <2>3. Contents'
    BY DEF Contents
  <2>4. MidCall'
    BY DEF MidCall, WriteSize
  <2> QED  BY <2>1, <2>2, <2>3, <2>4 DEF DInv
<1> QED  BY <1>1, <1>2, <1>3, <1>4, <1>5, <1>6, <1>7 DEF Next

(* The invariant holds in every state. *)
THEOREM BufferInvariant == Spec => []DInv
<1>1. Init => DInv
  BY DInvInit
<1>2. DInv /\ [Next]_vars => DInv'
  BY DInvNext
<1> QED  BY <1>1, <1>2, PTL DEF Spec

(* Sizes, positions and offsets stay in range, for any number of CPUs, any *)
(* size of the buffer and any mix of reads and writes.                     *)
THEOREM BufferTypes == Spec => []TypeOK
<1>1. DInv => TypeOK
  BY DEF DInv
<1> QED  BY <1>1, BufferInvariant, PTL

(* DoubleBuffer::write never leaves its half of the allocation.            *)
THEOREM CopiesInHalf == Spec => []CopiesStayInHalf
<1>1. DInv => CopiesStayInHalf
  <2> SUFFICES ASSUME DInv PROVE CopiesStayInHalf
    OBVIOUS
  <2>1. wsize \in 0 .. Size /\ rsize \in 0 .. Size /\ pos \in 0 .. rsize /\ Size \in Nat
    BY DoubleBufferAssumption DEF DInv, TypeOK
  <2>2. TypeOK
    BY DEF DInv
  <2>3. ASSUME NEW c \in Cpu
        PROVE  wsize + WriteSize(c) <= Size
    <3>1. Len(data[c]) \in Nat
      BY <2>2 DEF TypeOK
    <3>2. WriteSize(c) \in Nat /\ WriteSize(c) <= Size - wsize
      BY <2>2, <3>1, Sizes
    <3> QED  BY <2>1, <3>2
  <2>4. pos <= rsize /\ rsize <= Size
    BY <2>1
  <2> QED  BY <2>3, <2>4 DEF CopiesStayInHalf, DInv
<1> QED  BY <1>1, BufferInvariant, PTL

(* What empty() and full() answer is what the blockers of pipes and        *)
(* sockets need to know.                                                   *)
THEOREM EmptyAndFull == Spec => []EmptyAndFullTellTheTruth
<1>1. DInv => EmptyAndFullTellTheTruth
  <2> SUFFICES ASSUME DInv PROVE EmptyAndFullTellTheTruth
    OBVIOUS
  <2>1. /\ wsize \in 0 .. Size /\ rsize \in 0 .. Size /\ pos \in 0 .. rsize /\ Size \in Nat
        /\ taken \in Nat /\ Len(sent) = taken + (rsize - pos) + wsize
    BY DoubleBufferAssumption DEF DInv, TypeOK, Contents
  <2> QED  BY <2>1 DEF EmptyAndFullTellTheTruth, Empty, Full
<1> QED  BY <1>1, BufferInvariant, PTL

(* A read copies out the next bytes of the stream. *)
LEMMA ReadDelivers ==
    ASSUME DInv, NEW c \in Cpu, ReadCopy(c)
    PROVE  Stream!Deliver(c)
<1>1. /\ wsize \in 0 .. Size /\ rsize \in 0 .. Size /\ pos \in 0 .. rsize /\ Size \in Nat
      /\ taken \in Nat /\ Len(sent) = taken + (rsize - pos) + wsize /\ want[c] \in Nat
  BY DoubleBufferAssumption DEF DInv, TypeOK, Contents
<1>2. Stream!Waiting = (rsize - pos) + wsize
  BY <1>1 DEF Stream!Waiting
<1>3. want' = [want EXCEPT ![c] = 0] /\ UNCHANGED <<sent, data>>
  BY DEF ReadCopy
<1>4. CASE pos >= rsize
  <2>0. pos = rsize
    BY <1>1, <1>4
  <2>1. wsize = 0 /\ Stream!Waiting = 0
    <3>1. wsize = 0
      BY <2>0 DEF DInv, MidCall, ReadCopy
    <3> QED  BY <1>1, <1>2, <2>0, <3>1
  <2>2. got' = [got EXCEPT ![c] = <<>>] /\ taken' = taken
    BY <1>4 DEF ReadCopy
  <2>3. [i \in 1 .. 0 |-> sent[taken + i]] = <<>>
    OBVIOUS
  <2>4. taken' = taken + 0 /\ 0 \in 0 .. Stream!Waiting /\ 0 <= want[c]
    BY <1>1, <2>1, <2>2
  <2> QED  BY <1>3, <2>1, <2>2, <2>3, <2>4 DEF Stream!Deliver
<1>5. CASE ~(pos >= rsize)
  <2> DEFINE k == ReadSize(c)
  <2>1. /\ got' = [got EXCEPT ![c] = [i \in 1 .. k |-> mem[rbase + pos + i - 1]]]
        /\ taken' = taken + k
    BY <1>5 DEF ReadCopy
  <2>2. k \in 0 .. rsize - pos /\ k <= want[c] /\ (k = 0 => want[c] = 0) /\ k \in Nat
    BY <1>1, <1>5 DEF ReadSize, Min2
  <2> HIDE DEF k
  <2>3. ASSUME NEW i \in 1 .. k
        PROVE  mem[rbase + pos + i - 1] = sent[taken + i]
    <3>1. i - 1 \in 0 .. rsize - pos - 1
      BY <1>1, <2>2
    <3>2. mem[rbase + pos + (i - 1)] = sent[taken + 1 + (i - 1)]
      BY <3>1 DEF DInv, Contents
    <3>3. rbase + pos + (i - 1) = rbase + pos + i - 1 /\ taken + 1 + (i - 1) = taken + i
      <4>1. rbase \in Nat
        BY DEF DInv, TypeOK
      <4> QED  BY <1>1, <2>2, <4>1
    <3> QED  BY <3>2, <3>3
  <2>4. [i \in 1 .. k |-> mem[rbase + pos + i - 1]] = [i \in 1 .. k |-> sent[taken + i]]
    BY <2>3
  <2>5. k \in 0 .. Stream!Waiting
    BY <1>1, <1>2, <2>2
  <2> QED  BY <1>3, <2>1, <2>2, <2>4, <2>5 DEF Stream!Deliver
<1> QED  BY <1>4, <1>5

(* A write appends what it stored to the stream. *)
LEMMA WriteAccepts ==
    ASSUME DInv, NEW c \in Cpu, WriteGrow(c)
    PROVE  Stream!Accept(c)
<1> DEFINE k == WriteSize(c)
<1>1. /\ wsize \in 0 .. Size /\ rsize \in 0 .. Size /\ pos \in 0 .. rsize /\ Size \in Nat
      /\ taken \in Nat /\ Len(sent) = taken + (rsize - pos) + wsize
      /\ data[c] \in Seq(Byte)
  BY DoubleBufferAssumption DEF DInv, TypeOK, Contents
<1>2. Len(data[c]) \in Nat /\ (Len(data[c]) = 0 => data[c] = <<>>)
  BY <1>1
<1>3. Stream!Waiting = (rsize - pos) + wsize
  BY <1>1 DEF Stream!Waiting
<1>4. /\ k \in 0 .. Len(data[c]) /\ k <= Size - wsize /\ k \in Nat
      /\ k = 0 => Len(data[c]) = 0 \/ Size - wsize = 0
  BY <1>1, <1>2 DEF WriteSize, Min2
<1>5. /\ sent' = sent \o [i \in 1 .. k |-> data[c][i]]
      /\ data' = [data EXCEPT ![c] = <<>>] /\ UNCHANGED <<taken, want, got>>
  BY DEF WriteGrow
<1> HIDE DEF k
<1>6. k = 0 => data[c] = <<>> \/ Stream!Waiting >= Size
  BY <1>1, <1>2, <1>3, <1>4
<1>7. Stream!Waiting + k <= 2 * Size
  BY <1>1, <1>3, <1>4
<1> QED  BY <1>4, <1>5, <1>6, <1>7 DEF Stream!Accept

(* For any number of CPUs and any size, the double buffer is one byte      *)
(* stream: what read returns is what write accepted, once and in order.    *)
THEOREM BufferIsStream == Spec => ImplementsByteStream
<1>1. Init => Stream!BInit
  BY DEF Init, Stream!BInit
<1>2. DInv /\ [Next]_vars => [Stream!BNext]_(Stream!bvars)
  <2> SUFFICES ASSUME DInv, [Next]_vars
               PROVE  Stream!BNext \/ UNCHANGED Stream!bvars
    OBVIOUS
  <2>t. want \in [Cpu -> Nat] /\ data \in [Cpu -> Seq(Byte)]
    BY DEF DInv, TypeOK
  <2>1. ASSUME NEW c \in Cpu, NEW n \in 0 .. MaxRead, ReadLock(c, n)
        PROVE  Stream!AskRead(c)
    <3>1. want' = [want EXCEPT ![c] = n] /\ n \in Nat
      BY <2>1, DoubleBufferAssumption DEF ReadLock
    <3>2. want'[c] = n
      BY <2>t, <3>1
    <3> QED  BY <2>1, <3>1, <3>2 DEF ReadLock, Stream!AskRead
  <2>2. ASSUME NEW c \in Cpu, NEW d \in Writes, WriteLock(c, d)
        PROVE  Stream!AskWrite(c)
    <3>1. data' = [data EXCEPT ![c] = d] /\ d \in Seq(Byte)
      BY <2>2, DoubleBufferAssumption DEF WriteLock, Writes
    <3>2. data'[c] = d
      BY <2>t, <3>1
    <3> QED  BY <2>2, <3>1, <3>2 DEF WriteLock, Stream!AskWrite
  <2>3. ASSUME NEW c \in Cpu, ReadSwap(c) \/ WriteStore(c)
        PROVE  UNCHANGED Stream!bvars
    BY <2>3 DEF ReadSwap, WriteStore, Stream!bvars
  <2>4. CASE UNCHANGED vars
    BY <2>4 DEF vars, Stream!bvars
  <2> QED  BY <2>1, <2>2, <2>3, <2>4, ReadDelivers, WriteAccepts DEF Next, Stream!BNext
<1> QED  BY <1>1, <1>2, BufferInvariant, PTL DEF Spec, ImplementsByteStream, Stream!BSpec
-----------------------------------------------------------------------------
(* BufferCounts, with which Pipe and Socket model their buffers, counts    *)
(* what this buffer holds.                                                 *)
Counts == INSTANCE BufferCounts

Counted == [ahead |-> rsize - pos, behind |-> wsize]

(* empty() and full() answer what the counters say. *)
AnswersAgree == (Empty <=> Counts!IsEmpty(Counted)) /\ (Full <=> Counts!IsFull(Counted))

(* The steps of a read swap the halves and take bytes as AfterRead does,   *)
(* the last step of a write adds bytes as AfterWrite does, and nothing     *)
(* else changes the counters.                                              *)
CountersFollow ==
    \/ UNCHANGED Counted
    \/ \E c \in Cpu :
         \/ pc[c] = "swap" /\ Counted' = Counts!Swapped(Counted)
         \/ pc[c] = "copy" /\ Counted' = Counts!AfterRead(Counted, want[c])
         \/ pc[c] = "grow" /\ Counted' = Counts!AfterWrite(Counted, Len(data[c]))

(* A read whose halves were swapped before is still that read. *)
LEMMA SwapOnce ==
    ASSUME NEW a \in Nat, NEW b \in Nat, NEW n \in Nat
    PROVE  LET x == [ahead |-> a, behind |-> b]
           IN  Counts!AfterRead(Counts!Swapped(x), n) = Counts!AfterRead(x, n)
BY DEF Counts!AfterRead, Counts!Swapped

LEMMA CountersStep == DInv /\ [Next]_vars => [CountersFollow]_vars
<1> SUFFICES ASSUME DInv, Next PROVE CountersFollow
  OBVIOUS
<1>1. /\ wsize \in 0 .. Size /\ rsize \in 0 .. Size /\ pos \in 0 .. rsize /\ Size \in Nat
      /\ TypeOK /\ MidCall
  BY DoubleBufferAssumption DEF DInv, TypeOK
<1>2. ASSUME NEW c \in Cpu, ReadSwap(c) PROVE CountersFollow
  <2>1. Counted' = Counts!Swapped(Counted)
    BY <1>1, <1>2 DEF ReadSwap, Counted, Counts!Swapped
  <2> QED  BY <1>2, <2>1 DEF CountersFollow, ReadSwap
<1>3. ASSUME NEW c \in Cpu, ReadCopy(c) PROVE CountersFollow
  <2>1. want[c] \in Nat /\ pc[c] = "copy" /\ UNCHANGED <<rsize, wsize>>
    BY <1>1, <1>3 DEF TypeOK, ReadCopy
  <2>2. pos = rsize => wsize = 0
    BY <1>1, <2>1 DEF MidCall
  <2>3. pos' = IF want[c] < rsize - pos THEN pos + want[c] ELSE rsize
    BY <1>1, <1>3, <2>1 DEF ReadCopy, ReadSize, Min2
  <2>4. Counts!Swapped(Counted) = Counted
    BY <1>1, <2>2 DEF Counts!Swapped, Counted
  <2>5. Counted' = Counts!AfterRead(Counted, want[c])
    BY <1>1, <2>1, <2>3, <2>4 DEF Counts!AfterRead, Counted
  <2> QED  BY <2>1, <2>5 DEF CountersFollow
<1>4. ASSUME NEW c \in Cpu, WriteGrow(c) PROVE CountersFollow
  <2>1. Len(data[c]) \in Nat /\ pc[c] = "grow" /\ UNCHANGED <<rsize, pos>>
    BY <1>1, <1>4 DEF TypeOK, WriteGrow
  <2>2. wsize' = IF Len(data[c]) < Size - wsize THEN wsize + Len(data[c]) ELSE Size
    BY <1>1, <1>4, <2>1 DEF WriteGrow, WriteSize, Min2
  <2>3. Counted' = Counts!AfterWrite(Counted, Len(data[c]))
    BY <1>1, <2>1, <2>2 DEF Counts!AfterWrite, Counted
  <2> QED  BY <2>1, <2>3 DEF CountersFollow
<1>5. ASSUME NEW c \in Cpu, NEW x, ReadLock(c, x) \/ WriteLock(c, x) \/ WriteStore(c)
      PROVE  CountersFollow
  BY <1>5 DEF ReadLock, WriteLock, WriteStore, CountersFollow, Counted
<1> QED  BY <1>2, <1>3, <1>4, <1>5 DEF Next

(* Counting is a faithful abstraction of the buffer: Pipe and Socket       *)
(* decide who blocks, and how much a call moves, as the code does.         *)
THEOREM CountingIsFaithful == Spec => []AnswersAgree /\ [][CountersFollow]_vars
<1>1. DInv => AnswersAgree
  <2> SUFFICES ASSUME DInv PROVE AnswersAgree
    OBVIOUS
  <2>1. wsize \in 0 .. Size /\ rsize \in 0 .. Size /\ pos \in 0 .. rsize /\ Size \in Nat
    BY DoubleBufferAssumption DEF DInv, TypeOK
  <2> QED  BY <2>1 DEF AnswersAgree, Empty, Full, Counted, Counts!IsEmpty, Counts!IsFull
<1> QED  BY <1>1, CountersStep, BufferInvariant, PTL DEF Spec
=============================================================================
