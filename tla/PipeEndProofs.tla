--------------------------- MODULE PipeEndProofs ---------------------------
(***************************************************************************)
(* What the system calls conclude from the counters of a pipe: end of file *)
(* is final, and what a read or a write found before it gave up the locks  *)
(* still holds when it moves bytes.                                        *)
(***************************************************************************)
EXTENDS PipeProofs

(* A pipe without writers has no handle that writes to it. *)
NoWriter(t, i) == \A p \in Proc, f \in Fd : ~Is(t[p][f], i, "Write")

LEMMA NoneCounted ==
    ASSUME NEW t \in Tables, NEW i
    PROVE  Cardinality(On(t, i, "Write")) = 0 <=> NoWriter(t, i)
<1>1. On(t, i, "Write") \in SUBSET Place /\ {} \in SUBSET Place
      /\ \A p \in Proc, f \in Fd : <<p, f>> \in On(t, i, "Write") <=> Is(t[p][f], i, "Write")
  BY OnIs
<1>2. IsFiniteSet(On(t, i, "Write"))
  BY <1>1, OnFinite
<1>3. Cardinality(On(t, i, "Write")) = 0 <=> On(t, i, "Write") = {}
  BY <1>2, FS_EmptySet
<1>4. ASSUME NoWriter(t, i) PROVE On(t, i, "Write") = {}
  <2>1. \A p \in Proc, f \in Fd : <<p, f>> \in On(t, i, "Write") <=> <<p, f>> \in {}
    BY <1>1, <1>4, Zenon DEF NoWriter
  <2> QED  BY <1>1, <2>1, SamePairs, Zenon
<1> QED  BY <1>1, <1>3, <1>4, Zenon DEF NoWriter

LEMMA WritersAre ==
    ASSUME PipeInv, NEW i \in Pipes
    PROVE  /\ writers[i] = 0 <=> NoWriter(fds, i)
           /\ PipeInv' => (writers'[i] = 0 <=> NoWriter(fds', i))
<1>1. fds \in Tables /\ writers[i] = Cardinality(On(fds, i, "Write"))
  BY CountersAre DEF PipeInv, PipeTypeOK, Tables
<1>2. ASSUME PipeInv' PROVE fds' \in Tables /\ writers'[i] = Cardinality(On(fds', i, "Write"))
  BY <1>2, Zenon DEF PipeInv, PipeTypeOK, Tables, CountersMatchHandles, HandlesOn, On
<1> QED  BY <1>1, <1>2, NoneCounted

(* A step copies handles that there are, or makes handles on a new pipe. *)
LEMMA NoNewHandles ==
    ASSUME PipeInv, NEW p \in Proc, Call(p) \/ Work(p), NEW q \in Proc, NEW f \in Fd
    PROVE  \/ fds'[q][f] = None
           \/ \E r \in Proc, g \in Fd : fds'[q][f] = fds[r][g]
           \/ fds'[q][f].pipe \notin made
<1>0. PipeTypeOK /\ CallOK(p) /\ fds \in [Proc -> Table]
  BY DEF PipeInv, CallsOK, PipeTypeOK
<1>1. CASE QuietStep(p) \/ MoveStep(p) \/ ExecDone(p) \/ ExecFail(p)
  <2>1. fds' = fds
    BY <1>1 DEF QuietStep, MoveStep, Exit, Reap, WaitWake, ReadWake, WriteWake, ExecFailed, WaitPid,
         ReadCheck, WriteCheck, ExecDone, ExecFail, Read, Write
  <2> QED  BY <2>1
<1>2. ASSUME NEW c \in Proc, NEW copies, CreateProcess(p, c, copies)
      PROVE  fds'[q][f] = None \/ \E r \in Proc, g \in Fd : fds'[q][f] = fds[r][g]
  BY <1>0, <1>2 DEF CreateProcess, Open
<1>3. ASSUME NEW i \in Pipes, CreatePipe(p, i)
      PROVE  (\E r \in Proc, g \in Fd : fds'[q][f] = fds[r][g]) \/ fds'[q][f].pipe \notin made
  <2>1. CASE q = p
    BY <1>3, <2>1, CountersNew, Zenon DEF CreatePipe
  <2>2. CASE q # p
    BY <1>0, <1>3, <2>2 DEF CreatePipe
  <2> QED  BY <2>1, <2>2
<1>4. ASSUME NEW g \in Fd, Close(p, g) \/ Release(p, g) \/ \E src \in Fd : DupClear(p, src, g)
      PROVE  fds'[q][f] = None \/ fds'[q][f] = fds[q][f]
  <2>1. fds' = [fds EXCEPT ![p][g] = None]
    BY <1>4 DEF Close, Release, DupClear, SetFd
  <2> QED  BY <1>0, <2>1 DEF Table
<1>5. CASE DupCopy(p)
  BY <1>0, <1>5 DEF DupCopy, SetFd, Table, CallOK
<1> QED  BY <1>1, <1>2, <1>3, <1>4, <1>5, StepKinds DEF SpawnStep, TableStep

LEMMA WritersStayGone ==
    ASSUME PipeInv, PipeInv', NEW p \in Proc, Call(p) \/ Work(p), NEW i \in made, writers[i] = 0
    PROVE  writers'[i] = 0
<1>1. i \in Pipes /\ NoWriter(fds, i)
  BY WritersAre DEF PipeInv, PipeTypeOK
<1>2. \A q \in Proc, f \in Fd : ~Is(fds'[q][f], i, "Write")
  <2> SUFFICES ASSUME NEW q \in Proc, NEW f \in Fd, Is(fds'[q][f], i, "Write") PROVE FALSE
    BY Zenon
  <2>1. fds'[q][f] # None /\ fds'[q][f].pipe \in made
    BY DEF Is
  <2>2. PICK r \in Proc, g \in Fd : fds'[q][f] = fds[r][g]
    BY <2>1, NoNewHandles
  <2> QED  BY <1>1, <2>2 DEF NoWriter
<1>3. NoWriter(fds', i)
  BY <1>2, Zenon DEF NoWriter
<1> QED  BY <1>1, <1>3, WritersAre

(* A process in a transfer is only disturbed through the pipe. *)
LEMMA InTransferKept ==
    ASSUME PipeInv, NEW p \in Proc, NEW q \in Proc \ {p}, Call(p) \/ Work(p),
           state'[q] \in {"read_go", "write_go"}
    PROVE  state'[q] = state[q] /\ fds'[q] = fds[q] /\ arg'[q] = arg[q]
<1>0. PipeTypeOK /\ CallOK(p)
  BY DEF PipeInv, CallsOK
<1>1. CASE QuietStep(p)
  BY <1>0, <1>1 DEF PipeTypeOK, Goto, procVars, QuietStep, Exit, Reap, WaitWake, ReadWake,
       WriteWake, ExecFailed, WaitPid, ReadCheck, WriteCheck
<1>2. CASE MoveStep(p)
  BY <1>0, <1>2, Zenon DEF PipeTypeOK, Goto, MoveStep, Read, Write, Return
<1>3. CASE SpawnStep(p)
  <2>1. CASE ExecDone(p) \/ ExecFail(p)
    BY <1>0, <2>1 DEF PipeTypeOK, Goto, CallOK, procVars, ExecDone, ExecFail
  <2>2. ASSUME NEW c \in Proc, NEW copies, CreateProcess(p, c, copies)
        PROVE  state'[q] = state[q] /\ fds'[q] = fds[q] /\ arg'[q] = arg[q]
    <3>1. q # c
      BY <1>0, <2>2 DEF PipeTypeOK, CreateProcess
    <3> QED  BY <1>0, <2>2, <3>1 DEF PipeTypeOK, CreateProcess
  <2> QED  BY <1>3, <2>1, <2>2 DEF SpawnStep
<1>4. CASE TableStep(p)
  BY <1>0, <1>4, Zenon DEF PipeTypeOK, Goto, SetFd, procVars, TableStep, CreatePipe, Close, Release,
       DupClear, DupCopy
<1> QED  BY <1>1, <1>2, <1>3, <1>4, StepKinds

(* The pipe of a transfer *)
LEMMA TransferPipe ==
    ASSUME PipeInv, NEW p \in Proc, state[p] \in InTransfer
    PROVE  /\ PipeOf(p) \in made /\ PipeOf(p) \in Pipes /\ buffer[PipeOf(p)] \in Count
           /\ fds[p][arg[p][1]] # None /\ arg[p][1] \in Fd
           /\ fds[p][arg[p][1]].dir \in Direction
<1>1. arg[p][1] \in Fd /\ fds[p][arg[p][1]] # None /\ PipeOf(p) \in made
  BY DEF PipeInv, CallsOK, CallOK, PipeOf
<1>2. fds[p][arg[p][1]] \in Handle
  BY <1>1 DEF PipeInv, PipeTypeOK, Table
<1> QED  BY <1>1, <1>2 DEF PipeInv, PipeTypeOK, Handle, PipeOf

(* The buffer of a pipe is written by the transfers on it. *)
LEMMA BufferKept ==
    ASSUME PipeInv, NEW p \in Proc, Call(p) \/ Work(p), NEW i \in Pipes, buffer'[i] # buffer[i]
    PROVE  \E n \in 1 .. Size : /\ PipeOf(p) = i
                                /\ \/ Read(p, n) /\ buffer'[i] = AfterRead(buffer[i], n)
                                   \/ Write(p, n) /\ buffer'[i] = AfterWrite(buffer[i], n)
<1>0. buffer \in [Pipes -> Count]
  BY DEF PipeInv, PipeTypeOK
<1>1. PICK n \in 1 .. Size : Read(p, n) \/ Write(p, n)
  <2>1. ~MoveStep(p) => buffer' = buffer
    BY StepKinds, Zenon DEF QuietStep, Exit, Reap, WaitWake, ReadWake, WriteWake, ExecFailed, WaitPid,
       ReadCheck, WriteCheck, SpawnStep, ExecDone, ExecFail, CreateProcess,
       TableStep, CreatePipe, Close, Release, DupClear, DupCopy, pipeVars
  <2> QED  BY <2>1 DEF MoveStep
<1>2. CASE Read(p, n)
  BY <1>0, <1>2, Zenon DEF Read
<1>3. CASE Write(p, n)
  BY <1>0, <1>3, Zenon DEF Write
<1> QED  BY <1>1, <1>2, <1>3

(* End of file is final for any number of processes and handles. *)
THEOREM EndOfFileIsFinal == Spec => EndIsFinal
<1> DEFINE Final(i) ==
               /\ writers'[i] = 0
               /\ \/ Held(buffer'[i]) <= Held(buffer[i])
                  \/ \E p \in Proc : /\ state[p] = "write_go" /\ PipeOf(p) = i
                                     /\ fds[p][arg[p][1]].dir = "Read"
<1>1. ASSUME PipeInv, PipeInv', NEW p \in Proc, Call(p) \/ Work(p), NEW i \in made, writers[i] = 0
      PROVE  Final(i)
  <2>0. i \in Pipes /\ buffer[i] \in Count /\ NoWriter(fds, i)
    BY <1>1, WritersAre DEF PipeInv, PipeTypeOK
  <2>1. writers'[i] = 0
    BY <1>1, WritersStayGone
  <2>2. Held(buffer[i]) <= Held(buffer[i])
    BY <2>0, SizeAssumption DEF Held, Count
  <2>3. CASE buffer'[i] # buffer[i]
    <3>1. PICK n \in 1 .. Size : /\ PipeOf(p) = i
                                /\ \/ Read(p, n) /\ buffer'[i] = AfterRead(buffer[i], n)
                                   \/ Write(p, n) /\ buffer'[i] = AfterWrite(buffer[i], n)
      BY <1>1, <2>0, <2>3, BufferKept
    <3>2. CASE Read(p, n) /\ buffer'[i] = AfterRead(buffer[i], n)
      <4>1. Held(AfterRead(buffer[i], n)) <= Held(buffer[i])
        BY <2>0, BufferSteps
      <4> QED  BY <2>1, <3>2, <4>1
    <3>3. CASE Write(p, n)
      <4>1. state[p] = "write_go" /\ state[p] \in InTransfer
        BY <3>3 DEF Write, InTransfer
      <4>2. arg[p][1] \in Fd /\ fds[p][arg[p][1]] # None /\ fds[p][arg[p][1]].dir \in Direction
        BY <1>1, <4>1, TransferPipe
      <4>3. fds[p][arg[p][1]].dir = "Read"
        BY <2>0, <3>1, <4>2 DEF NoWriter, Is, PipeOf, Direction
      <4> QED  BY <2>1, <3>1, <4>1, <4>3
    <3> QED  BY <3>1, <3>2, <3>3
  <2>4. CASE buffer'[i] = buffer[i]
    BY <2>1, <2>2, <2>4
  <2> QED  BY <2>3, <2>4
<1>2. PipeInv /\ PipeInv' /\ [Next]_vars => [\A i \in made : writers[i] = 0 => Final(i)]_vars
  BY <1>1 DEF Next
<1> QED  BY <1>2, PipeInvariant, PTL DEF Spec, EndIsFinal
-----------------------------------------------------------------------------
(* What the check of a system call found *)
Found(p, s, i) == /\ s = "read_go" => ~ReadWouldBlock(i)
                  /\ s = "write_go" => ~WriteWouldBlock(i)

LEMMA FoundIs ==
    CheckStillHolds <=> \A p \in Proc : ~raced[p] => Found(p, state[p], PipeOf(p))
BY DEF CheckStillHolds, Found

(* The check of p itself, or the blocker that wakes it *)
LEMMA OwnCheck ==
    ASSUME PipeInv, NEW p \in Proc, Call(p) \/ Work(p), state'[p] \in {"read_go", "write_go"}
    PROVE  /\ state'[p] = "read_go" => ~ReadWouldBlock(PipeOf(p))'
           /\ state'[p] = "write_go" => ~WriteWouldBlock(PipeOf(p))'
<1>0. PipeTypeOK /\ CallOK(p)
  BY DEF PipeInv, CallsOK
<1>1. ~SpawnStep(p) /\ ~TableStep(p) /\ ~MoveStep(p)
  BY <1>0, Zenon DEF PipeTypeOK, Goto, CallOK, SpawnStep, ExecDone, ExecFail, CreateProcess,
       TableStep, CreatePipe, Close, Release, DupClear, DupCopy, MoveStep, Read, Write, Return
<1>2. \/ ReadWake(p) \/ WriteWake(p) \/ \E f \in Fd : ReadCheck(p, f) \/ WriteCheck(p, f)
  BY <1>0, <1>1, StepKinds DEF PipeTypeOK, Goto, QuietStep, Exit, Reap, WaitWake, ExecFailed, WaitPid
<1>3. CASE ReadWake(p)
  BY <1>0, <1>3 DEF PipeTypeOK, Goto, ReadWake, ReadWouldBlock, PipeOf, procVars, pipeVars
<1>4. CASE WriteWake(p)
  BY <1>0, <1>4 DEF PipeTypeOK, Goto, WriteWake, WriteWouldBlock, PipeOf, procVars, pipeVars
<1>5. ASSUME NEW f \in Fd, ReadCheck(p, f)
      PROVE  state'[p] = "read_go" /\ ~ReadWouldBlock(PipeOf(p))'
  BY <1>0, <1>5 DEF PipeTypeOK, Goto, ReadCheck, ReadWouldBlock, PipeOf, pipeVars
<1>6. ASSUME NEW f \in Fd, WriteCheck(p, f)
      PROVE  state'[p] = "write_go" /\ ~WriteWouldBlock(PipeOf(p))'
  BY <1>0, <1>6 DEF PipeTypeOK, Goto, WriteCheck, WriteWouldBlock, PipeOf, pipeVars
<1> QED  BY <1>2, <1>3, <1>4, <1>5, <1>6

(* What q has found outlasts a step of another process, or q is raced. *)
LEMMA OtherCheck ==
    ASSUME PipeInv, PipeInv', NEW p \in Proc, NEW q \in Proc \ {p}, Call(p) \/ Work(p),
           state'[q] \in {"read_go", "write_go"}, ~raced'[q],
           ~raced[q] => Found(q, state[q], PipeOf(q))
    PROVE  /\ state'[q] = "read_go" => ~ReadWouldBlock(PipeOf(q))'
           /\ state'[q] = "write_go" => ~WriteWouldBlock(PipeOf(q))'
<1>1. state'[q] = state[q] /\ fds'[q] = fds[q] /\ arg'[q] = arg[q]
  BY InTransferKept
<1>2. PICK i : i = PipeOf(q)
  OBVIOUS
<1>3. PipeOf(q)' = i /\ i \in made /\ i \in Pipes /\ buffer[i] \in Count
  BY <1>1, <1>2, TransferPipe DEF PipeOf, InTransfer
<1>4. ASSUME NEW n \in 1 .. Size, Read(p, n) \/ Write(p, n), PipeOf(p) = i
      PROVE  /\ ~raced[q]
             /\ Read(p, n) /\ state[q] = "read_go" => IsEmpty(buffer[i])
             /\ Write(p, n) /\ state[q] = "write_go" => IsFull(buffer[i])
  <2>1. CASE Read(p, n)
    <3>1. raced'[q] = (raced[q] \/ (~IsEmpty(buffer[i]) /\ state[q] = state[p] /\ PipeOf(q) = PipeOf(p)))
      BY <1>4, <2>1 DEF Read, Return
    <3>2. state[p] = "read_go"
      BY <2>1 DEF Read
    <3>3. ~Write(p, n)
      BY <3>2 DEF Write
    <3> QED  BY <1>2, <1>4, <3>1, <3>2, <3>3, Zenon
  <2>2. CASE Write(p, n)
    <3>1. raced'[q] = (raced[q] \/ (~IsFull(buffer[i]) /\ state[q] = state[p] /\ PipeOf(q) = PipeOf(p)))
      BY <1>4, <2>2 DEF Write, Return
    <3>2. state[p] = "write_go"
      BY <2>2 DEF Write
    <3>3. ~Read(p, n)
      BY <3>2 DEF Read
    <3> QED  BY <1>2, <1>4, <3>1, <3>2, <3>3, Zenon
  <2> QED  BY <1>4, <2>1, <2>2
<1>5. ~raced[q]
  <2>1. CASE MoveStep(p)
    <3>1. PICK n \in 1 .. Size : Read(p, n) \/ Write(p, n)
      BY <2>1 DEF MoveStep
    <3>2. PICK m \in {TRUE, FALSE} : raced'[q] = (raced[q] \/ (m /\ state[q] = state[p] /\ PipeOf(q) = PipeOf(p)))
      BY <3>1, Zenon DEF Read, Write, Return
    <3> QED  BY <3>2, Zenon
  <2>2. CASE ~MoveStep(p)
    <3>1. raced' = raced
      BY <2>2, StepKinds, Zenon DEF QuietStep, Exit, Reap, WaitWake, ReadWake, WriteWake, ExecFailed, WaitPid,
         ReadCheck, WriteCheck, SpawnStep, ExecDone, ExecFail, CreateProcess,
         TableStep, CreatePipe, Close, Release, DupClear, DupCopy, procVars
    <3> QED  BY <3>1
  <2> QED  BY <2>1, <2>2
<1>6. Found(q, state[q], i)
  BY <1>2, <1>5
<1>7. CASE state[q] = "read_go"
  <2>1. writers[i] = 0 \/ ~IsEmpty(buffer[i])
    BY <1>6, <1>7 DEF Found, ReadWouldBlock
  <2>2. CASE writers[i] = 0
    <3>1. writers'[i] = 0
      BY <1>3, <2>2, WritersStayGone
    <3> QED  BY <1>1, <1>3, <1>7, <3>1 DEF ReadWouldBlock
  <2>3. CASE ~IsEmpty(buffer[i])
    <3>1. ~IsEmpty(buffer'[i])
      BY <1>3, <1>4, <1>7, <2>3, BufferKept, BufferSteps
    <3> QED  BY <1>1, <1>3, <1>7, <3>1 DEF ReadWouldBlock
  <2> QED  BY <2>1, <2>2, <2>3
<1>8. CASE state[q] = "write_go"
  <2>1. ~IsFull(buffer[i])
    BY <1>6, <1>8 DEF Found, WriteWouldBlock
  <2>2. ~IsFull(buffer'[i])
    BY <1>3, <1>4, <1>8, <2>1, BufferKept, BufferSteps
  <2> QED  BY <1>1, <1>3, <1>8, <2>2 DEF WriteWouldBlock
<1> QED  BY <1>1, <1>7, <1>8

(* What sys_read and sys_write found before they gave up the locks still   *)
(* holds when they move bytes, unless another process made the same        *)
(* transfer in between, for any number of processes.                       *)
THEOREM ChecksHold == Spec => []CheckStillHolds
<1>1. Init => CheckStillHolds
  BY DEF Init, CheckStillHolds
<1>2. ASSUME PipeInv, PipeInv', CheckStillHolds, [Next]_vars
      PROVE  CheckStillHolds'
  <2>1. CASE UNCHANGED vars
    BY <1>2, <2>1 DEF vars, CheckStillHolds, PipeOf, ReadWouldBlock, WriteWouldBlock
  <2>2. ASSUME NEW p \in Proc, Call(p) \/ Work(p), NEW q \in Proc, ~raced'[q]
        PROVE  /\ state'[q] = "read_go" => ~ReadWouldBlock(PipeOf(q))'
               /\ state'[q] = "write_go" => ~WriteWouldBlock(PipeOf(q))'
    <3>1. CASE q = p
      BY <1>2, <2>2, <3>1, OwnCheck
    <3>2. CASE q # p
      <4>1. ~raced[q] => Found(q, state[q], PipeOf(q))
        BY <1>2, FoundIs
      <4> QED  BY <1>2, <2>2, <3>2, <4>1, OtherCheck
    <3> QED  BY <3>1, <3>2
  <2>3. ASSUME NEW p \in Proc, Call(p) \/ Work(p)
        PROVE  CheckStillHolds'
    BY <2>2, <2>3 DEF CheckStillHolds
  <2> QED  BY <1>2, <2>1, <2>3 DEF Next
<1>3. PipeInv /\ PipeInv' /\ CheckStillHolds /\ [Next]_vars => CheckStillHolds'
  BY <1>2
<1> QED  BY <1>1, <1>3, PipeInvariant, PTL DEF Spec
=============================================================================
