-------------------------------- MODULE Pipe --------------------------------
(***************************************************************************)
(* Pipes and the file-descriptor tables that keep them open:               *)
(* kernel/ipc/pipe.cc, kernel/fs/file_handle.cc and the system calls of    *)
(* kernel/syscalls.cc that create, copy and drop handles.                  *)
(*                                                                         *)
(* A process has one thread, whose system calls hold the process's m_lock. *)
(* Every access to a pipe is one step: it holds the pipe's own lock, or    *)
(* that of its DoubleBuffer.  A buffer is the number of bytes each half    *)
(* still holds; DoubleBuffer shows which bytes they are.                   *)
(*                                                                         *)
(* A Process is destroyed, and its handles with it, when the last          *)
(* reference goes: those of its thread and of every WaitBlocker on it.     *)
(***************************************************************************)
EXTENDS BufferCounts, FiniteSets

CONSTANTS Proc,     \* every process there will ever be
          Shell,    \* the one that runs at first
          Pipes,    \* every pipe there will ever be
          MaxFd,    \* bound: descriptors are 0 .. MaxFd
          Calls,    \* bound: the optional system calls programs make
          None      \* no handle, no process

Fd == 0 .. MaxFd
Direction == {"Read", "Write"}
Handle == [pipe : Pipes, dir : Direction]

ASSUME PipeAssumption ==
    /\ IsFiniteSet(Proc) /\ Shell \in Proc
    /\ MaxFd \in Nat
    /\ None \notin Proc \cup Handle

VARIABLES state,    \* state[p]: where the thread of p is
          fds,      \* fds[p]: m_fds
          arg,      \* arg[p]: the descriptors a system call works on, or None
          child,    \* child[p]: the process create_process is building
          waits,    \* waits[p]: the process p's WaitBlocker refers to
          made,     \* the pipes created so far
          readers,  \* m_reader_count
          writers,  \* m_writer_count
          buffer,   \* m_buffer
          raced     \* history: a call of another process used up what p's check found

vars == <<state, fds, arg, child, waits, made, readers, writers, buffer, raced>>
pipeVars == <<made, readers, writers, buffer>>
procVars == <<arg, child, waits, raced>>

(* "building": not yet inserted; "exec": creating a process; "dead": killed*)
(* but not yet deleted; "reaped": the thread is deleted.                   *)
Init ==
    /\ state = [p \in Proc |-> IF p = Shell THEN "user" ELSE "unborn"]
    /\ fds = [p \in Proc |-> [f \in Fd |-> None]]
    /\ arg = [p \in Proc |-> None]
    /\ child = [p \in Proc |-> None]
    /\ waits = [p \in Proc |-> None]
    /\ made = {}
    /\ readers = [i \in Pipes |-> 0] /\ writers = [i \in Pipes |-> 0]
    /\ buffer = [i \in Pipes |-> NewBuffer]
    /\ raced = [p \in Proc |-> FALSE]
-----------------------------------------------------------------------------
Goto(p, s) == state' = [state EXCEPT ![p] = s]
SetFd(p, f, h) == fds' = [fds EXCEPT ![p][f] = h]
Open(p) == {f \in Fd : fds[p][f] # None}
PipeOf(p) == fds[p][arg[p][1]].pipe
Handles(table, i, d) == {f \in Fd : table[f] # None /\ table[f].pipe = i /\ table[f].dir = d}

(* FileHandle's constructor for every handle of a table: Pipe::attach *)
Attach(table) ==
    /\ readers' = [i \in Pipes |-> readers[i] + Cardinality(Handles(table, i, "Read"))]
    /\ writers' = [i \in Pipes |-> writers[i] + Cardinality(Handles(table, i, "Write"))]

(* ~FileHandle: Pipe::detach *)
Detach(h) ==
    IF h.dir = "Read"
    THEN readers' = [readers EXCEPT ![h.pipe] = @ - 1] /\ UNCHANGED writers
    ELSE writers' = [writers EXCEPT ![h.pipe] = @ - 1] /\ UNCHANGED readers

(* a table with one handle only *)
Only(f, h) == [g \in Fd |-> IF g = f THEN h ELSE None]

(* Process::allocate_fd: the first descriptor of free *)
AllocateFd(free) == CHOOSE f \in free : \A g \in free : f <= g

(* Fault: a pipe without writers is only empty. *)
ReadWouldBlockEmpty(i) == IsEmpty(buffer[i])

(* Pipe::read_would_block, Pipe::write_would_block *)
ReadWouldBlock(i) == writers[i] # 0 /\ IsEmpty(buffer[i])
WriteWouldBlock(i) == IsFull(buffer[i])
-----------------------------------------------------------------------------
(* sys_create_pipe *)
CreatePipe(p, i) ==
    LET r == AllocateFd(Fd \ Open(p))
        w == AllocateFd(Fd \ (Open(p) \cup {r}))
        ends == [f \in Fd |-> IF f = r THEN [pipe |-> i, dir |-> "Read"]
                              ELSE IF f = w THEN [pipe |-> i, dir |-> "Write"]
                              ELSE None]
    IN  /\ state[p] = "user" /\ i \notin made
        /\ Cardinality(Fd \ Open(p)) >= 2
        /\ made' = made \cup {i}
        /\ fds' = [fds EXCEPT ![p] = [f \in Fd |-> IF f \in {r, w} THEN ends[f] ELSE @[f]]]
        /\ Attach(ends)
        /\ UNCHANGED <<state, buffer, procVars>>

(* sys_close *)
Close(p, f) ==
    /\ state[p] = "user" /\ f \in Open(p)
    /\ SetFd(p, f, None)
    /\ Detach(fds[p][f])
    /\ UNCHANGED <<state, made, buffer, procVars>>

(* Fault: the handle of src is moved, then copied back. *)
DupClearMoves(p, src, dst) ==
    /\ state[p] = "user" /\ src \in Open(p) /\ src # dst
    /\ SetFd(p, dst, None)
    /\ Detach(fds[p][src])
    /\ arg' = [arg EXCEPT ![p] = <<src, dst>>]
    /\ Goto(p, "dup")
    /\ UNCHANGED <<child, waits, raced, made, buffer>>

(* sys_dup_fd: Optional::emplace destroys what dst holds first *)
DupClear(p, src, dst) ==
    /\ state[p] = "user" /\ src \in Open(p) /\ src # dst
    /\ SetFd(p, dst, None)
    /\ IF dst \in Open(p) THEN Detach(fds[p][dst]) ELSE UNCHANGED <<readers, writers>>
    /\ arg' = [arg EXCEPT ![p] = <<src, dst>>]
    /\ Goto(p, "dup")
    /\ UNCHANGED <<child, waits, raced, made, buffer>>

(* sys_dup_fd: then it copies the handle of src *)
DupCopy(p) ==
    /\ state[p] = "dup"
    /\ SetFd(p, arg[p][2], fds[p][arg[p][1]])
    /\ Attach(Only(arg[p][2], fds[p][arg[p][1]]))
    /\ arg' = [arg EXCEPT ![p] = None]
    /\ Goto(p, "user")
    /\ UNCHANGED <<child, waits, raced, made, buffer>>

(* Fault: handles are copied member by member, without attaching. *)
CreateProcessNoAttach(p, q, copies) ==
    LET table == [f \in Fd |-> IF f \in DOMAIN copies THEN fds[p][copies[f]] ELSE fds[p][f]]
    IN  /\ state[p] = "user" /\ state[q] = "unborn"
        /\ \A f \in DOMAIN copies : copies[f] \in Open(p)
        /\ fds' = [fds EXCEPT ![q] = table]
        /\ state' = [state EXCEPT ![p] = "exec", ![q] = "building"]
        /\ child' = [child EXCEPT ![p] = q]
        /\ UNCHANGED <<arg, waits, raced, pipeVars>>

(* sys_create_process: the child gets a copy of every handle, and copies   *)
(* of some under other descriptors.  The caller holds each handle that is  *)
(* copied, so that the copies made one after the other are one step here.  *)
CreateProcess(p, q, copies) ==
    LET table == [f \in Fd |-> IF f \in DOMAIN copies THEN fds[p][copies[f]] ELSE fds[p][f]]
    IN  /\ state[p] = "user" /\ state[q] = "unborn"
        /\ \A f \in DOMAIN copies : copies[f] \in Open(p)
        /\ fds' = [fds EXCEPT ![q] = table]
        /\ Attach(table)
        /\ state' = [state EXCEPT ![p] = "exec", ![q] = "building"]
        /\ child' = [child EXCEPT ![p] = q]
        /\ UNCHANGED <<arg, waits, raced, made, buffer>>

(* exec succeeds and the thread is inserted *)
ExecDone(p) ==
    /\ state[p] = "exec" /\ state[child[p]] = "building"
    /\ state' = [state EXCEPT ![p] = "user", ![child[p]] = "user"]
    /\ child' = [child EXCEPT ![p] = None]
    /\ UNCHANGED <<fds, arg, waits, raced, pipeVars>>

(* exec fails: new_thread is destroyed, and the process with it *)
ExecFail(p) ==
    /\ state[p] = "exec" /\ state[child[p]] = "building"
    /\ Goto(child[p], "reaped")
    /\ UNCHANGED <<fds, procVars, pipeVars>>

(* the error is returned once the process has been destroyed *)
ExecFailed(p) ==
    /\ state[p] = "exec" /\ state[child[p]] = "reaped" /\ Open(child[p]) = {}
    /\ Goto(p, "user")
    /\ child' = [child EXCEPT ![p] = None]
    /\ UNCHANGED <<fds, arg, waits, raced, pipeVars>>

(* sys_exit, or a fault *)
Exit(p) ==
    /\ state[p] = "user"
    /\ Goto(p, "dead")
    /\ UNCHANGED <<fds, procVars, pipeVars>>

(* ~Thread, run by the CPU that switched away from it *)
Reap(p) ==
    /\ state[p] = "dead"
    /\ Goto(p, "reaped")
    /\ UNCHANGED <<fds, procVars, pipeVars>>

(* ~Process closes its handles once nothing refers to the process *)
Release(p, f) ==
    /\ state[p] = "reaped" /\ \A q \in Proc : waits[q] # p
    /\ f \in Open(p)
    /\ SetFd(p, f, None)
    /\ Detach(fds[p][f])
    /\ UNCHANGED <<state, made, buffer, procVars>>
-----------------------------------------------------------------------------
(* sys_wait_pid: Process::from_pid finds the process by its thread, and    *)
(* the WaitBlocker keeps a reference to it                                 *)
WaitPid(p, q) ==
    /\ state[p] = "user" /\ state[q] # "unborn"
    /\ waits' = [waits EXCEPT ![p] = IF state[q] \in {"building", "reaped"} THEN None ELSE q]
    /\ Goto(p, "wait")
    /\ UNCHANGED <<fds, arg, child, raced, pipeVars>>

(* WaitBlocker::should_unblock; try_unblock destroys the blocker *)
WaitWake(p) ==
    /\ state[p] = "wait"
    /\ waits[p] # None => state[waits[p]] = "reaped"
    /\ waits' = [waits EXCEPT ![p] = None]
    /\ Goto(p, "user")
    /\ UNCHANGED <<fds, arg, child, raced, pipeVars>>

(* sys_read: the check before the transfer *)
ReadCheck(p, f) ==
    /\ state[p] = "user" /\ f \in Open(p)
    /\ Goto(p, IF ReadWouldBlock(fds[p][f].pipe) THEN "read_wait" ELSE "read_go")
    /\ arg' = [arg EXCEPT ![p] = <<f, f>>]
    /\ UNCHANGED <<fds, child, waits, raced, pipeVars>>

(* Fault: a blocked reader is woken by anything. *)
ReadWakeAlways(p) ==
    /\ state[p] = "read_wait"
    /\ Goto(p, "read_go")
    /\ UNCHANGED <<fds, procVars, pipeVars>>

(* ReadBlocker::should_unblock *)
ReadWake(p) ==
    /\ state[p] = "read_wait" /\ ~ReadWouldBlock(PipeOf(p))
    /\ Goto(p, "read_go")
    /\ UNCHANGED <<fds, procVars, pipeVars>>

(* sys_write: the check before the transfer *)
WriteCheck(p, f) ==
    /\ state[p] = "user" /\ f \in Open(p)
    /\ Goto(p, IF WriteWouldBlock(fds[p][f].pipe) THEN "write_wait" ELSE "write_go")
    /\ arg' = [arg EXCEPT ![p] = <<f, f>>]
    /\ UNCHANGED <<fds, child, waits, raced, pipeVars>>

(* WriteBlocker::should_unblock *)
WriteWake(p) ==
    /\ state[p] = "write_wait" /\ ~WriteWouldBlock(PipeOf(p))
    /\ Goto(p, "write_go")
    /\ UNCHANGED <<fds, procVars, pipeVars>>

(* p's system call returns; the others that are about to do the same to    *)
(* its pipe may find less than their check did                             *)
Return(p, moved) ==
    /\ Goto(p, "user")
    /\ arg' = [arg EXCEPT ![p] = None]
    /\ raced' = [q \in Proc |->
           IF q = p THEN FALSE
           ELSE raced[q] \/ (moved /\ state[q] = state[p] /\ PipeOf(q) = PipeOf(p))]

(* Pipe::read of up to n bytes *)
Read(p, n) ==
    /\ state[p] = "read_go"
    /\ buffer' = [buffer EXCEPT ![PipeOf(p)] = AfterRead(@, n)]
    /\ Return(p, ~IsEmpty(buffer[PipeOf(p)]))
    /\ UNCHANGED <<fds, child, waits, made, readers, writers>>

(* Pipe::write of n bytes *)
Write(p, n) ==
    /\ state[p] = "write_go"
    /\ buffer' = [buffer EXCEPT ![PipeOf(p)] = AfterWrite(@, n)]
    /\ Return(p, ~IsFull(buffer[PipeOf(p)]))
    /\ UNCHANGED <<fds, child, waits, made, readers, writers>>
-----------------------------------------------------------------------------
(* What a program may ask for *)
Call(p) ==
    \/ \E i \in Pipes : CreatePipe(p, i)
    \/ \E f \in Fd : Close(p, f) \/ ReadCheck(p, f)
    \/ \E f \in Fd : "write" \in Calls /\ WriteCheck(p, f)
    \/ \E src, dst \in Fd : "dup" \in Calls /\ DupClear(p, src, dst)
    \/ \E q \in Proc : "wait" \in Calls /\ WaitPid(p, q)
    \/ \E q \in Proc : CreateProcess(p, q, <<>>)
    \/ \E q \in Proc, parent, to \in Fd : CreateProcess(p, q, [f \in {to} |-> parent])
    \/ Exit(p)

(* What the kernel goes on to do by itself *)
Work(p) ==
    \/ DupCopy(p) \/ ExecFailed(p) \/ WaitWake(p) \/ ReadWake(p) \/ WriteWake(p) \/ Reap(p)
    \/ ExecDone(p) \/ ExecFail(p)
    \/ \E n \in 1 .. Size : Read(p, n) \/ Write(p, n)
    \/ \E f \in Fd : Release(p, f)

Next == \E p \in Proc : Call(p) \/ Work(p)

Spec == Init /\ [][Next]_vars

(* The scheduler runs every thread that can run and asks every blocker     *)
(* again and again; a program need not make another call.                  *)
FairSpec == Spec /\ \A p \in Proc : WF_vars(Work(p))
-----------------------------------------------------------------------------
HandlesOn(i, d) == {x \in Proc \X Fd : x[2] \in Handles(fds[x[1]], i, d)}
HasThread(p) == state[p] \notin {"unborn", "dead", "reaped"}

(* m_reader_count and m_writer_count of a pipe are the numbers of handles  *)
(* in all tables, those of half-built and dying processes included:        *)
(* copying, overwriting and dropping handles attaches and detaches as      *)
(* often, so that detach never finds its ASSERT on the counter false.      *)
CountersMatchHandles ==
    \A i \in Pipes : /\ readers[i] = Cardinality(HandlesOn(i, "Read"))
                     /\ writers[i] = Cardinality(HandlesOn(i, "Write"))

(* sys_read and sys_write give up the locks between the check that a call  *)
(* would not block, or the wait for it, and the transfer.  What was found  *)
(* still holds at the transfer unless another process made the same        *)
(* transfer in between: a read of no bytes means that every writer is gone.*)
CheckStillHolds ==
    \A p \in Proc : ~raced[p] =>
        /\ state[p] = "read_go" => ~ReadWouldBlock(PipeOf(p))
        /\ state[p] = "write_go" => ~WriteWouldBlock(PipeOf(p))

(* End of file is final: once no handle can write to a pipe, none ever     *)
(* will, and no byte is added to it, although writers sleep between their  *)
(* check and their transfer and although handles are copied and destroyed  *)
(* one at a time.  sys_write does not look at m_direction: a program that  *)
(* writes through a read handle is the one exception.                      *)
EndIsFinal ==
    [][\A i \in made : writers[i] = 0 =>
          /\ writers'[i] = 0
          /\ \/ Held(buffer'[i]) <= Held(buffer[i])
             \/ \E p \in Proc : /\ state[p] = "write_go" /\ PipeOf(p) = i
                                /\ fds[p][arg[p][1]].dir = "Read"]_vars

(* A reader that waits on a pipe whose write end only dead processes still *)
(* hold wakes up, although a process that another one waits for keeps its  *)
(* handles until that one has noticed.                                     *)
EndReachesReaders ==
    \A p \in Proc, i \in Pipes :
        /\ state[p] = "read_wait" /\ PipeOf(p) = i
        /\ \A x \in HandlesOn(i, "Write") : ~HasThread(x[1])
        ~> state[p] # "read_wait"

=============================================================================
