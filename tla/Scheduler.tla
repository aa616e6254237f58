----------------------------- MODULE Scheduler -----------------------------
(***************************************************************************)
(* The scheduler of kernel/proc/scheduler.cc with the parts of Thread,     *)
(* Process and the amd64 CPU code that it drives: every CPU switches       *)
(* between threads taken from three queues it shares with the other CPUs.  *)
(*                                                                         *)
(* Ring 0 runs with interrupts disabled, so the steps that interleave are  *)
(* those of different CPUs.  Each operation on a queue is one step here;   *)
(* RunQueue shows that the lock-free ring provides that.  What a CPU does  *)
(* between two accesses to shared state is merged into one of them.        *)
(*                                                                         *)
(* A thread is blocked on an Event (data, space, a connection: whatever    *)
(* the blocker of the system call polls for) or on the end of a process.   *)
(* A process has one thread, so it is named by that thread.                *)
(***************************************************************************)
EXTENDS Integers, FiniteSets, Sequences, Functions

CONSTANTS Cpu,          \* the CPUs the machine has
          Bsp,          \* the CPU that boots
          NormalThread, \* threads of priority Normal, in use or not yet created
          KernelInit,   \* the Normal thread that runs kernel_init
          Thread,       \* every thread
          IdleOf,       \* IdleOf[c]: the thread CPU c creates for its idle loop
          Event,        \* what system calls wait for
          Waitable,     \* threads whose process wait_pid may be called on
          None          \* no thread, no blocker

IdleThread == {IdleOf[c] : c \in Cpu}

ASSUME SchedulerAssumption ==
    /\ IsFiniteSet(Cpu) /\ Bsp \in Cpu
    /\ KernelInit \in NormalThread
    /\ IdleOf \in [Cpu -> Thread]
    /\ \A c, d \in Cpu : IdleOf[c] = IdleOf[d] => c = d
    /\ NormalThread = Thread \ IdleThread
    /\ Waitable \subseteq Thread
    /\ Event \cap Thread = {}
    /\ None \notin Thread \cup Event

VARIABLES pc,       \* pc[c]: where CPU c is
          current,  \* current[c]: CpuStorage::current_thread
          hand,     \* hand[c]: the thread pick_next has dequeued
          stack,    \* stack[c]: whose stack the handler on c runs on, or c for its own rsp0 stack
          queue,    \* s_blocked_queue and s_queues
          state,    \* state[t]: Thread::m_state, or whether t exists at all
          blocker,  \* blocker[t]: Thread::m_blocker
          kernel,   \* kernel[t]: t will run, or is running, in ring 0
          count,    \* count[t]: m_thread_count of t's process
          freed,    \* threads whose destructor has run
          ready     \* the events that have happened

vars == <<pc, current, hand, stack, queue, state, blocker, kernel, count, freed, ready>>

Queues == {"blocked", "normal", "idle"}
Labels == {"off", "starting", "running", "requeue", "drain", "drained",
           "scan_normal", "scan_idle", "check", "reblock", "finish", "panic"}
States == {"Unborn", "Alive", "Blocked", "Dead"}

TypeOK ==
    /\ pc \in [Cpu -> Labels]
    /\ current \in [Cpu -> Thread \cup {None}]
    /\ hand \in [Cpu -> Thread \cup {None}]
    /\ stack \in [Cpu -> Cpu \cup Thread]
    /\ queue \in [Queues -> Seq(Thread)]
    /\ state \in [Thread -> States]
    /\ blocker \in [Thread -> Event \cup Thread \cup {None}]
    /\ kernel \in [Thread -> BOOLEAN]
    /\ count \in [Thread -> Int]
    /\ freed \subseteq Thread
    /\ ready \subseteq Event

(* Thread::priority, as the queue a thread of that priority waits in *)
QueueOf(t) == IF t \in IdleThread THEN "idle" ELSE "normal"
ScanOf(q) == IF q = "idle" THEN "scan_idle" ELSE "scan_normal"

Goto(c, l) == pc' = [pc EXCEPT ![c] = l]
Enqueue(q, t) == queue' = [queue EXCEPT ![q] = Append(@, t)]
Dequeue(q) == queue' = [queue EXCEPT ![q] = Tail(@)]
-----------------------------------------------------------------------------
(* kernel_entry: the boot CPU creates its idle thread and kernel_init,     *)
(* queues the latter and enters the idle loop.                             *)
Init ==
    /\ pc = [c \in Cpu |-> IF c = Bsp THEN "running" ELSE "off"]
    /\ current = [c \in Cpu |-> IF c = Bsp THEN IdleOf[c] ELSE None]
    /\ hand = [c \in Cpu |-> None]
    /\ stack = [c \in Cpu |-> c]
    /\ queue = [q \in Queues |-> IF q = "normal" THEN <<KernelInit>> ELSE <<>>]
    /\ state = [t \in Thread |-> IF t \in {KernelInit, IdleOf[Bsp]} THEN "Alive" ELSE "Unborn"]
    /\ blocker = [t \in Thread |-> None]
    /\ kernel = [t \in Thread |-> t \in {KernelInit, IdleOf[Bsp]}]
    /\ count = [t \in Thread |-> IF t \in {KernelInit, IdleOf[Bsp]} THEN 1 ELSE 0]
    /\ freed = {}
    /\ ready = {}

(* kernel_init, smp_init, try_start_ap: the startup interrupt is sent.     *)
StartAp(c, ap) ==
    /\ pc[c] = "running" /\ current[c] = KernelInit
    /\ pc[ap] = "off"
    /\ Goto(ap, "starting")
    /\ UNCHANGED <<current, hand, stack, queue, state, blocker, kernel, count, freed, ready>>

(* Fault: the idle thread is queued like any other. *)
SchedStartQueued(ap) ==
    /\ pc[ap] = "starting"
    /\ current' = [current EXCEPT ![ap] = IdleOf[ap]]
    /\ state' = [state EXCEPT ![IdleOf[ap]] = "Alive"]
    /\ kernel' = [kernel EXCEPT ![IdleOf[ap]] = TRUE]
    /\ count' = [count EXCEPT ![IdleOf[ap]] = 1]
    /\ Enqueue("idle", IdleOf[ap])
    /\ Goto(ap, "running")
    /\ UNCHANGED <<hand, stack, blocker, freed, ready>>

(* ap_entry, sched_start: the CPU creates its idle thread, which is not    *)
(* queued, and enters the idle loop.                                       *)
SchedStart(ap) ==
    /\ pc[ap] = "starting"
    /\ current' = [current EXCEPT ![ap] = IdleOf[ap]]
    /\ state' = [state EXCEPT ![IdleOf[ap]] = "Alive"]
    /\ kernel' = [kernel EXCEPT ![IdleOf[ap]] = TRUE]
    /\ count' = [count EXCEPT ![IdleOf[ap]] = 1]
    /\ Goto(ap, "running")
    /\ UNCHANGED <<hand, stack, queue, blocker, freed, ready>>
-----------------------------------------------------------------------------
(* What a running thread does.  A system call that does not wait is one    *)
(* step, from ring 3 and back.                                             *)
RunsUser(c) == pc[c] = "running" /\ current[c] \in NormalThread /\ ~kernel[current[c]]

(* The end of kernel_init: the first user thread t is inserted, then       *)
(* yield_and_kill.                                                         *)
KernelInitEnd(c, t) ==
    /\ pc[c] = "running" /\ current[c] = KernelInit
    /\ t \in NormalThread /\ state[t] = "Unborn"
    /\ state' = [state EXCEPT ![t] = "Alive", ![KernelInit] = "Dead"]
    /\ count' = [count EXCEPT ![t] = 1]
    /\ Enqueue("normal", t)
    /\ stack' = [stack EXCEPT ![c] = KernelInit]
    /\ Goto(c, "requeue")
    /\ UNCHANGED <<current, hand, blocker, kernel, freed, ready>>

(* sys_create_process: Thread::create_user and Scheduler::insert_thread.   *)
Spawn(c, t) ==
    /\ RunsUser(c)
    /\ t \in NormalThread /\ state[t] = "Unborn"
    /\ state' = [state EXCEPT ![t] = "Alive"]
    /\ count' = [count EXCEPT ![t] = 1]
    /\ Enqueue("normal", t)
    /\ UNCHANGED <<pc, current, hand, stack, blocker, kernel, freed, ready>>

(* A system call makes an event happen, or undoes it (takes the data).     *)
Toggle(c, e) ==
    /\ pc[c] = "running" /\ current[c] \in NormalThread \ {KernelInit}
    /\ ready' = IF e \in ready THEN ready \ {e} ELSE ready \cup {e}
    /\ UNCHANGED <<pc, current, hand, stack, queue, state, blocker, kernel, count, freed>>

(* The return of a system call that waited, to ring 3.                     *)
SysReturn(c) ==
    /\ pc[c] = "running" /\ current[c] \in NormalThread \ {KernelInit}
    /\ kernel[current[c]]
    /\ kernel' = [kernel EXCEPT ![current[c]] = FALSE]
    /\ UNCHANGED <<pc, current, hand, stack, queue, state, blocker, count, freed, ready>>

(* Thread::block, for a blocker that waits for b, up to the interrupt      *)
(* raised by Scheduler::yield(true).  The processor changes stack only     *)
(* when it leaves ring 3, so the handler runs on the thread's own kernel   *)
(* stack.  WaitBlocker's Process::from_pid finds no process to wait for    *)
(* when it is gone (b = None).                                             *)
Block(c, b) ==
    /\ RunsUser(c)
    /\ b \in Thread => state[b] # "Unborn" /\ b \notin freed
    /\ state' = [state EXCEPT ![current[c]] = "Blocked"]
    /\ blocker' = [blocker EXCEPT ![current[c]] = b]
    /\ kernel' = [kernel EXCEPT ![current[c]] = TRUE]
    /\ stack' = [stack EXCEPT ![c] = current[c]]
    /\ Goto(c, "requeue")
    /\ UNCHANGED <<current, hand, queue, count, freed, ready>>

(* The timer interrupt and timer_handler up to switch_next.  It is taken   *)
(* in ring 3 on the CPU's own stack, or in the idle loop, which runs in    *)
(* ring 0 with interrupts enabled, on the stack of the idle thread.        *)
Timer(c) ==
    /\ RunsUser(c) \/ (pc[c] = "running" /\ current[c] \in IdleThread)
    /\ stack' = [stack EXCEPT ![c] = IF current[c] \in IdleThread THEN current[c] ELSE c]
    /\ Goto(c, "requeue")
    /\ UNCHANGED <<current, hand, queue, state, blocker, kernel, count, freed, ready>>

(* sys_exit: yield_and_kill, on the thread's kernel stack.                 *)
Exit(c) ==
    /\ RunsUser(c)
    /\ state' = [state EXCEPT ![current[c]] = "Dead"]
    /\ stack' = [stack EXCEPT ![c] = current[c]]
    /\ Goto(c, "requeue")
    /\ UNCHANGED <<current, hand, queue, blocker, kernel, count, freed, ready>>

(* handle_fault: an exception in ring 3 kills the thread.                  *)
Fault(c) ==
    /\ RunsUser(c)
    /\ state' = [state EXCEPT ![current[c]] = "Dead"]
    /\ stack' = [stack EXCEPT ![c] = c]
    /\ Goto(c, "requeue")
    /\ UNCHANGED <<current, hand, queue, blocker, kernel, count, freed, ready>>
-----------------------------------------------------------------------------
(* Fault: the idle thread is not requeued, as it was not in sched_start.   *)
RequeueNormal(c) ==
    /\ pc[c] = "requeue"
    /\ IF state[current[c]] # "Dead" /\ current[c] \notin IdleThread
       THEN Enqueue(QueueOf(current[c]), current[c])
       ELSE UNCHANGED queue
    /\ Goto(c, "drain")
    /\ UNCHANGED <<current, hand, stack, state, blocker, kernel, count, freed, ready>>

(* switch_next: requeue the thread that was running if it is not dead.     *)
Requeue(c) ==
    /\ pc[c] = "requeue"
    /\ IF state[current[c]] # "Dead"
       THEN Enqueue(QueueOf(current[c]), current[c])
       ELSE UNCHANGED queue
    /\ Goto(c, "drain")
    /\ UNCHANGED <<current, hand, stack, state, blocker, kernel, count, freed, ready>>

(* pick_next, first loop: every thread of the blocked queue goes back to   *)
(* the queue of its priority.                                              *)
DrainTake(c) ==
    /\ pc[c] = "drain" /\ queue["blocked"] # <<>>
    /\ hand' = [hand EXCEPT ![c] = Head(queue["blocked"])]
    /\ Dequeue("blocked")
    /\ Goto(c, "drained")
    /\ UNCHANGED <<current, stack, state, blocker, kernel, count, freed, ready>>

DrainPut(c) ==
    /\ pc[c] = "drained"
    /\ Enqueue(QueueOf(hand[c]), hand[c])
    /\ hand' = [hand EXCEPT ![c] = None]
    /\ Goto(c, "drain")
    /\ UNCHANGED <<current, stack, state, blocker, kernel, count, freed, ready>>

DrainEnd(c) ==
    /\ pc[c] = "drain" /\ queue["blocked"] = <<>>
    /\ Goto(c, "scan_normal")
    /\ UNCHANGED <<current, hand, stack, queue, state, blocker, kernel, count, freed, ready>>

(* pick_next, second loop: dequeue from the queues of falling priority.    *)
ScanTake(c, q) ==
    /\ pc[c] = ScanOf(q) /\ queue[q] # <<>>
    /\ hand' = [hand EXCEPT ![c] = Head(queue[q])]
    /\ Dequeue(q)
    /\ Goto(c, "check")
    /\ UNCHANGED <<current, stack, state, blocker, kernel, count, freed, ready>>

ScanEnd(c, q) ==
    /\ pc[c] = ScanOf(q) /\ queue[q] = <<>>
    /\ Goto(c, IF q = "normal" THEN "scan_idle" ELSE "panic")
    /\ UNCHANGED <<current, hand, stack, queue, state, blocker, kernel, count, freed, ready>>

(* ThreadBlocker::should_unblock *)
ShouldUnblock(b) == \/ b \in Event /\ b \in ready
                    \/ b \in Thread /\ count[b] = 0
                    \/ b = None

(* Fault: the state is not tested. *)
CheckNothing(c) ==
    /\ pc[c] = "check"
    /\ Goto(c, "finish")
    /\ UNCHANGED <<current, hand, stack, queue, state, blocker, kernel, count, freed, ready>>

(* Fault: try_unblock is not called. *)
CheckAliveOnly(c) ==
    /\ pc[c] = "check"
    /\ Goto(c, IF state[hand[c]] = "Alive" THEN "finish" ELSE "reblock")
    /\ UNCHANGED <<current, hand, stack, queue, state, blocker, kernel, count, freed, ready>>

(* Thread::try_unblock and the test of the state: a thread that can run is *)
(* returned, one still blocked goes to the blocked queue.                  *)
Check(c) ==
    /\ pc[c] = "check"
    /\ LET t == hand[c] IN
       \/ /\ state[t] = "Blocked" /\ ShouldUnblock(blocker[t])
          /\ state' = [state EXCEPT ![t] = "Alive"]
          /\ blocker' = [blocker EXCEPT ![t] = None]
          /\ Goto(c, "finish")
       \/ /\ state[t] = "Blocked" /\ ~ShouldUnblock(blocker[t])
          /\ Goto(c, "reblock")
          /\ UNCHANGED <<state, blocker>>
       \/ /\ state[t] # "Blocked"
          /\ Goto(c, IF state[t] = "Alive" THEN "finish" ELSE "reblock")
          /\ UNCHANGED <<state, blocker>>
    /\ UNCHANGED <<current, hand, stack, queue, kernel, count, freed, ready>>

(* Fault: a thread that is still blocked is not kept. *)
ReblockDropped(c) ==
    /\ pc[c] = "reblock"
    /\ Goto(c, ScanOf(QueueOf(hand[c])))
    /\ hand' = [hand EXCEPT ![c] = None]
    /\ UNCHANGED <<current, stack, queue, state, blocker, kernel, count, freed, ready>>

Reblock(c) ==
    /\ pc[c] = "reblock"
    /\ Enqueue("blocked", hand[c])
    /\ Goto(c, ScanOf(QueueOf(hand[c])))
    /\ hand' = [hand EXCEPT ![c] = None]
    /\ UNCHANGED <<current, stack, state, blocker, kernel, count, freed, ready>>

(* switch_next, after pick_next: m_state of the thread switched from is    *)
(* read again and the thread is deleted if it is dead; then the next       *)
(* thread is loaded.  Another CPU may have deleted the thread already:     *)
(* what is read from the freed memory is then arbitrary.                   *)
Finish(c) ==
    /\ pc[c] = "finish"
    /\ \E dead \in BOOLEAN :
          /\ current[c] \notin freed => dead = (state[current[c]] = "Dead")
          /\ freed' = IF dead THEN freed \cup {current[c]} ELSE freed
          /\ count' = IF dead THEN [count EXCEPT ![current[c]] = @ - 1] ELSE count
    /\ current' = [current EXCEPT ![c] = hand[c]]
    /\ hand' = [hand EXCEPT ![c] = None]
    /\ stack' = [stack EXCEPT ![c] = c]
    /\ Goto(c, "running")
    /\ UNCHANGED <<queue, state, blocker, kernel, ready>>
-----------------------------------------------------------------------------
Switch(c) == \/ Requeue(c) \/ DrainTake(c) \/ DrainPut(c) \/ DrainEnd(c)
             \/ \E q \in {"normal", "idle"} : ScanTake(c, q) \/ ScanEnd(c, q)
             \/ Check(c) \/ Reblock(c) \/ Finish(c)

Run(c) == \/ \E t \in NormalThread : KernelInitEnd(c, t) \/ Spawn(c, t)
          \/ \E e \in Event : Toggle(c, e)
          \/ SysReturn(c) \/ Timer(c) \/ Exit(c) \/ Fault(c)
          \/ \E b \in Event \cup Waitable \cup {None} : Block(c, b)

Next == \E c \in Cpu : \/ \E ap \in Cpu : StartAp(c, ap)
                       \/ SchedStart(c)
                       \/ Run(c)
                       \/ Switch(c)

Spec == Init /\ [][Next]_vars

(* Ring 0 is not preempted, so a CPU in switch_next keeps executing and a  *)
(* thread back in a system call returns from it; kernel_init finishes; the *)
(* one-shot timer set by switch_next fires.  What user code does, and      *)
(* whether an AP answers the startup interrupt, is not assumed.            *)
Fairness == \A c \in Cpu : /\ WF_vars(Switch(c))
                           /\ WF_vars(Timer(c))
                           /\ WF_vars(SysReturn(c))
                           /\ WF_vars(\E t \in NormalThread : KernelInitEnd(c, t))

FairSpec == Spec /\ Fairness
-----------------------------------------------------------------------------
Online == {c \in Cpu : pc[c] \notin {"off", "starting"}}

(* The thread CPU c is responsible for: nobody else may run or queue it.   *)
Held(c) == IF pc[c] \in {"running", "requeue"} THEN current[c] ELSE hand[c]

InQueue(q, t) == t \in Range(queue[q])

(* sched_start: "Each AP needs an idle thread created to ensure that there *)
(* is always something to schedule."  pick_next never runs out of threads, *)
(* with any number of CPUs switching at once.                              *)
AlwaysSomethingToSchedule == \A c \in Cpu : pc[c] # "panic"

(* No thread is run by two CPUs, run while it is still queued, or queued   *)
(* twice, however the CPUs' requeueing, draining and scanning interleave.  *)
OnePlace ==
    /\ \A c, d \in Cpu : Held(c) = Held(d) /\ Held(c) # None => c = d
    /\ \A c \in Cpu, q \in Queues : Held(c) # None => ~InQueue(q, Held(c))
    /\ \A q \in Queues : IsInjective(queue[q])
    /\ \A q, r \in Queues, t \in Thread : InQueue(q, t) /\ InQueue(r, t) => q = r

(* No thread that can still run is forgotten: it is queued or some CPU has *)
(* it.                                                                     *)
NoThreadForgotten ==
    \A t \in Thread : state[t] \in {"Alive", "Blocked"} =>
        (\E q \in Queues : InQueue(q, t)) \/ (\E c \in Cpu : Held(c) = t)

(* A CPU never executes a thread that is blocked, dead or destroyed.       *)
OnlyLiveThreadsRun ==
    \A c \in Cpu : pc[c] = "running" => state[current[c]] = "Alive" /\ current[c] \notin freed

(* ~Process asserts that the process has no thread: a process whose thread *)
(* has been destroyed counts 0 threads.                                    *)
ProcessOutlivesThreads == \A t \in freed : count[t] = 0

(* setup_cpu: interrupt handlers run on a stack loaded "when there is a    *)
(* privilege level change (ring 3 -> ring 0), which is *almost* always the *)
(* case [...]  The exception is non-maskable interrupts".  So no CPU       *)
(* executes on the stack another CPU's handler is using.                   *)
StackInUse(c) ==
    CASE pc[c] \in {"off", "starting"} -> c
      [] pc[c] = "running" -> IF kernel[current[c]] THEN current[c] ELSE c
      [] OTHER -> stack[c]

HandlerStackPrivate ==
    \A c, d \in Online : c # d => StackInUse(c) # StackInUse(d)

(* The inductive invariant behind the theorems of SchedulerProofs.         *)

(* Which fields of a CPU are in use where. *)
CpuOK(c) ==
    /\ pc[c] \in {"off", "starting"} => current[c] = None /\ state[IdleOf[c]] = "Unborn"
    /\ c \in Online => current[c] \in Thread /\ state[IdleOf[c]] = "Alive"
    /\ hand[c] # None <=> pc[c] \in {"drained", "check", "reblock", "finish"}
    /\ pc[c] \in {"drained", "reblock"} => hand[c] \in NormalThread
    /\ pc[c] = "finish" => state[hand[c]] = "Alive"
    /\ pc[c] = "running" => state[current[c]] = "Alive"

CpuFields == \A c \in Cpu : CpuOK(c)

(* An idle thread is only ever in the idle queue, the others never are.    *)
QueueKinds == /\ \A t \in Thread : InQueue("idle", t) => t \in IdleThread
              /\ \A t \in IdleThread : ~InQueue("blocked", t) /\ ~InQueue("normal", t)

(* Threads in a queue or taken from one are neither unborn nor dead, and   *)
(* destroyed threads are dead.                                             *)
LiveStates ==
    /\ \A q \in Queues, t \in Thread : InQueue(q, t) => state[t] \in {"Alive", "Blocked"}
    /\ \A c \in Cpu : hand[c] # None => state[hand[c]] \in {"Alive", "Blocked"}
    /\ \A c \in Cpu : pc[c] = "requeue" => state[current[c]] # "Unborn"
    /\ \A t \in freed : state[t] = "Dead"
    /\ \A t \in IdleThread : state[t] \in {"Unborn", "Alive"}

IInv == /\ TypeOK /\ CpuFields /\ QueueKinds /\ LiveStates
        /\ OnePlace /\ NoThreadForgotten /\ AlwaysSomethingToSchedule

Running(t) == \E c \in Cpu : pc[c] = "running" /\ current[c] = t

(* No wakeup is lost: blockers are polled, so a thread waiting for an      *)
(* event that happens and is not undone stops waiting.                     *)
WokenThreadRuns ==
    \A t \in NormalThread, e \in Event :
        <>[](e \in ready) => []<>~(state[t] = "Blocked" /\ blocker[t] = e)
=============================================================================
