-------------------------- MODULE SchedulerProofs --------------------------
(***************************************************************************)
(* Proofs about Scheduler for any set of CPUs and threads.                 *)
(***************************************************************************)
EXTENDS Scheduler, FiniteSetTheorems, TLAPS

(* What PriorityQueue::enqueue does to a queue that does not hold the      *)
(* thread yet.                                                             *)
LEMMA AppendElements ==
    ASSUME NEW S, NEW s \in Seq(S), NEW e \in S
    PROVE  /\ Append(s, e) \in Seq(S)
           /\ \A u : u \in Range(Append(s, e)) <=> u \in Range(s) \/ u = e
           /\ IsInjective(s) /\ e \notin Range(s) => IsInjective(Append(s, e))
<1>1. /\ Append(s, e) \in Seq(S)
      /\ Len(Append(s, e)) = Len(s) + 1
      /\ Len(s) \in Nat
      /\ \A i \in 1 .. Len(s) : Append(s, e)[i] = s[i]
      /\ Append(s, e)[Len(s) + 1] = e
  OBVIOUS
<1>2. ASSUME NEW u
      PROVE  u \in Range(Append(s, e)) <=> u \in Range(s) \/ u = e
  BY <1>1 DEF Range
<1>3. IsInjective(s) /\ e \notin Range(s) => IsInjective(Append(s, e))
  <2>1. DOMAIN s = 1 .. Len(s) /\ DOMAIN Append(s, e) = 1 .. Len(s) + 1
    BY <1>1
  <2> QED  BY <1>1, <2>1 DEF Range, IsInjective
<1> QED  BY <1>1, <1>2, <1>3

(* What PriorityQueue::dequeue does to a queue without duplicates.         *)
LEMMA TailElements ==
    ASSUME NEW S, NEW s \in Seq(S), s # <<>>, IsInjective(s)
    PROVE  /\ Head(s) \in S
           /\ Tail(s) \in Seq(S)
           /\ Head(s) \in Range(s)
           /\ \A u : u \in Range(Tail(s)) <=> u \in Range(s) /\ u # Head(s)
           /\ IsInjective(Tail(s))
<1>1. /\ Tail(s) \in Seq(S)
      /\ Len(s) \in Nat /\ Len(s) >= 1
      /\ Len(Tail(s)) = Len(s) - 1
      /\ \A i \in 1 .. Len(s) - 1 : Tail(s)[i] = s[i + 1]
      /\ Head(s) = s[1]
      /\ DOMAIN s = 1 .. Len(s) /\ DOMAIN Tail(s) = 1 .. Len(s) - 1
  OBVIOUS
<1>2. Head(s) \in S /\ Head(s) \in Range(s)
  BY <1>1 DEF Range
<1>3. ASSUME NEW u
      PROVE  u \in Range(Tail(s)) <=> u \in Range(s) /\ u # Head(s)
  <2>1. ASSUME u \in Range(Tail(s))
        PROVE  u \in Range(s) /\ u # Head(s)
    <3>1. PICK i \in 1 .. Len(s) - 1 : s[i + 1] = u
      BY <1>1, <2>1 DEF Range
    <3> QED  BY <1>1, <3>1 DEF Range, IsInjective
  <2>2. ASSUME u \in Range(s), u # Head(s)
        PROVE  u \in Range(Tail(s))
    <3>1. PICK i \in 1 .. Len(s) : s[i] = u
      BY <2>2 DEF Range
    <3>2. i - 1 \in 1 .. Len(s) - 1 /\ Tail(s)[i - 1] = u
      BY <1>1, <2>2, <3>1
    <3> QED  BY <1>1, <3>2 DEF Range
  <2> QED  BY <2>1, <2>2
<1>4. IsInjective(Tail(s))
  BY <1>1 DEF IsInjective
<1> QED  BY <1>1, <1>2, <1>3, <1>4

(* An enqueue of a thread that is in no queue, as the invariant sees it.   *)
LEMMA EnqueueEffect ==
    ASSUME queue \in [Queues -> Seq(Thread)],
           \A r \in Queues : IsInjective(queue[r]),
           NEW q \in Queues, NEW t \in Thread, ~InQueue(q, t), Enqueue(q, t)
    PROVE  /\ queue' \in [Queues -> Seq(Thread)]
           /\ \A r \in Queues : IsInjective(queue'[r])
           /\ \A r \in Queues, u \in Thread :
                 u \in Range(queue'[r]) <=> u \in Range(queue[r]) \/ (r = q /\ u = t)
<1>1. queue[q] \in Seq(Thread) /\ IsInjective(queue[q]) /\ t \notin Range(queue[q])
  BY DEF InQueue
<1>2. /\ Append(queue[q], t) \in Seq(Thread)
      /\ IsInjective(Append(queue[q], t))
      /\ \A u : u \in Range(Append(queue[q], t)) <=> u \in Range(queue[q]) \/ u = t
  BY <1>1, AppendElements
<1>3. queue' = [queue EXCEPT ![q] = Append(queue[q], t)]
  BY DEF Enqueue
<1> QED  BY <1>1, <1>2, <1>3

(* A dequeue from a queue that is not empty, as the invariant sees it.     *)
LEMMA DequeueEffect ==
    ASSUME queue \in [Queues -> Seq(Thread)],
           \A r \in Queues : IsInjective(queue[r]),
           NEW q \in Queues, queue[q] # <<>>, Dequeue(q)
    PROVE  /\ Head(queue[q]) \in Thread
           /\ Head(queue[q]) \in Range(queue[q])
           /\ queue' \in [Queues -> Seq(Thread)]
           /\ \A r \in Queues : IsInjective(queue'[r])
           /\ \A r \in Queues, u \in Thread :
                 u \in Range(queue'[r]) <=> u \in Range(queue[r]) /\ ~(r = q /\ u = Head(queue[q]))
<1>1. queue[q] \in Seq(Thread) /\ IsInjective(queue[q])
  OBVIOUS
<1>2. /\ Head(queue[q]) \in Thread /\ Head(queue[q]) \in Range(queue[q])
      /\ Tail(queue[q]) \in Seq(Thread) /\ IsInjective(Tail(queue[q]))
      /\ \A u : u \in Range(Tail(queue[q])) <=> u \in Range(queue[q]) /\ u # Head(queue[q])
  BY <1>1, TailElements
<1>3. queue' = [queue EXCEPT ![q] = Tail(queue[q])]
  BY DEF Dequeue
<1> QED  BY <1>1, <1>2, <1>3

LEMMA IInvInit == Init => IInv
<1> SUFFICES ASSUME Init PROVE IInv
  OBVIOUS
<1> USE SchedulerAssumption DEF Init, IdleThread, Queues
<1>1. \A u : u \in Range(queue["blocked"]) <=> FALSE
  BY DEF Range
<1>2. \A u : u \in Range(queue["idle"]) <=> FALSE
  BY DEF Range
<1>3. \A u : u \in Range(queue["normal"]) <=> u = KernelInit
  BY DEF Range
<1>4. TypeOK
  BY DEF TypeOK, Labels, States
<1>5. CpuFields
  BY DEF CpuFields, CpuOK, Online
<1>6. QueueKinds
  BY <1>1, <1>2, <1>3 DEF QueueKinds, InQueue
<1>7. LiveStates
  BY <1>1, <1>2, <1>3 DEF LiveStates, InQueue
<1>8. OnePlace
  <2>1. \A q \in Queues : IsInjective(queue[q])
    BY DEF IsInjective
  <2> QED  BY <1>1, <1>2, <1>3, <2>1 DEF OnePlace, Held, InQueue
<1>9. NoThreadForgotten
  BY <1>1, <1>2, <1>3 DEF NoThreadForgotten, Held, InQueue
<1>10. AlwaysSomethingToSchedule
  BY DEF AlwaysSomethingToSchedule
<1> QED  BY <1>4, <1>5, <1>6, <1>7, <1>8, <1>9, <1>10 DEF IInv

(* A CPU that scans the idle queue has neither its own idle thread nor any *)
(* other, so the idle threads of the CPUs that are online cannot all be    *)
(* held by the CPUs that remain: one is still in the queue.                *)
LEMMA IdleQueueNotEmpty ==
    ASSUME IInv, NEW c \in Cpu, pc[c] = "scan_idle"
    PROVE  queue["idle"] # <<>>
<1> SUFFICES ASSUME queue["idle"] = <<>> PROVE FALSE
  OBVIOUS
<1>1. c \in Online /\ Held(c) = None
  BY DEF IInv, CpuFields, CpuOK, Online, Held
<1>2. \A d \in Online : \E h \in Online \ {c} : Held(h) = IdleOf[d]
  <2> SUFFICES ASSUME NEW d \in Online
               PROVE  \E h \in Online \ {c} : Held(h) = IdleOf[d]
    OBVIOUS
  <2>1. IdleOf[d] \in IdleThread /\ IdleOf[d] \in Thread /\ state[IdleOf[d]] = "Alive"
    BY SchedulerAssumption DEF IInv, CpuFields, CpuOK, Online, IdleThread
  <2>2. \A q \in Queues : ~InQueue(q, IdleOf[d])
    <3>1. ~InQueue("idle", IdleOf[d])
      BY DEF InQueue, Range
    <3> QED  BY <2>1, <3>1 DEF IInv, QueueKinds, Queues
  <2>3. PICK h \in Cpu : Held(h) = IdleOf[d]
    BY <2>1, <2>2 DEF IInv, NoThreadForgotten
  <2>4. IdleOf[d] # None
    BY <2>1, SchedulerAssumption
  <2>5. h \in Online
    BY <2>3, <2>4 DEF IInv, CpuFields, CpuOK, Held, Online
  <2> QED  BY <1>1, <2>3, <2>4, <2>5
<1> DEFINE f == [d \in Online |-> CHOOSE h \in Online \ {c} : Held(h) = IdleOf[d]]
<1>3. f \in [Online -> Online \ {c}] /\ \A d \in Online : Held(f[d]) = IdleOf[d]
  BY <1>2
<1>4. IsFiniteSet(Online) /\ IsFiniteSet(Online \ {c})
      /\ Cardinality(Online \ {c}) < Cardinality(Online)
  <2>1. Online \in SUBSET Cpu
    BY DEF Online
  <2>2. IsFiniteSet(Online)
    BY <2>1, FS_Subset, SchedulerAssumption
  <2>3. IsFiniteSet(Online \ {c}) /\ Cardinality(Online \ {c}) = Cardinality(Online) - 1
    BY <1>1, <2>2, FS_RemoveElement
  <2>4. Cardinality(Online) \in Nat
    BY <2>2, FS_CardinalityType
  <2> QED  BY <2>2, <2>3, <2>4
<1>5. PICK x, y \in Online : x # y /\ f[x] = f[y]
  <2> HIDE DEF f
  <2> QED  BY <1>3, <1>4, FS_PigeonHole
<1>6. IdleOf[x] = IdleOf[y]
  BY <1>3, <1>5
<1> QED  BY <1>5, <1>6, SchedulerAssumption DEF Online

(* The places threads are in, and how the steps of a CPU move them.  First *)
(* the steps that move none.                                               *)
LEMMA PlacesKept ==
    ASSUME OnePlace, NoThreadForgotten, queue' = queue,
           \A d \in Cpu : Held(d)' = Held(d),
           \A t \in Thread : state'[t] \in {"Alive", "Blocked"} => state[t] \in {"Alive", "Blocked"}
    PROVE  OnePlace' /\ NoThreadForgotten'
BY DEF OnePlace, NoThreadForgotten, InQueue

(* A thread, from a CPU or newly created, is put in a queue. *)
LEMMA PlacesPut ==
    ASSUME OnePlace, NoThreadForgotten, TypeOK,
           NEW q \in Queues, NEW t \in Thread, \A r \in Queues : ~InQueue(r, t),
           Enqueue(q, t),
           \A d \in Cpu : Held(d)' = IF Held(d) = t THEN None ELSE Held(d),
           \A d \in Cpu : Held(d) \in Thread \cup {None},
           \A u \in Thread \ {t} :
              state'[u] \in {"Alive", "Blocked"} => state[u] \in {"Alive", "Blocked"}
    PROVE  OnePlace' /\ NoThreadForgotten'
<1>1. /\ \A r \in Queues : IsInjective(queue'[r])
      /\ \A r \in Queues, u \in Thread :
            u \in Range(queue'[r]) <=> u \in Range(queue[r]) \/ (r = q /\ u = t)
  BY EnqueueEffect DEF OnePlace, TypeOK
<1>2. \A r \in Queues, u \in Thread : InQueue(r, u)' <=> InQueue(r, u) \/ (r = q /\ u = t)
  BY <1>1 DEF InQueue
<1>3. NoThreadForgotten'
  BY <1>2 DEF NoThreadForgotten
<1>4. OnePlace'
  BY <1>1, <1>2 DEF OnePlace
<1> QED  BY <1>3, <1>4

(* A CPU that has no thread takes one from a queue. *)
LEMMA PlacesTake ==
    ASSUME OnePlace, NoThreadForgotten, TypeOK,
           NEW q \in Queues, queue[q] # <<>>, Dequeue(q),
           NEW c \in Cpu, Held(c) = None,
           \A d \in Cpu : Held(d)' = IF d = c THEN Head(queue[q]) ELSE Held(d),
           \A d \in Cpu : Held(d) \in Thread \cup {None},
           state' = state
    PROVE  OnePlace' /\ NoThreadForgotten'
<1> DEFINE t == Head(queue[q])
<1>1. /\ t \in Thread /\ InQueue(q, t)
      /\ \A r \in Queues : IsInjective(queue'[r])
      /\ \A r \in Queues, u \in Thread :
            u \in Range(queue'[r]) <=> u \in Range(queue[r]) /\ ~(r = q /\ u = t)
  BY DequeueEffect DEF OnePlace, TypeOK, InQueue
<1> HIDE DEF t
<1>2. \A r \in Queues, u \in Thread : InQueue(r, u)' <=> InQueue(r, u) /\ ~(r = q /\ u = t)
  BY <1>1 DEF InQueue
<1>3. \A d \in Cpu : Held(d)' = IF d = c THEN t ELSE Held(d)
  BY DEF t
<1>4. NoThreadForgotten'
  <2> SUFFICES ASSUME NEW u \in Thread, state[u] \in {"Alive", "Blocked"}
               PROVE  (\E r \in Queues : InQueue(r, u)') \/ (\E d \in Cpu : Held(d)' = u)
    BY DEF NoThreadForgotten
  <2>1. CASE u = t
    BY <1>3, <2>1
  <2>2. CASE u # t
    BY <1>2, <1>3, <2>2, SchedulerAssumption DEF NoThreadForgotten
  <2> QED  BY <2>1, <2>2
<1>5. OnePlace'
  BY <1>1, <1>2, <1>3 DEF OnePlace
<1> QED  BY <1>4, <1>5

(* The two kinds of threads, with their sets kept opaque. *)
LEMMA ThreadKinds ==
    /\ None \notin Thread
    /\ \A t \in Thread : t \in NormalThread <=> t \notin IdleThread
    /\ \A t \in NormalThread : t \in Thread
    /\ \A t \in IdleThread : t \in Thread
    /\ \A c \in Cpu : IdleOf[c] \in IdleThread
    /\ \A c, d \in Cpu : IdleOf[c] = IdleOf[d] => c = d
    /\ KernelInit \in NormalThread
    /\ Waitable \subseteq Thread
BY SchedulerAssumption DEF IdleThread

(* The thread a CPU is responsible for, by where the CPU is. *)
LEMMA HeldThread ==
    ASSUME IInv, NEW c \in Cpu
    PROVE  /\ Held(c) \in Thread \cup {None}
           /\ pc[c] \in {"running", "requeue"} => Held(c) = current[c] /\ current[c] \in Thread
           /\ pc[c] \in {"drained", "check", "reblock", "finish"} => Held(c) = hand[c] /\ hand[c] \in Thread
           /\ pc[c] \in {"off", "starting", "drain", "scan_normal", "scan_idle"} => Held(c) = None
BY ThreadKinds DEF IInv, TypeOK, CpuFields, CpuOK, Online, Held

(* It is in no queue, and no other CPU holds it. *)
LEMMA HeldAlone ==
    ASSUME IInv, NEW c \in Cpu, NEW t \in Thread, Held(c) = t
    PROVE  /\ \A r \in Queues : ~InQueue(r, t)
           /\ \A d \in Cpu \ {c} : /\ Held(d) # t
                                   /\ hand[d] # t
                                   /\ pc[d] \in {"running", "requeue"} => current[d] # t
<1>1. t # None
  BY ThreadKinds
<1>2. (\A r \in Queues : ~InQueue(r, t)) /\ \A d \in Cpu \ {c} : Held(d) # t
  BY <1>1 DEF IInv, OnePlace
<1>3. \A d \in Cpu \ {c} : hand[d] # t /\ (pc[d] \in {"running", "requeue"} => current[d] # t)
  BY <1>1, <1>2 DEF IInv, CpuFields, CpuOK, Held
<1> QED  BY <1>2, <1>3

(* Where the threads that the fields of a CPU name come from. *)
LEMMA CpuThreads ==
    ASSUME IInv
    PROVE  \A d \in Cpu : /\ pc[d] \in {"running", "requeue"} => current[d] \in Thread
                          /\ hand[d] \in Thread \cup {None}
                          /\ pc[d] = "finish" => hand[d] \in Thread
<1>1. \A d \in Cpu : hand[d] \in Thread \cup {None}
  BY DEF IInv, TypeOK
<1> QED  BY <1>1, HeldThread

(* Which states threads have by where they are. *)
LEMMA BornThreads ==
    ASSUME IInv
    PROVE  /\ \A r \in Queues, u \in Thread : InQueue(r, u) => state[u] \in {"Alive", "Blocked"}
           /\ \A d \in Cpu : hand[d] # None => state[hand[d]] \in {"Alive", "Blocked"}
           /\ \A d \in Cpu : pc[d] \in {"running", "requeue"} => state[current[d]] # "Unborn"
           /\ \A u \in freed : state[u] = "Dead"
<1>1. \A d \in Cpu : pc[d] = "running" => state[current[d]] = "Alive"
  BY DEF IInv, CpuFields, CpuOK
<1>2. \A d \in Cpu : pc[d] = "requeue" => state[current[d]] # "Unborn"
  BY DEF IInv, LiveStates
<1> QED  BY <1>1, <1>2 DEF IInv, LiveStates

(* IInv without the types: what a step of the scheduler has to keep. *)
Shape == /\ CpuFields /\ QueueKinds /\ LiveStates
         /\ OnePlace /\ NoThreadForgotten /\ AlwaysSomethingToSchedule

(* A step of CPU c leaves the fields of the other CPUs alone. *)
LEMMA CpuFieldsStep ==
    ASSUME CpuFields, NEW c \in Cpu,
           \A d \in Cpu \ {c} :
              /\ pc'[d] = pc[d] /\ current'[d] = current[d] /\ hand'[d] = hand[d]
              /\ state'[IdleOf[d]] = state[IdleOf[d]]
              /\ pc[d] = "finish" => state'[hand[d]] = state[hand[d]]
              /\ pc[d] = "running" => state'[current[d]] = state[current[d]],
           CpuOK(c)'
    PROVE  CpuFields'
<1> SUFFICES ASSUME NEW d \in Cpu \ {c}
             PROVE  CpuOK(d)'
  BY DEF CpuFields
<1>1. CpuOK(d)
  BY DEF CpuFields
<1> QED  BY <1>1 DEF CpuOK, Online

(* The steps of a CPU that change neither queues nor threads. *)
LEMMA QuietStep ==
    ASSUME IInv, NEW c \in Cpu,
           UNCHANGED <<current, hand, queue, state, freed>>,
           \A d \in Cpu \ {c} : pc'[d] = pc[d],
           CpuOK(c)', Held(c)' = Held(c), pc'[c] # "panic",
           pc'[c] = "requeue" => state[current[c]] # "Unborn"
    PROVE  Shape'
<1>1. CpuFields'
  BY CpuFieldsStep DEF IInv
<1>2. \A d \in Cpu : Held(d)' = Held(d)
  BY DEF Held
<1>3. OnePlace' /\ NoThreadForgotten'
  BY <1>2, PlacesKept DEF IInv
<1>4. QueueKinds'
  BY DEF IInv, QueueKinds, InQueue
<1>5. LiveStates'
  BY DEF IInv, LiveStates, InQueue
<1>6. AlwaysSomethingToSchedule'
  BY DEF IInv, AlwaysSomethingToSchedule
<1> QED  BY <1>1, <1>3, <1>4, <1>5, <1>6 DEF Shape

(* The steps with which a thread leaves its CPU blocked or dead. *)
LEMMA LeaveStep ==
    ASSUME IInv, NEW c \in Cpu, pc[c] = "running", current[c] \in NormalThread,
           UNCHANGED <<current, hand, queue, freed>>,
           \A d \in Cpu \ {c} : pc'[d] = pc[d],
           pc'[c] = "requeue", state'[current[c]] \in {"Blocked", "Dead"},
           \A u \in Thread \ {current[c]} : state'[u] = state[u]
    PROVE  Shape'
<1>1. /\ current[c] \in Thread /\ Held(c) = current[c] /\ hand[c] = None
      /\ current[c] \notin IdleThread /\ state[current[c]] = "Alive"
  BY HeldThread, ThreadKinds DEF IInv, CpuFields, CpuOK
<1>2. /\ \A r \in Queues : ~InQueue(r, current[c])
      /\ \A d \in Cpu \ {c} : /\ hand[d] # current[c]
                              /\ pc[d] \in {"running", "requeue"} => current[d] # current[c]
  BY <1>1, HeldAlone
<1>3. \A d \in Cpu : /\ pc[d] \in {"running", "requeue"} => current[d] \in Thread
                     /\ hand[d] \in Thread \cup {None}
                     /\ pc[d] = "finish" => hand[d] \in Thread
                     /\ IdleOf[d] \in Thread \ {current[c]}
  BY <1>1, HeldThread, ThreadKinds DEF IInv, TypeOK
<1>4. CpuFields'
  <2>1. CpuOK(c)'
    <3>1. CpuOK(c)
      BY DEF IInv, CpuFields
    <3> QED  BY <1>1, <1>3, <3>1 DEF CpuOK, Online
  <2> QED  BY <1>2, <1>3, <2>1, CpuFieldsStep DEF IInv
<1>5. QueueKinds'
  BY DEF IInv, QueueKinds, InQueue
<1>6. LiveStates'
  <2>1. (\A r \in Queues, u \in Thread : InQueue(r, u) => state[u] \in {"Alive", "Blocked"})'
    BY <1>2 DEF IInv, LiveStates, InQueue
  <2>2. (\A d \in Cpu : hand[d] # None => state[hand[d]] \in {"Alive", "Blocked"})'
    BY <1>1, <1>2, <1>3 DEF IInv, LiveStates
  <2>3. (\A d \in Cpu : pc[d] = "requeue" => state[current[d]] # "Unborn")'
    BY <1>2, <1>3 DEF IInv, LiveStates
  <2>4. (\A u \in freed : state[u] = "Dead")'
    <3>1. current[c] \notin freed /\ freed \subseteq Thread
      BY <1>1 DEF IInv, LiveStates, TypeOK
    <3> QED  BY <3>1 DEF IInv, LiveStates
  <2>5. (\A u \in IdleThread : state[u] \in {"Unborn", "Alive"})'
    BY <1>1, ThreadKinds DEF IInv, LiveStates
  <2> QED  BY <2>1, <2>2, <2>3, <2>4, <2>5 DEF LiveStates
<1>7. OnePlace' /\ NoThreadForgotten'
  <2>1. \A d \in Cpu : Held(d)' = Held(d)
    BY DEF Held
  <2>2. \A u \in Thread : state'[u] \in {"Alive", "Blocked"} => state[u] \in {"Alive", "Blocked"}
    BY <1>1
  <2> QED  BY <2>1, <2>2, PlacesKept DEF IInv
<1>8. AlwaysSomethingToSchedule'
  BY DEF IInv, AlwaysSomethingToSchedule
<1> QED  BY <1>4, <1>5, <1>6, <1>7, <1>8 DEF Shape

(* The steps of a running thread that put a new thread t in its queue.     *)
LEMMA InsertStep ==
    ASSUME IInv, NEW c \in Cpu, NEW t \in NormalThread,
           pc[c] = "running", current[c] \in NormalThread, state[t] = "Unborn",
           UNCHANGED <<current, hand, freed>>, Enqueue("normal", t),
           \A d \in Cpu \ {c} : pc'[d] = pc[d],
           pc'[c] \in {"running", "requeue"},
           state'[t] = "Alive", state'[current[c]] \in {"Alive", "Dead"},
           pc'[c] = "running" => state'[current[c]] = "Alive",
           \A u \in Thread \ {t, current[c]} : state'[u] = state[u]
    PROVE  Shape'
<1>1. /\ current[c] \in Thread /\ Held(c) = current[c] /\ hand[c] = None
      /\ current[c] \notin IdleThread /\ state[current[c]] = "Alive"
      /\ t \in Thread /\ t \notin IdleThread /\ t # current[c]
  BY HeldThread, ThreadKinds DEF IInv, CpuFields, CpuOK
<1>2. /\ \A r \in Queues : ~InQueue(r, current[c])
      /\ \A d \in Cpu \ {c} : /\ hand[d] # current[c]
                              /\ pc[d] \in {"running", "requeue"} => current[d] # current[c]
  BY <1>1, HeldAlone
<1>3. \A d \in Cpu : /\ pc[d] \in {"running", "requeue"} => current[d] \in Thread
                     /\ hand[d] \in Thread \cup {None}
                     /\ pc[d] = "finish" => hand[d] \in Thread
                     /\ IdleOf[d] \in Thread \ {t, current[c]}
  <2>1. \A d \in Cpu : IdleOf[d] \in Thread \ {t, current[c]}
    BY <1>1, ThreadKinds
  <2> QED  BY <2>1, CpuThreads
<1>4. /\ \A r \in Queues : ~InQueue(r, t)
      /\ \A d \in Cpu : hand[d] # t /\ (pc[d] \in {"running", "requeue"} => current[d] # t)
  <2>1. \A r \in Queues : ~InQueue(r, t)
    BY <1>1 DEF IInv, LiveStates
  <2>2. \A d \in Cpu : hand[d] # t
    BY <1>1, ThreadKinds DEF IInv, LiveStates
  <2>3. \A d \in Cpu : pc[d] \in {"running", "requeue"} => current[d] # t
    BY BornThreads
  <2> QED  BY <2>1, <2>2, <2>3
<1>5. "normal" \in Queues /\ \A r \in Queues, u \in Thread :
         InQueue(r, u)' <=> InQueue(r, u) \/ (r = "normal" /\ u = t)
  <2>1. "normal" \in Queues
    BY DEF Queues
  <2> QED  BY <1>1, <1>4, <2>1, EnqueueEffect DEF IInv, TypeOK, OnePlace, InQueue
<1>6. CpuFields'
  <2>1. CpuOK(c)'
    <3>1. CpuOK(c)
      BY DEF IInv, CpuFields
    <3> QED  BY <1>1, <1>3, <3>1 DEF CpuOK, Online
  <2> QED  BY <1>2, <1>3, <1>4, <2>1, CpuFieldsStep DEF IInv
<1>7. QueueKinds'
  BY <1>1, <1>5, ThreadKinds DEF IInv, QueueKinds, Queues
<1>8. LiveStates'
  <2>1. ASSUME NEW r \in Queues, NEW u \in Thread, InQueue(r, u)'
        PROVE  state'[u] \in {"Alive", "Blocked"}
    <3>1. CASE u = t
      BY <3>1
    <3>2. CASE u # t
      <4>1. InQueue(r, u) /\ u # current[c]
        BY <1>2, <1>5, <2>1, <3>2
      <4> QED  BY <3>2, <4>1, BornThreads
    <3> QED  BY <3>1, <3>2
  <2>2. ASSUME NEW d \in Cpu, hand'[d] # None
        PROVE  state'[hand'[d]] \in {"Alive", "Blocked"}
    <3>1. d # c /\ hand[d] \in Thread \ {t, current[c]} /\ hand[d] # None
      BY <1>1, <1>2, <1>3, <1>4, <2>2
    <3> QED  BY <3>1, BornThreads
  <2>3. ASSUME NEW d \in Cpu, pc'[d] = "requeue"
        PROVE  state'[current'[d]] # "Unborn"
    <3>1. CASE d = c
      BY <3>1
    <3>2. CASE d # c
      <4>1. pc[d] = "requeue" /\ current[d] \in Thread \ {t, current[c]}
        BY <1>2, <1>3, <1>4, <2>3, <3>2
      <4> QED  BY <4>1, BornThreads
    <3> QED  BY <3>1, <3>2
  <2>4. (\A u \in freed : state[u] = "Dead")'
    <3>1. freed \subseteq Thread /\ \A u \in freed : state[u] = "Dead"
      BY BornThreads DEF IInv, TypeOK
    <3>2. ASSUME NEW u \in freed
          PROVE  state'[u] = "Dead"
      <4>1. u \in Thread \ {t, current[c]} /\ state[u] = "Dead"
        BY <1>1, <3>1
      <4> QED  BY <4>1
    <3> QED  BY <3>2
  <2>5. (\A u \in IdleThread : state[u] \in {"Unborn", "Alive"})'
    BY <1>1, ThreadKinds DEF IInv, LiveStates
  <2> QED  BY <2>1, <2>2, <2>3, <2>4, <2>5 DEF LiveStates
<1>9. OnePlace' /\ NoThreadForgotten'
  <2>1. \A d \in Cpu : Held(d) # t
    BY <1>4 DEF Held
  <2>2. \A d \in Cpu : Held(d)' = IF Held(d) = t THEN None ELSE Held(d)
    BY <2>1 DEF Held
  <2>3. \A u \in Thread \ {t} :
           state'[u] \in {"Alive", "Blocked"} => state[u] \in {"Alive", "Blocked"}
    BY <1>1
  <2>4. \A d \in Cpu : Held(d) \in Thread \cup {None}
    BY HeldThread
  <2> QED  BY <1>1, <1>4, <1>5, <2>2, <2>3, <2>4, PlacesPut DEF IInv
<1>10. AlwaysSomethingToSchedule'
  BY DEF IInv, AlwaysSomethingToSchedule
<1> QED  BY <1>6, <1>7, <1>8, <1>9, <1>10 DEF Shape

(* The steps of pick_next that take the first thread of a queue.           *)
LEMMA TakeStep ==
    ASSUME IInv, NEW c \in Cpu, NEW q \in Queues, queue[q] # <<>>, Dequeue(q),
           pc[c] \in {"drain", "scan_normal", "scan_idle"},
           UNCHANGED <<current, state, freed>>,
           \A d \in Cpu \ {c} : pc'[d] = pc[d] /\ hand'[d] = hand[d],
           hand'[c] = Head(queue[q]), pc'[c] \in {"drained", "check"},
           pc'[c] = "drained" => q = "blocked"
    PROVE  Shape'
<1> DEFINE t == Head(queue[q])
<1>1. /\ t \in Thread /\ InQueue(q, t)
      /\ \A r \in Queues, u \in Thread : InQueue(r, u)' <=> InQueue(r, u) /\ ~(r = q /\ u = t)
  BY DequeueEffect DEF IInv, TypeOK, OnePlace, InQueue
<1>2. state[t] \in {"Alive", "Blocked"} /\ t # None /\ (q = "blocked" => t \in NormalThread)
  <2>1. q = "blocked" => t \in NormalThread
    BY <1>1, ThreadKinds DEF IInv, QueueKinds
  <2> QED  BY <1>1, <2>1, BornThreads, ThreadKinds
<1>3. hand'[c] = t /\ Held(c) = None
  BY HeldThread
<1>4. \A d \in Cpu : Held(d)' = IF d = c THEN Head(queue[q]) ELSE Held(d)
  BY DEF Held
<1>5. OnePlace' /\ NoThreadForgotten'
  <2>1. \A d \in Cpu : Held(d) \in Thread \cup {None}
    BY HeldThread
  <2> QED  BY <1>3, <1>4, <2>1, PlacesTake DEF IInv
<1> HIDE DEF t
<1>6. CpuFields'
  <2>1. CpuOK(c)'
    <3>1. CpuOK(c)
      BY DEF IInv, CpuFields
    <3> QED  BY <1>2, <1>3, <3>1 DEF CpuOK, Online
  <2> QED  BY <2>1, CpuFieldsStep DEF IInv
<1>7. QueueKinds'
  BY <1>1, ThreadKinds DEF IInv, QueueKinds, Queues
<1>8. LiveStates'
  <2>1. (\A r \in Queues, u \in Thread : InQueue(r, u) => state[u] \in {"Alive", "Blocked"})'
    BY <1>1 DEF IInv, LiveStates
  <2>2. (\A d \in Cpu : hand[d] # None => state[hand[d]] \in {"Alive", "Blocked"})'
    BY <1>2, <1>3 DEF IInv, LiveStates
  <2>3. (\A d \in Cpu : pc[d] = "requeue" => state[current[d]] # "Unborn")'
    BY DEF IInv, LiveStates
  <2>4. (\A u \in freed : state[u] = "Dead")' /\ (\A u \in IdleThread : state[u] \in {"Unborn", "Alive"})'
    BY DEF IInv, LiveStates
  <2> QED  BY <2>1, <2>2, <2>3, <2>4 DEF LiveStates
<1>9. AlwaysSomethingToSchedule'
  BY DEF IInv, AlwaysSomethingToSchedule
<1> QED  BY <1>5, <1>6, <1>7, <1>8, <1>9 DEF Shape

(* The steps of pick_next that put the thread they hold in a queue.        *)
LEMMA PutStep ==
    ASSUME IInv, NEW c \in Cpu, NEW q \in {"blocked", "normal"},
           pc[c] \in {"drained", "reblock"}, Enqueue(q, hand[c]),
           UNCHANGED <<current, state, freed>>,
           \A d \in Cpu \ {c} : pc'[d] = pc[d] /\ hand'[d] = hand[d],
           hand'[c] = None, pc'[c] \in {"drain", "scan_normal"}
    PROVE  Shape'
<1>1. /\ hand[c] \in NormalThread /\ hand[c] \in Thread /\ hand[c] \notin IdleThread
      /\ Held(c) = hand[c] /\ q \in Queues
  BY HeldThread, ThreadKinds DEF IInv, CpuFields, CpuOK, Queues
<1>2. /\ state[hand[c]] \in {"Alive", "Blocked"}
      /\ \A r \in Queues : ~InQueue(r, hand[c])
      /\ \A d \in Cpu \ {c} : Held(d) # hand[c]
  <2>1. state[hand[c]] \in {"Alive", "Blocked"}
    BY <1>1, ThreadKinds, BornThreads
  <2> QED  BY <1>1, <2>1, HeldAlone
<1>3. \A r \in Queues, u \in Thread : InQueue(r, u)' <=> InQueue(r, u) \/ (r = q /\ u = hand[c])
  BY <1>1, <1>2, EnqueueEffect DEF IInv, TypeOK, OnePlace, InQueue
<1>4. CpuFields'
  <2>1. CpuOK(c)'
    <3>1. CpuOK(c)
      BY DEF IInv, CpuFields
    <3> QED  BY <3>1 DEF CpuOK, Online
  <2> QED  BY <2>1, CpuFieldsStep DEF IInv
<1>5. QueueKinds'
  BY <1>1, <1>3, ThreadKinds DEF IInv, QueueKinds, Queues
<1>6. LiveStates'
  <2>1. (\A r \in Queues, u \in Thread : InQueue(r, u) => state[u] \in {"Alive", "Blocked"})'
    BY <1>2, <1>3 DEF IInv, LiveStates
  <2>2. (\A d \in Cpu : hand[d] # None => state[hand[d]] \in {"Alive", "Blocked"})'
    BY DEF IInv, LiveStates
  <2>3. (\A d \in Cpu : pc[d] = "requeue" => state[current[d]] # "Unborn")'
    BY DEF IInv, LiveStates
  <2>4. (\A u \in freed : state[u] = "Dead")' /\ (\A u \in IdleThread : state[u] \in {"Unborn", "Alive"})'
    BY DEF IInv, LiveStates
  <2> QED  BY <2>1, <2>2, <2>3, <2>4 DEF LiveStates
<1>7. OnePlace' /\ NoThreadForgotten'
  <2>1. \A d \in Cpu : Held(d)' = IF Held(d) = hand[c] THEN None ELSE Held(d)
    <3>1. \A d \in Cpu \ {c} : Held(d)' = Held(d)
      BY DEF Held
    <3>2. Held(c)' = None
      BY DEF Held
    <3> QED  BY <1>1, <1>2, <3>1, <3>2
  <2>2. \A d \in Cpu : Held(d) \in Thread \cup {None}
    BY HeldThread
  <2> QED  BY <1>1, <1>2, <2>1, <2>2, PlacesPut DEF IInv
<1>8. AlwaysSomethingToSchedule'
  BY DEF IInv, AlwaysSomethingToSchedule
<1> QED  BY <1>4, <1>5, <1>6, <1>7, <1>8 DEF Shape

(* sched_start brings CPU c and its idle thread into being. *)
LEMMA StartStep ==
    ASSUME IInv, NEW c \in Cpu, pc[c] = "starting",
           UNCHANGED <<hand, queue, freed>>,
           \A d \in Cpu \ {c} : pc'[d] = pc[d] /\ current'[d] = current[d],
           pc'[c] = "running", current'[c] = IdleOf[c], state'[IdleOf[c]] = "Alive",
           \A u \in Thread \ {IdleOf[c]} : state'[u] = state[u]
    PROVE  Shape'
<1>1. /\ state[IdleOf[c]] = "Unborn" /\ IdleOf[c] \in Thread /\ IdleOf[c] \in IdleThread
      /\ Held(c) = None /\ hand[c] = None
  BY HeldThread, ThreadKinds DEF IInv, CpuFields, CpuOK
<1>2. /\ \A r \in Queues : ~InQueue(r, IdleOf[c])
      /\ \A d \in Cpu : /\ hand[d] # IdleOf[c]
                        /\ pc[d] \in {"running", "requeue"} => current[d] # IdleOf[c]
  <2>1. \A r \in Queues : ~InQueue(r, IdleOf[c])
    BY <1>1 DEF IInv, LiveStates
  <2>2. \A d \in Cpu : hand[d] # IdleOf[c]
    BY <1>1, ThreadKinds DEF IInv, LiveStates
  <2>3. \A d \in Cpu : pc[d] \in {"running", "requeue"} => current[d] # IdleOf[c]
    BY <1>1, BornThreads
  <2> QED  BY <2>1, <2>2, <2>3
<1>3. \A d \in Cpu : /\ pc[d] \in {"running", "requeue"} => current[d] \in Thread
                     /\ hand[d] \in Thread \cup {None}
                     /\ pc[d] = "finish" => hand[d] \in Thread
  BY HeldThread DEF IInv, TypeOK
<1>4. \A d \in Cpu \ {c} : IdleOf[d] \in Thread \ {IdleOf[c]}
  BY ThreadKinds
<1>5. CpuFields'
  <2>1. CpuOK(c)'
    BY <1>1 DEF CpuOK, Online
  <2> QED  BY <1>2, <1>3, <1>4, <2>1, CpuFieldsStep DEF IInv
<1>6. QueueKinds'
  BY DEF IInv, QueueKinds, InQueue
<1>7. LiveStates'
  <2>1. (\A r \in Queues, u \in Thread : InQueue(r, u) => state[u] \in {"Alive", "Blocked"})'
    BY <1>2 DEF IInv, LiveStates, InQueue
  <2>2. (\A d \in Cpu : hand[d] # None => state[hand[d]] \in {"Alive", "Blocked"})'
    BY <1>2, <1>3 DEF IInv, LiveStates
  <2>3. (\A d \in Cpu : pc[d] = "requeue" => state[current[d]] # "Unborn")'
    BY <1>2, <1>3 DEF IInv, LiveStates
  <2>4. (\A u \in freed : state[u] = "Dead")'
    <3>1. IdleOf[c] \notin freed /\ freed \subseteq Thread
      BY <1>1 DEF IInv, LiveStates, TypeOK
    <3> QED  BY <3>1 DEF IInv, LiveStates
  <2>5. (\A u \in IdleThread : state[u] \in {"Unborn", "Alive"})'
    BY ThreadKinds DEF IInv, LiveStates
  <2> QED  BY <2>1, <2>2, <2>3, <2>4, <2>5 DEF LiveStates
<1>8. /\ \A d \in Cpu \ {c} : Held(d)' = Held(d) /\ Held(d) # IdleOf[c]
      /\ Held(c)' = IdleOf[c] /\ IdleOf[c] # None
  BY <1>1, <1>2, ThreadKinds DEF Held
<1>9. OnePlace'
  <2>1. \A r \in Queues, u \in Thread : InQueue(r, u)' <=> InQueue(r, u)
    BY DEF InQueue
  <2>2. ASSUME NEW d \in Cpu, NEW e \in Cpu, Held(d)' = Held(e)', Held(d)' # None
        PROVE  d = e
    <3>1. \A x, y \in Cpu : Held(x) = Held(y) /\ Held(x) # None => x = y
      BY DEF IInv, OnePlace
    <3>2. CASE d # c /\ e # c
      BY <1>8, <2>2, <3>1, <3>2
    <3>3. CASE d = c \/ e = c
      BY <1>8, <2>2, <3>3
    <3> QED  BY <3>2, <3>3
  <2>3. ASSUME NEW d \in Cpu, NEW r \in Queues, Held(d)' # None
        PROVE  ~InQueue(r, Held(d))'
    <3>1. ~InQueue(r, Held(d)')
      BY <1>2, <1>8, <2>3 DEF IInv, OnePlace
    <3> QED  BY <3>1 DEF InQueue
  <2> QED  BY <2>1, <2>2, <2>3 DEF IInv, OnePlace
<1>10. NoThreadForgotten'
  <2> SUFFICES ASSUME NEW u \in Thread, state'[u] \in {"Alive", "Blocked"}
               PROVE  (\E r \in Queues : InQueue(r, u)) \/ (\E d \in Cpu : Held(d)' = u)
    BY DEF NoThreadForgotten, InQueue
  <2>1. CASE u = IdleOf[c]
    BY <1>8, <2>1
  <2>2. CASE u # IdleOf[c]
    <3>1. (\E r \in Queues : InQueue(r, u)) \/ (\E d \in Cpu : Held(d) = u)
      BY <2>2 DEF IInv, NoThreadForgotten
    <3>2. ASSUME NEW d \in Cpu, Held(d) = u
          PROVE  Held(d)' = u
      <4>1. d # c
        BY <1>1, <3>2, ThreadKinds
      <4> QED  BY <1>8, <3>2, <4>1
    <3> QED  BY <3>1, <3>2
  <2> QED  BY <2>1, <2>2
<1>11. AlwaysSomethingToSchedule'
  BY DEF IInv, AlwaysSomethingToSchedule
<1> QED  BY <1>5, <1>6, <1>7, <1>9, <1>10, <1>11 DEF Shape

(* switch_next puts back the thread that was running, or drops a dead one. *)
LEMMA RequeueStep ==
    ASSUME IInv, NEW c \in Cpu, pc[c] = "requeue",
           UNCHANGED <<current, hand, state, freed>>,
           \A d \in Cpu \ {c} : pc'[d] = pc[d], pc'[c] = "drain",
           IF state[current[c]] # "Dead" THEN Enqueue(QueueOf(current[c]), current[c])
                                         ELSE UNCHANGED queue
    PROVE  Shape'
<1>1. /\ current[c] \in Thread /\ Held(c) = current[c] /\ hand[c] = None
      /\ state[current[c]] # "Unborn" /\ QueueOf(current[c]) \in Queues
  BY HeldThread DEF IInv, CpuFields, CpuOK, LiveStates, QueueOf, Queues
<1>2. /\ \A r \in Queues : ~InQueue(r, current[c])
      /\ \A d \in Cpu \ {c} : Held(d) # current[c]
  BY <1>1, HeldAlone
<1>3. CpuFields'
  <2>1. CpuOK(c)'
    <3>1. CpuOK(c)
      BY DEF IInv, CpuFields
    <3> QED  BY <3>1 DEF CpuOK, Online
  <2> QED  BY <2>1, CpuFieldsStep DEF IInv
<1>4. AlwaysSomethingToSchedule'
  BY DEF IInv, AlwaysSomethingToSchedule
<1>5. /\ \A d \in Cpu \ {c} : Held(d)' = Held(d)
      /\ Held(c)' = None
  BY <1>1 DEF Held
<1>6. CASE state[current[c]] = "Dead"
  <2>1. queue' = queue
    BY <1>6
  <2>2. QueueKinds'
    BY <2>1 DEF IInv, QueueKinds, InQueue
  <2>3. LiveStates'
    BY <2>1 DEF IInv, LiveStates, InQueue
  <2>4. OnePlace'
    <3>1. ASSUME NEW d \in Cpu, Held(d)' # None
          PROVE  Held(d)' = Held(d) /\ d # c
      BY <1>5, <3>1
    <3>2. (\A r \in Queues : IsInjective(queue[r]))'
      BY <2>1 DEF IInv, OnePlace
    <3>3. (\A q, r \in Queues, u \in Thread : InQueue(q, u) /\ InQueue(r, u) => q = r)'
      BY <2>1 DEF IInv, OnePlace, InQueue
    <3>4. \A d, e \in Cpu : Held(d)' = Held(e)' /\ Held(d)' # None => d = e
      BY <3>1 DEF IInv, OnePlace
    <3>5. \A d \in Cpu : Held(d)' # None => \A r \in Queues : ~InQueue(r, Held(d))'
      <4> SUFFICES ASSUME NEW d \in Cpu, Held(d)' # None, NEW r \in Queues
                   PROVE  ~InQueue(r, Held(d))'
        OBVIOUS
      <4>1. ~InQueue(r, Held(d)) /\ Held(d)' = Held(d)
        BY <3>1 DEF IInv, OnePlace
      <4> QED  BY <2>1, <4>1 DEF InQueue
    <3> QED  BY <3>2, <3>3, <3>4, <3>5 DEF OnePlace
  <2>5. NoThreadForgotten'
    BY <1>1, <1>5, <1>6, <2>1 DEF IInv, NoThreadForgotten, InQueue
  <2> QED  BY <1>3, <1>4, <2>2, <2>3, <2>4, <2>5 DEF Shape
<1>7. CASE state[current[c]] # "Dead"
  <2>1. Enqueue(QueueOf(current[c]), current[c]) /\ state[current[c]] \in {"Alive", "Blocked"}
    <3>1. state[current[c]] \in States
      BY <1>1 DEF IInv, TypeOK
    <3> QED  BY <1>1, <1>7, <3>1 DEF States
  <2>2. \A r \in Queues, u \in Thread :
           InQueue(r, u)' <=> InQueue(r, u) \/ (r = QueueOf(current[c]) /\ u = current[c])
    BY <1>1, <1>2, <2>1, EnqueueEffect DEF IInv, TypeOK, OnePlace, InQueue
  <2>3. QueueKinds'
    <3>1. /\ current[c] \in IdleThread => QueueOf(current[c]) = "idle"
          /\ current[c] \notin IdleThread => QueueOf(current[c]) = "normal"
      BY DEF QueueOf
    <3>2. \A u \in IdleThread : u \in Thread
      BY ThreadKinds
    <3> QED  BY <1>1, <2>2, <3>1, <3>2 DEF IInv, QueueKinds, Queues
  <2>4. LiveStates'
    <3>1. (\A r \in Queues, u \in Thread : InQueue(r, u) => state[u] \in {"Alive", "Blocked"})'
      BY <2>1, <2>2 DEF IInv, LiveStates
    <3>2. (\A d \in Cpu : pc[d] = "requeue" => state[current[d]] # "Unborn")'
      BY DEF IInv, LiveStates
    <3>3. /\ (\A d \in Cpu : hand[d] # None => state[hand[d]] \in {"Alive", "Blocked"})'
          /\ (\A u \in freed : state[u] = "Dead")'
          /\ (\A u \in IdleThread : state[u] \in {"Unborn", "Alive"})'
      BY DEF IInv, LiveStates
    <3> QED  BY <3>1, <3>2, <3>3 DEF LiveStates
  <2>5. OnePlace' /\ NoThreadForgotten'
    <3>1. \A d \in Cpu : Held(d)' = IF Held(d) = current[c] THEN None ELSE Held(d)
      BY <1>1, <1>2, <1>5
    <3>2. \A d \in Cpu : Held(d) \in Thread \cup {None}
      BY HeldThread
    <3> QED  BY <1>1, <1>2, <2>1, <3>1, <3>2, PlacesPut DEF IInv
  <2> QED  BY <1>3, <1>4, <2>3, <2>4, <2>5 DEF Shape
<1> QED  BY <1>6, <1>7

(* pick_next looks at the thread it has taken and may unblock it. *)
LEMMA CheckStep ==
    ASSUME IInv, NEW c \in Cpu, pc[c] = "check",
           UNCHANGED <<current, hand, queue, freed>>,
           \A d \in Cpu \ {c} : pc'[d] = pc[d], pc'[c] \in {"finish", "reblock"},
           \A u \in Thread \ {hand[c]} : state'[u] = state[u],
           state'[hand[c]] \in {"Alive", "Blocked"},
           state[hand[c]] = "Alive" => state'[hand[c]] = "Alive",
           pc'[c] = "finish" <=> state'[hand[c]] = "Alive"
    PROVE  Shape'
<1>1. /\ hand[c] \in Thread /\ Held(c) = hand[c] /\ hand[c] # None
      /\ state[hand[c]] \in {"Alive", "Blocked"}
  <2>1. hand[c] \in Thread /\ Held(c) = hand[c] /\ hand[c] # None
    BY HeldThread, ThreadKinds
  <2> QED  BY <2>1, BornThreads
<1>2. /\ \A r \in Queues : ~InQueue(r, hand[c])
      /\ \A d \in Cpu \ {c} : /\ hand[d] # hand[c]
                              /\ pc[d] \in {"running", "requeue"} => current[d] # hand[c]
  BY <1>1, HeldAlone
<1>3. \A d \in Cpu : /\ pc[d] \in {"running", "requeue"} => current[d] \in Thread
                     /\ hand[d] \in Thread \cup {None}
                     /\ pc[d] = "finish" => hand[d] \in Thread
                     /\ IdleOf[d] \in Thread /\ IdleOf[d] \in IdleThread
  BY HeldThread, ThreadKinds DEF IInv, TypeOK
<1>4. \A u \in IdleThread : state'[u] = state[u] /\ (u = hand[c] => state[u] = "Alive")
  BY <1>1, ThreadKinds DEF IInv, LiveStates
<1>5. hand[c] \in IdleThread => pc'[c] = "finish"
  BY <1>1, <1>4
<1>6. CpuFields'
  <2>1. CpuOK(c)'
    <3>1. CpuOK(c)
      BY DEF IInv, CpuFields
    <3> QED  BY <1>1, <1>3, <1>4, <1>5, <3>1, ThreadKinds DEF CpuOK, Online
  <2> QED  BY <1>2, <1>3, <1>4, <2>1, CpuFieldsStep DEF IInv
<1>7. QueueKinds'
  BY DEF IInv, QueueKinds, InQueue
<1>8. LiveStates'
  <2>1. (\A r \in Queues, u \in Thread : InQueue(r, u) => state[u] \in {"Alive", "Blocked"})'
    BY <1>2 DEF IInv, LiveStates, InQueue
  <2>2. (\A d \in Cpu : hand[d] # None => state[hand[d]] \in {"Alive", "Blocked"})'
    BY <1>2, <1>3 DEF IInv, LiveStates
  <2>3. ASSUME NEW d \in Cpu, pc'[d] = "requeue"
        PROVE  state'[current'[d]] # "Unborn"
    <3>1. d # c /\ pc[d] = "requeue" /\ current[d] \in Thread \ {hand[c]}
      BY <1>2, <1>3, <2>3
    <3> QED  BY <3>1, BornThreads
  <2>4. (\A u \in freed : state[u] = "Dead")'
    <3>1. hand[c] \notin freed /\ freed \subseteq Thread
      BY <1>1, BornThreads DEF IInv, TypeOK
    <3> QED  BY <3>1, BornThreads
  <2>5. (\A u \in IdleThread : state[u] \in {"Unborn", "Alive"})'
    BY <1>4 DEF IInv, LiveStates
  <2> QED  BY <2>1, <2>2, <2>3, <2>4, <2>5 DEF LiveStates
<1>9. OnePlace' /\ NoThreadForgotten'
  <2>1. \A d \in Cpu : Held(d)' = Held(d)
    BY DEF Held
  <2>2. \A u \in Thread : state'[u] \in {"Alive", "Blocked"} => state[u] \in {"Alive", "Blocked"}
    BY <1>1
  <2> QED  BY <2>1, <2>2, PlacesKept DEF IInv
<1>10. AlwaysSomethingToSchedule'
  BY DEF IInv, AlwaysSomethingToSchedule
<1> QED  BY <1>6, <1>7, <1>8, <1>9, <1>10 DEF Shape

(* switch_next loads the next thread and may delete the one switched from: *)
(* one that is dead, or that has been deleted before.                      *)
LEMMA FinishStep ==
    ASSUME IInv, NEW c \in Cpu, pc[c] = "finish",
           UNCHANGED <<queue, state>>,
           \A d \in Cpu \ {c} : pc'[d] = pc[d] /\ hand'[d] = hand[d] /\ current'[d] = current[d],
           pc'[c] = "running", hand'[c] = None, current'[c] = hand[c],
           freed' \in {freed, freed \cup {current[c]}},
           freed' # freed => state[current[c]] = "Dead"
    PROVE  Shape'
<1>1. hand[c] \in Thread /\ Held(c) = hand[c] /\ state[hand[c]] = "Alive"
  BY HeldThread DEF IInv, CpuFields, CpuOK
<1>2. CpuFields'
  <2>1. CpuOK(c)'
    <3>1. CpuOK(c)
      BY DEF IInv, CpuFields
    <3> QED  BY <1>1, <3>1 DEF CpuOK, Online
  <2> QED  BY <2>1, CpuFieldsStep DEF IInv
<1>3. QueueKinds'
  BY DEF IInv, QueueKinds, InQueue
<1>4. LiveStates'
  <2>1. (\A r \in Queues, u \in Thread : InQueue(r, u) => state[u] \in {"Alive", "Blocked"})'
    BY DEF IInv, LiveStates, InQueue
  <2>2. (\A d \in Cpu : hand[d] # None => state[hand[d]] \in {"Alive", "Blocked"})'
    BY DEF IInv, LiveStates
  <2>3. (\A d \in Cpu : pc[d] = "requeue" => state[current[d]] # "Unborn")'
    BY DEF IInv, LiveStates
  <2>4. (\A u \in freed : state[u] = "Dead")'
    BY DEF IInv, LiveStates
  <2>5. (\A u \in IdleThread : state[u] \in {"Unborn", "Alive"})'
    BY DEF IInv, LiveStates
  <2> QED  BY <2>1, <2>2, <2>3, <2>4, <2>5 DEF LiveStates
<1>5. \A d \in Cpu : Held(d)' = Held(d)
  BY <1>1 DEF Held
<1>6. OnePlace' /\ NoThreadForgotten'
  BY <1>5, PlacesKept DEF IInv
<1>7. AlwaysSomethingToSchedule'
  BY DEF IInv, AlwaysSomethingToSchedule
<1> QED  BY <1>2, <1>3, <1>4, <1>6, <1>7 DEF Shape

LEMMA IInvNext == IInv /\ [Next]_vars => IInv'
<1> SUFFICES ASSUME IInv, [Next]_vars PROVE IInv'
  OBVIOUS
<1>t. TypeOK
  BY DEF IInv
<1>s. TypeOK' /\ Shape' => IInv'
  BY DEF IInv, Shape
<1>c. \A c \in Cpu : CpuOK(c)
  BY DEF IInv, CpuFields
<1>1. ASSUME NEW c \in Cpu, NEW ap \in Cpu, StartAp(c, ap)
      PROVE  IInv'
  <2>1. /\ pc[ap] = "off" /\ pc'[ap] = "starting" /\ \A d \in Cpu \ {ap} : pc'[d] = pc[d]
        /\ UNCHANGED <<current, hand, queue, state, freed>>
    BY <1>1, <1>t DEF StartAp, Goto, TypeOK
  <2>2. CpuOK(ap)' /\ Held(ap)' = Held(ap)
    <3>1. CpuOK(ap)
      BY <1>c
    <3> QED  BY <2>1, <3>1 DEF CpuOK, Online, Held
  <2>3. Shape'
    BY <2>1, <2>2, QuietStep
  <2>4. TypeOK'
    BY <1>1, <1>t DEF StartAp, Goto, TypeOK, Labels
  <2> QED  BY <2>3, <2>4, <1>s
<1>2. ASSUME NEW c \in Cpu, SchedStart(c)
      PROVE  IInv'
  <2>1. IdleOf[c] \in Thread
    BY ThreadKinds
  <2>2. /\ pc[c] = "starting" /\ pc'[c] = "running" /\ current'[c] = IdleOf[c]
        /\ \A d \in Cpu \ {c} : pc'[d] = pc[d] /\ current'[d] = current[d]
        /\ state'[IdleOf[c]] = "Alive" /\ \A u \in Thread \ {IdleOf[c]} : state'[u] = state[u]
        /\ UNCHANGED <<hand, queue, freed>>
    BY <1>2, <1>t, <2>1 DEF SchedStart, Goto, TypeOK
  <2>3. Shape'
    BY <2>2, StartStep
  <2>4. TypeOK'
    <3>1. pc' \in [Cpu -> Labels] /\ current' \in [Cpu -> Thread \cup {None}]
      BY <1>2, <1>t, <2>1 DEF SchedStart, Goto, TypeOK, Labels
    <3>2. state' \in [Thread -> States] /\ kernel' \in [Thread -> BOOLEAN]
      BY <1>2, <1>t, <2>1 DEF SchedStart, TypeOK, States
    <3>3. count' \in [Thread -> Int]
      BY <1>2, <1>t, <2>1 DEF SchedStart, TypeOK
    <3> QED  BY <1>2, <1>t, <3>1, <3>2, <3>3 DEF SchedStart, TypeOK
  <2> QED  BY <2>3, <2>4, <1>s
<1>3. ASSUME NEW c \in Cpu, NEW t \in NormalThread, KernelInitEnd(c, t)
      PROVE  IInv'
  <2>1. /\ t \in Thread /\ KernelInit \in Thread /\ t # KernelInit /\ "normal" \in Queues
        /\ KernelInit \in NormalThread /\ ~InQueue("normal", t)
    <3>1. t \in Thread /\ KernelInit \in Thread /\ KernelInit \in NormalThread /\ "normal" \in Queues
      BY ThreadKinds DEF Queues
    <3>2. state[KernelInit] = "Alive" /\ state[t] = "Unborn"
      BY <1>3, <1>c DEF KernelInitEnd, CpuOK
    <3>3. ~InQueue("normal", t)
      BY <3>1, <3>2 DEF IInv, LiveStates
    <3> QED  BY <3>1, <3>2, <3>3
  <2>2. /\ pc[c] = "running" /\ current[c] = KernelInit /\ state[t] = "Unborn"
        /\ pc'[c] = "requeue" /\ \A d \in Cpu \ {c} : pc'[d] = pc[d]
        /\ UNCHANGED <<current, hand, freed>> /\ Enqueue("normal", t)
    BY <1>3, <1>t DEF KernelInitEnd, Goto, TypeOK
  <2>3. /\ state'[t] = "Alive" /\ state'[KernelInit] = "Dead"
        /\ \A u \in Thread \ {t, KernelInit} : state'[u] = state[u]
        /\ state' \in [Thread -> States]
    <3>1. state' = [[state EXCEPT ![t] = "Alive"] EXCEPT ![KernelInit] = "Dead"]
      BY <1>3 DEF KernelInitEnd
    <3>2. state \in [Thread -> States] /\ "Alive" \in States /\ "Dead" \in States
      BY <1>t DEF TypeOK, States
    <3> QED  BY <2>1, <3>1, <3>2
  <2>4. Shape'
    BY <2>1, <2>2, <2>3, InsertStep
  <2>5. TypeOK'
    <3>1. queue' \in [Queues -> Seq(Thread)]
      BY <2>1, <2>2, EnqueueEffect DEF IInv, TypeOK, OnePlace
    <3>2. pc' \in [Cpu -> Labels] /\ stack' \in [Cpu -> Cpu \cup Thread]
      BY <1>3, <1>t, <2>1 DEF KernelInitEnd, Goto, TypeOK, Labels
    <3>3. count' \in [Thread -> Int]
      BY <1>3, <1>t, <2>1 DEF KernelInitEnd, TypeOK
    <3>4. UNCHANGED <<current, hand, blocker, kernel, freed, ready>>
      BY <1>3 DEF KernelInitEnd
    <3> QED  BY <1>t, <2>3, <3>1, <3>2, <3>3, <3>4 DEF TypeOK
  <2> QED  BY <2>4, <2>5, <1>s
<1>4. ASSUME NEW c \in Cpu, NEW t \in NormalThread, Spawn(c, t)
      PROVE  IInv'
  <2>1. t \in Thread /\ "normal" \in Queues /\ ~InQueue("normal", t)
    <3>1. t \in Thread /\ "normal" \in Queues
      BY ThreadKinds DEF Queues
    <3>2. state[t] = "Unborn"
      BY <1>4 DEF Spawn
    <3> QED  BY <3>1, <3>2 DEF IInv, LiveStates
  <2>2. /\ pc[c] = "running" /\ current[c] \in NormalThread /\ state[t] = "Unborn"
        /\ state[current[c]] = "Alive"
        /\ UNCHANGED <<pc, current, hand, freed>> /\ Enqueue("normal", t)
    BY <1>4, <1>c DEF Spawn, RunsUser, CpuOK
  <2>3. /\ state'[t] = "Alive" /\ \A u \in Thread \ {t} : state'[u] = state[u]
        /\ state' \in [Thread -> States]
    <3>1. state' = [state EXCEPT ![t] = "Alive"] /\ state \in [Thread -> States] /\ "Alive" \in States
      BY <1>4, <1>t DEF Spawn, TypeOK, States
    <3> QED  BY <2>1, <3>1
  <2>4. Shape'
    <3>1. current[c] \in Thread \ {t}
      BY <2>2, ThreadKinds
    <3> QED  BY <2>2, <2>3, <3>1, InsertStep
  <2>5. TypeOK'
    <3>1. queue' \in [Queues -> Seq(Thread)]
      BY <2>1, <2>2, EnqueueEffect DEF IInv, TypeOK, OnePlace
    <3>2. count' \in [Thread -> Int]
      BY <1>4, <1>t, <2>1 DEF Spawn, TypeOK
    <3>3. UNCHANGED <<pc, current, hand, stack, blocker, kernel, freed, ready>>
      BY <1>4 DEF Spawn
    <3> QED  BY <1>t, <2>3, <3>1, <3>2, <3>3 DEF TypeOK
  <2> QED  BY <2>4, <2>5, <1>s
<1>5. ASSUME NEW c \in Cpu, NEW e \in Event, Toggle(c, e)
      PROVE  IInv'
  <2>1. UNCHANGED <<pc, current, hand, stack, queue, state, blocker, kernel, count, freed>>
    BY <1>5 DEF Toggle
  <2>2. CpuOK(c)' /\ Held(c)' = Held(c) /\ pc[c] = "running"
    <3>1. CpuOK(c) /\ pc[c] = "running"
      BY <1>5, <1>c DEF Toggle
    <3> QED  BY <2>1, <3>1 DEF CpuOK, Online, Held
  <2>3. Shape'
    BY <2>1, <2>2, QuietStep
  <2>4. ready' \subseteq Event
    BY <1>5, <1>t DEF Toggle, TypeOK
  <2>5. TypeOK'
    BY <1>t, <2>1, <2>4 DEF TypeOK
  <2> QED  BY <2>3, <2>5, <1>s
<1>6. ASSUME NEW c \in Cpu, SysReturn(c)
      PROVE  IInv'
  <2>1. UNCHANGED <<pc, current, hand, stack, queue, state, blocker, count, freed, ready>>
    BY <1>6 DEF SysReturn
  <2>2. CpuOK(c)' /\ Held(c)' = Held(c) /\ pc[c] = "running"
    <3>1. CpuOK(c) /\ pc[c] = "running"
      BY <1>6, <1>c DEF SysReturn
    <3> QED  BY <2>1, <3>1 DEF CpuOK, Online, Held
  <2>3. Shape'
    BY <2>1, <2>2, QuietStep
  <2>4. kernel' \in [Thread -> BOOLEAN]
    BY <1>6, <1>t DEF SysReturn, TypeOK
  <2>5. TypeOK'
    BY <1>t, <2>1, <2>4 DEF TypeOK
  <2> QED  BY <2>3, <2>5, <1>s
<1>7. ASSUME NEW c \in Cpu, NEW b \in Event \cup Waitable \cup {None}, Block(c, b)
      PROVE  IInv'
  <2>1. /\ pc[c] = "running" /\ current[c] \in NormalThread /\ current[c] \in Thread
        /\ UNCHANGED <<current, hand, queue, count, freed, ready>>
        /\ b \in Event \cup Thread \cup {None}
    BY <1>7, ThreadKinds DEF Block, RunsUser
  <2>2. pc'[c] = "requeue" /\ (\A d \in Cpu \ {c} : pc'[d] = pc[d]) /\ pc' \in [Cpu -> Labels]
    BY <1>7, <1>t DEF Block, Goto, TypeOK, Labels
  <2>3. /\ state'[current[c]] = "Blocked" /\ \A u \in Thread \ {current[c]} : state'[u] = state[u]
        /\ state' \in [Thread -> States]
    BY <1>7, <1>t, <2>1 DEF Block, TypeOK, States
  <2>4. Shape'
    BY <2>1, <2>2, <2>3, LeaveStep
  <2>5. TypeOK'
    <3>1. blocker' \in [Thread -> Event \cup Thread \cup {None}]
      BY <1>7, <1>t, <2>1 DEF Block, TypeOK
    <3>2. kernel' \in [Thread -> BOOLEAN] /\ stack' \in [Cpu -> Cpu \cup Thread]
      BY <1>7, <1>t, <2>1 DEF Block, TypeOK
    <3> QED  BY <1>t, <2>1, <2>2, <2>3, <3>1, <3>2 DEF TypeOK
  <2> QED  BY <2>4, <2>5, <1>s
<1>8. ASSUME NEW c \in Cpu, Timer(c)
      PROVE  IInv'
  <2>1. /\ pc[c] = "running" /\ current[c] \in Thread /\ state[current[c]] = "Alive"
        /\ UNCHANGED <<current, hand, queue, state, blocker, kernel, count, freed, ready>>
    BY <1>8, <1>c, ThreadKinds DEF Timer, RunsUser, CpuOK
  <2>2. pc'[c] = "requeue" /\ (\A d \in Cpu \ {c} : pc'[d] = pc[d]) /\ pc' \in [Cpu -> Labels]
    BY <1>8, <1>t DEF Timer, Goto, TypeOK, Labels
  <2>3. CpuOK(c)' /\ Held(c)' = Held(c)
    <3>1. CpuOK(c)
      BY <1>c
    <3> QED  BY <2>1, <2>2, <3>1 DEF CpuOK, Online, Held
  <2>4. Shape'
    BY <2>1, <2>2, <2>3, QuietStep
  <2>5. TypeOK'
    <3>1. stack' \in [Cpu -> Cpu \cup Thread]
      BY <1>8, <1>t, <2>1 DEF Timer, TypeOK
    <3> QED  BY <1>t, <2>1, <2>2, <3>1 DEF TypeOK
  <2> QED  BY <2>4, <2>5, <1>s
<1>9. ASSUME NEW c \in Cpu, Exit(c) \/ Fault(c)
      PROVE  IInv'
  <2>1. /\ pc[c] = "running" /\ current[c] \in NormalThread /\ current[c] \in Thread
        /\ UNCHANGED <<current, hand, queue, blocker, kernel, count, freed, ready>>
    BY <1>9, ThreadKinds DEF Exit, Fault, RunsUser
  <2>2. pc'[c] = "requeue" /\ (\A d \in Cpu \ {c} : pc'[d] = pc[d]) /\ pc' \in [Cpu -> Labels]
    BY <1>9, <1>t DEF Exit, Fault, Goto, TypeOK, Labels
  <2>3. /\ state'[current[c]] = "Dead" /\ \A u \in Thread \ {current[c]} : state'[u] = state[u]
        /\ state' \in [Thread -> States]
    BY <1>9, <1>t, <2>1 DEF Exit, Fault, TypeOK, States
  <2>4. Shape'
    BY <2>1, <2>2, <2>3, LeaveStep
  <2>5. TypeOK'
    <3>1. stack' \in [Cpu -> Cpu \cup Thread]
      BY <1>9, <1>t, <2>1 DEF Exit, Fault, TypeOK
    <3> QED  BY <1>t, <2>1, <2>2, <2>3, <3>1 DEF TypeOK
  <2> QED  BY <2>4, <2>5, <1>s
<1>10. ASSUME NEW c \in Cpu, Requeue(c)
       PROVE  IInv'
  <2>1. /\ pc[c] = "requeue" /\ UNCHANGED <<current, hand, stack, state, blocker, kernel, count, freed, ready>>
        /\ IF state[current[c]] # "Dead" THEN Enqueue(QueueOf(current[c]), current[c])
                                         ELSE UNCHANGED queue
    BY <1>10 DEF Requeue
  <2>2. pc'[c] = "drain" /\ (\A d \in Cpu \ {c} : pc'[d] = pc[d]) /\ pc' \in [Cpu -> Labels]
    BY <1>10, <1>t DEF Requeue, Goto, TypeOK, Labels
  <2>3. Shape'
    BY <2>1, <2>2, RequeueStep
  <2>4. queue' \in [Queues -> Seq(Thread)]
    <3>1. current[c] \in Thread /\ Held(c) = current[c] /\ QueueOf(current[c]) \in Queues
      BY <2>1, HeldThread DEF QueueOf, Queues
    <3>2. ~InQueue(QueueOf(current[c]), current[c])
      BY <3>1, HeldAlone
    <3> QED  BY <2>1, <3>1, <3>2, EnqueueEffect DEF IInv, TypeOK, OnePlace
  <2>5. TypeOK'
    BY <1>t, <2>1, <2>2, <2>4 DEF TypeOK
  <2> QED  BY <2>3, <2>5, <1>s
<1>11. ASSUME NEW c \in Cpu, DrainTake(c)
       PROVE  IInv'
  <2>1. /\ pc[c] = "drain" /\ queue["blocked"] # <<>> /\ Dequeue("blocked") /\ "blocked" \in Queues
        /\ hand' = [hand EXCEPT ![c] = Head(queue["blocked"])]
        /\ UNCHANGED <<current, stack, state, blocker, kernel, count, freed, ready>>
    BY <1>11 DEF DrainTake, Queues
  <2>2. pc'[c] = "drained" /\ (\A d \in Cpu \ {c} : pc'[d] = pc[d]) /\ pc' \in [Cpu -> Labels]
    BY <1>11, <1>t DEF DrainTake, Goto, TypeOK, Labels
  <2>3. hand'[c] = Head(queue["blocked"]) /\ \A d \in Cpu \ {c} : hand'[d] = hand[d]
    BY <1>t, <2>1 DEF TypeOK
  <2>4. Shape'
    BY <2>1, <2>2, <2>3, TakeStep
  <2>5. queue' \in [Queues -> Seq(Thread)] /\ Head(queue["blocked"]) \in Thread
    BY <2>1, DequeueEffect DEF IInv, TypeOK, OnePlace
  <2>6. TypeOK'
    BY <1>t, <2>1, <2>2, <2>5 DEF TypeOK
  <2> QED  BY <2>4, <2>6, <1>s
<1>12. ASSUME NEW c \in Cpu, DrainPut(c)
       PROVE  IInv'
  <2>1. /\ hand[c] \in NormalThread /\ hand[c] \in Thread /\ Held(c) = hand[c]
        /\ QueueOf(hand[c]) = "normal" /\ "normal" \in Queues
    BY <1>12, <1>c, HeldThread, ThreadKinds DEF DrainPut, CpuOK, QueueOf, Queues
  <2>2. /\ pc[c] = "drained" /\ Enqueue("normal", hand[c]) /\ hand' = [hand EXCEPT ![c] = None]
        /\ UNCHANGED <<current, stack, state, blocker, kernel, count, freed, ready>>
    BY <1>12, <2>1 DEF DrainPut
  <2>3. pc'[c] = "drain" /\ (\A d \in Cpu \ {c} : pc'[d] = pc[d]) /\ pc' \in [Cpu -> Labels]
    BY <1>12, <1>t DEF DrainPut, Goto, TypeOK, Labels
  <2>4. hand'[c] = None /\ \A d \in Cpu \ {c} : hand'[d] = hand[d]
    BY <1>t, <2>2 DEF TypeOK
  <2>5. Shape'
    BY <2>2, <2>3, <2>4, PutStep
  <2>6. queue' \in [Queues -> Seq(Thread)]
    <3>1. ~InQueue("normal", hand[c])
      BY <2>1, HeldAlone
    <3> QED  BY <2>1, <2>2, <3>1, EnqueueEffect DEF IInv, TypeOK, OnePlace
  <2>7. TypeOK'
    BY <1>t, <2>2, <2>3, <2>6 DEF TypeOK
  <2> QED  BY <2>5, <2>7, <1>s
<1>13. ASSUME NEW c \in Cpu, DrainEnd(c)
       PROVE  IInv'
  <2>1. /\ pc[c] = "drain"
        /\ UNCHANGED <<current, hand, stack, queue, state, blocker, kernel, count, freed, ready>>
    BY <1>13 DEF DrainEnd
  <2>2. pc'[c] = "scan_normal" /\ (\A d \in Cpu \ {c} : pc'[d] = pc[d]) /\ pc' \in [Cpu -> Labels]
    BY <1>13, <1>t DEF DrainEnd, Goto, TypeOK, Labels
  <2>3. CpuOK(c)' /\ Held(c)' = Held(c)
    <3>1. CpuOK(c)
      BY <1>c
    <3> QED  BY <2>1, <2>2, <3>1 DEF CpuOK, Online, Held
  <2>4. Shape'
    BY <2>1, <2>2, <2>3, QuietStep
  <2>5. TypeOK'
    BY <1>t, <2>1, <2>2 DEF TypeOK
  <2> QED  BY <2>4, <2>5, <1>s
<1>14. ASSUME NEW c \in Cpu, NEW q \in {"normal", "idle"}, ScanTake(c, q)
       PROVE  IInv'
  <2>1. /\ pc[c] \in {"scan_normal", "scan_idle"} /\ queue[q] # <<>> /\ Dequeue(q) /\ q \in Queues
        /\ hand' = [hand EXCEPT ![c] = Head(queue[q])]
        /\ UNCHANGED <<current, stack, state, blocker, kernel, count, freed, ready>>
    BY <1>14 DEF ScanTake, ScanOf, Queues
  <2>2. pc'[c] = "check" /\ (\A d \in Cpu \ {c} : pc'[d] = pc[d]) /\ pc' \in [Cpu -> Labels]
    BY <1>14, <1>t DEF ScanTake, Goto, TypeOK, Labels
  <2>3. hand'[c] = Head(queue[q]) /\ \A d \in Cpu \ {c} : hand'[d] = hand[d]
    BY <1>t, <2>1 DEF TypeOK
  <2>4. Shape'
    BY <2>1, <2>2, <2>3, TakeStep
  <2>5. queue' \in [Queues -> Seq(Thread)] /\ Head(queue[q]) \in Thread
    BY <2>1, DequeueEffect DEF IInv, TypeOK, OnePlace
  <2>6. TypeOK'
    BY <1>t, <2>1, <2>2, <2>5 DEF TypeOK
  <2> QED  BY <2>4, <2>6, <1>s
<1>15. ASSUME NEW c \in Cpu, NEW q \in {"normal", "idle"}, ScanEnd(c, q)
       PROVE  IInv'
  <2>1. /\ pc[c] = ScanOf(q) /\ queue[q] = <<>>
        /\ UNCHANGED <<current, hand, stack, queue, state, blocker, kernel, count, freed, ready>>
    BY <1>15 DEF ScanEnd
  <2>2. q = "normal" /\ pc[c] = "scan_normal"
    BY <2>1, IdleQueueNotEmpty DEF ScanOf
  <2>3. pc'[c] = "scan_idle" /\ (\A d \in Cpu \ {c} : pc'[d] = pc[d]) /\ pc' \in [Cpu -> Labels]
    BY <1>15, <1>t, <2>2 DEF ScanEnd, Goto, TypeOK, Labels
  <2>4. CpuOK(c)' /\ Held(c)' = Held(c)
    <3>1. CpuOK(c)
      BY <1>c
    <3> QED  BY <2>1, <2>2, <2>3, <3>1 DEF CpuOK, Online, Held
  <2>5. Shape'
    BY <2>1, <2>3, <2>4, QuietStep
  <2>6. TypeOK'
    BY <1>t, <2>1, <2>3 DEF TypeOK
  <2> QED  BY <2>5, <2>6, <1>s
<1>16. ASSUME NEW c \in Cpu, Check(c)
       PROVE  IInv'
  <2>1. /\ pc[c] = "check" /\ hand[c] \in Thread /\ state[hand[c]] \in {"Alive", "Blocked"}
        /\ UNCHANGED <<current, hand, stack, queue, kernel, count, freed, ready>>
    <3>1. pc[c] = "check" /\ UNCHANGED <<current, hand, stack, queue, kernel, count, freed, ready>>
      BY <1>16 DEF Check
    <3>2. hand[c] \in Thread
      BY <3>1, HeldThread
    <3> QED  BY <3>1, <3>2, ThreadKinds DEF IInv, LiveStates
  <2>2. \/ /\ state' = [state EXCEPT ![hand[c]] = "Alive"]
           /\ blocker' = [blocker EXCEPT ![hand[c]] = None] /\ pc' = [pc EXCEPT ![c] = "finish"]
        \/ /\ state[hand[c]] = "Blocked" /\ pc' = [pc EXCEPT ![c] = "reblock"]
           /\ state' = state /\ blocker' = blocker
        \/ /\ state[hand[c]] = "Alive" /\ pc' = [pc EXCEPT ![c] = "finish"]
           /\ state' = state /\ blocker' = blocker
    BY <1>16, <2>1 DEF Check, Goto
  <2>3. /\ pc'[c] \in {"finish", "reblock"} /\ \A d \in Cpu \ {c} : pc'[d] = pc[d]
        /\ \A u \in Thread \ {hand[c]} : state'[u] = state[u]
        /\ state'[hand[c]] \in {"Alive", "Blocked"}
        /\ state[hand[c]] = "Alive" => state'[hand[c]] = "Alive"
        /\ pc'[c] = "finish" <=> state'[hand[c]] = "Alive"
    BY <1>t, <2>1, <2>2 DEF TypeOK
  <2>4. Shape'
    BY <2>1, <2>3, CheckStep
  <2>5. TypeOK'
    <3>1. pc' \in [Cpu -> Labels]
      BY <1>t, <2>2 DEF TypeOK, Labels
    <3>2. state' \in [Thread -> States]
      <4>1. state \in [Thread -> States] /\ "Alive" \in States
        BY <1>t DEF TypeOK, States
      <4>2. state' = [state EXCEPT ![hand[c]] = "Alive"] \/ state' = state
        BY <2>2
      <4> QED  BY <2>1, <4>1, <4>2
    <3>3. blocker' \in [Thread -> Event \cup Thread \cup {None}]
      BY <1>t, <2>1, <2>2 DEF TypeOK
    <3> QED  BY <1>t, <2>1, <3>1, <3>2, <3>3 DEF TypeOK
  <2> QED  BY <2>4, <2>5, <1>s
<1>17. ASSUME NEW c \in Cpu, Reblock(c)
       PROVE  IInv'
  <2>1. /\ hand[c] \in NormalThread /\ hand[c] \in Thread /\ Held(c) = hand[c]
        /\ ScanOf(QueueOf(hand[c])) = "scan_normal" /\ "blocked" \in Queues
    BY <1>17, <1>c, HeldThread, ThreadKinds DEF Reblock, CpuOK, QueueOf, ScanOf, Queues
  <2>2. /\ pc[c] = "reblock" /\ Enqueue("blocked", hand[c]) /\ hand' = [hand EXCEPT ![c] = None]
        /\ UNCHANGED <<current, stack, state, blocker, kernel, count, freed, ready>>
    BY <1>17 DEF Reblock
  <2>3. pc'[c] = "scan_normal" /\ (\A d \in Cpu \ {c} : pc'[d] = pc[d]) /\ pc' \in [Cpu -> Labels]
    BY <1>17, <1>t, <2>1 DEF Reblock, Goto, TypeOK, Labels
  <2>4. hand'[c] = None /\ \A d \in Cpu \ {c} : hand'[d] = hand[d]
    BY <1>t, <2>2 DEF TypeOK
  <2>5. Shape'
    BY <2>2, <2>3, <2>4, PutStep
  <2>6. queue' \in [Queues -> Seq(Thread)]
    <3>1. ~InQueue("blocked", hand[c])
      BY <2>1, HeldAlone
    <3> QED  BY <2>1, <2>2, <3>1, EnqueueEffect DEF IInv, TypeOK, OnePlace
  <2>7. TypeOK'
    BY <1>t, <2>2, <2>3, <2>6 DEF TypeOK
  <2> QED  BY <2>5, <2>7, <1>s
<1>18. ASSUME NEW c \in Cpu, Finish(c)
       PROVE  IInv'
  <2>1. /\ pc[c] = "finish" /\ hand[c] \in Thread /\ current[c] \in Thread
        /\ UNCHANGED <<queue, state, blocker, kernel, ready>>
    <3>1. pc[c] = "finish" /\ UNCHANGED <<queue, state, blocker, kernel, ready>>
      BY <1>18 DEF Finish
    <3> QED  BY <3>1, <1>c, HeldThread DEF CpuOK, Online
  <2>2. /\ pc'[c] = "running" /\ (\A d \in Cpu \ {c} : pc'[d] = pc[d]) /\ pc' \in [Cpu -> Labels]
        /\ current'[c] = hand[c] /\ (\A d \in Cpu \ {c} : current'[d] = current[d])
        /\ hand'[c] = None /\ (\A d \in Cpu \ {c} : hand'[d] = hand[d])
    BY <1>18, <1>t DEF Finish, Goto, TypeOK, Labels
  <2>3. PICK dead \in BOOLEAN :
           /\ current[c] \notin freed => dead = (state[current[c]] = "Dead")
           /\ freed' = IF dead THEN freed \cup {current[c]} ELSE freed
           /\ count' = IF dead THEN [count EXCEPT ![current[c]] = @ - 1] ELSE count
    BY <1>18 DEF Finish
  <2>4. freed' \in {freed, freed \cup {current[c]}} /\ (freed' # freed => state[current[c]] = "Dead")
    BY <2>3 DEF IInv, LiveStates
  <2>5. Shape'
    BY <2>1, <2>2, <2>4, FinishStep
  <2>6. TypeOK'
    <3>1. count' \in [Thread -> Int]
      <4>1. CASE dead
        BY <1>t, <2>1, <2>3, <4>1 DEF TypeOK
      <4>2. CASE ~dead
        BY <1>t, <2>3, <4>2 DEF TypeOK
      <4> QED  BY <4>1, <4>2
    <3>2. /\ current' \in [Cpu -> Thread \cup {None}] /\ hand' \in [Cpu -> Thread \cup {None}]
          /\ stack' \in [Cpu -> Cpu \cup Thread]
      BY <1>18, <1>t, <2>1 DEF Finish, TypeOK
    <3>3. freed' \subseteq Thread
      BY <1>t, <2>1, <2>4 DEF TypeOK
    <3> QED  BY <1>t, <2>1, <2>2, <3>1, <3>2, <3>3 DEF TypeOK
  <2> QED  BY <2>5, <2>6, <1>s
<1>19. CASE UNCHANGED vars
  <2>1. \A d \in Cpu : Held(d)' = Held(d)
    BY <1>19 DEF vars, Held
  <2>2. OnePlace' /\ NoThreadForgotten'
    BY <1>19, <2>1, PlacesKept DEF vars, IInv
  <2>3. TypeOK' /\ CpuFields' /\ AlwaysSomethingToSchedule'
    BY <1>19 DEF vars, IInv, TypeOK, CpuFields, CpuOK, AlwaysSomethingToSchedule, Online
  <2>4. QueueKinds' /\ LiveStates'
    BY <1>19 DEF vars, IInv, QueueKinds, LiveStates, InQueue
  <2> QED  BY <2>2, <2>3, <2>4 DEF IInv
<1> QED
  BY <1>1, <1>2, <1>3, <1>4, <1>5, <1>6, <1>7, <1>8, <1>9, <1>10, <1>11, <1>12, <1>13, <1>14,
     <1>15, <1>16, <1>17, <1>18, <1>19 DEF Next, Run, Switch

(* IInv is an invariant of the scheduler. *)
THEOREM Invariance == Spec => []IInv
<1>1. Init => IInv
  BY IInvInit
<1>2. IInv /\ [Next]_vars => IInv'
  BY IInvNext
<1> QED  BY <1>1, <1>2, PTL DEF Spec

(* Every variable keeps its type, for any number of CPUs and threads. *)
THEOREM TypeCorrect == Spec => []TypeOK
<1>1. IInv => TypeOK
  BY DEF IInv
<1> QED  BY <1>1, Invariance, PTL

(* pick_next never reaches ENSURE_NOT_REACHED, for any number of CPUs: the *)
(* idle threads outnumber the CPUs that could hold them.                   *)
THEOREM PickNextFindsAThread == Spec => []AlwaysSomethingToSchedule
<1>1. IInv => AlwaysSomethingToSchedule
  BY DEF IInv
<1> QED  BY <1>1, Invariance, PTL

(* No thread is run twice at once, or queued twice, or run while queued.   *)
THEOREM ThreadsInOnePlace == Spec => []OnePlace
<1>1. IInv => OnePlace
  BY DEF IInv
<1> QED  BY <1>1, Invariance, PTL

(* switch_next and pick_next lose no thread that can still run. *)
THEOREM ThreadsNotForgotten == Spec => []NoThreadForgotten
<1>1. IInv => NoThreadForgotten
  BY DEF IInv
<1> QED  BY <1>1, Invariance, PTL

(* What thread_load resumes is alive: not blocked, dead or destroyed. *)
THEOREM RunningThreadsLive == Spec => []OnlyLiveThreadsRun
<1>1. IInv => OnlyLiveThreadsRun
  <2> SUFFICES ASSUME IInv, NEW c \in Cpu, pc[c] = "running"
               PROVE  state[current[c]] = "Alive" /\ current[c] \notin freed
    BY DEF OnlyLiveThreadsRun
  <2>1. state[current[c]] = "Alive"
    BY DEF IInv, CpuFields, CpuOK
  <2>2. current[c] \notin freed
    BY <2>1 DEF IInv, LiveStates
  <2> QED  BY <2>1, <2>2
<1> QED  BY <1>1, Invariance, PTL
=============================================================================
