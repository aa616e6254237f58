---------------------------- MODULE ThreadQueue ----------------------------
(***************************************************************************)
(* What a run queue of the kernel promises to the CPUs that share it,      *)
(* whatever it is built from.  An enqueue puts a thread in the queue at    *)
(* one instant.  A dequeue either reserves one of the threads at one       *)
(* instant and receives a thread later, or finds the queue with no         *)
(* unreserved thread at one instant and returns null.  No thread is lost   *)
(* or handed to two CPUs.  The order is not part of this contract          *)
(* (RunQueueOrder states when it is first in, first out).                  *)
(***************************************************************************)
EXTENDS FiniteSets, Integers

CONSTANTS Cpu,    \* the CPUs that use the queue
          Thread  \* the threads that can be queued

VARIABLES contents, \* threads put in the queue and not handed out yet
          held,     \* held[c]: the threads CPU c has in its hands
          phase     \* phase[c]: what CPU c's call of dequeue has come to

qvars == <<contents, held, phase>>

Reserved == {c \in Cpu : phase[c] = "reserved"}

(* A thread nobody has reserved is in the queue. *)
Available == Cardinality(contents) > Cardinality(Reserved)

QInit ==
    /\ contents = {}
    /\ held \in [Cpu -> SUBSET Thread]
    /\ \A c, d \in Cpu : c # d => held[c] \cap held[d] = {}
    /\ phase = [c \in Cpu |-> "out"]

Put(c) ==
    /\ phase[c] = "out"
    /\ \E t \in held[c] :
          /\ contents' = contents \cup {t}
          /\ held' = [held EXCEPT ![c] = @ \ {t}]
    /\ UNCHANGED phase

Look(c) ==
    /\ phase[c] = "out"
    /\ phase' = [phase EXCEPT ![c] = "looking"]
    /\ UNCHANGED <<contents, held>>

Reserve(c) ==
    /\ phase[c] = "looking"
    /\ Available
    /\ phase' = [phase EXCEPT ![c] = "reserved"]
    /\ UNCHANGED <<contents, held>>

FindEmpty(c) ==
    /\ phase[c] = "looking"
    /\ ~Available
    /\ phase' = [phase EXCEPT ![c] = "null"]
    /\ UNCHANGED <<contents, held>>

Receive(c) ==
    /\ phase[c] = "reserved"
    /\ \E t \in contents :
          /\ contents' = contents \ {t}
          /\ held' = [held EXCEPT ![c] = @ \cup {t}]
    /\ phase' = [phase EXCEPT ![c] = "out"]

ReturnNull(c) ==
    /\ phase[c] = "null"
    /\ phase' = [phase EXCEPT ![c] = "out"]
    /\ UNCHANGED <<contents, held>>

QNext == \E c \in Cpu : Put(c) \/ Look(c) \/ Reserve(c) \/ FindEmpty(c)
                           \/ Receive(c) \/ ReturnNull(c)

QSpec == QInit /\ [][QNext]_qvars
=============================================================================
