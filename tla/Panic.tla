------------------------------- MODULE Panic --------------------------------
(***************************************************************************)
(* How the kernel stops all CPUs after a failed assertion:                 *)
(* assertion_failed, try_broadcast_halt and halt_cpu of                    *)
(* kernel/arch/amd64/cpu.cc.                                               *)
(*                                                                         *)
(* Interrupts are off in the kernel (setup_cpu: "IF is always 0 in ring    *)
(* 0"), where a CPU takes a non-maskable interrupt only.  A CPU in the     *)
(* kernel may hold a spin lock, or spin on one that is held.               *)
(***************************************************************************)
EXTENDS Integers, FiniteSets

CONSTANTS PanicCpus,   \* the CPUs
          MaxFailures  \* bound: CPUs on which an assertion fails

VARIABLES pnCpu,     \* where each CPU is, and what try_broadcast_halt returned there
          pnOnline,  \* s_online_cpu_set
          pnIpi,     \* CPUs that a halt interrupt waits for
          pnNmi,     \* CPUs that a non-maskable interrupt waits for
          pnLock,    \* a spin lock
          pnFailures \* failures so far

pnVars == <<pnCpu, pnOnline, pnIpi, pnNmi, pnLock, pnFailures>>
pnHalt == <<pnOnline, pnIpi, pnNmi, pnFailures>>

PanicInit ==
    /\ pnCpu = [c \in PanicCpus |-> [at |-> "user", halted |-> FALSE]]
    /\ pnOnline = PanicCpus /\ pnIpi = {} /\ pnNmi = {} /\ pnLock = "free" /\ pnFailures = 0

Goes(c, from, to) == pnCpu[c].at = from /\ pnCpu' = [pnCpu EXCEPT ![c].at = to]

EnterKernel(c) == Goes(c, "user", "kernel") /\ UNCHANGED pnLock /\ UNCHANGED pnHalt
LeaveKernel(c) == Goes(c, "kernel", "user") /\ UNCHANGED pnLock /\ UNCHANGED pnHalt
WantLock(c) == Goes(c, "kernel", "lock") /\ UNCHANGED pnLock /\ UNCHANGED pnHalt
TakeLock(c) == pnLock = "free" /\ Goes(c, "lock", "locked") /\ pnLock' = c /\ UNCHANGED pnHalt
DropLock(c) == Goes(c, "locked", "kernel") /\ pnLock' = "free" /\ UNCHANGED pnHalt
-----------------------------------------------------------------------------
Others(c) == PanicCpus \ {c}

(* assertion_failed: try_broadcast_halt sends the halt interrupt. *)
Fail(c) ==
    /\ pnCpu[c].at \in {"kernel", "locked"} /\ pnFailures < MaxFailures
    /\ pnCpu' = [pnCpu EXCEPT ![c].at = "wait"]
    /\ pnIpi' = pnIpi \cup Others(c)
    /\ pnFailures' = pnFailures + 1
    /\ UNCHANGED <<pnOnline, pnNmi, pnLock>>

(* popcount of the online set is 1 *)
Alone == Cardinality(pnOnline) = 1

Report(c, halted) == pnCpu' = [pnCpu EXCEPT ![c] = [at |-> "report", halted |-> halted]]

AllHalted(c) ==
    /\ pnCpu[c].at \in {"wait", "wait_nmi"} /\ Alone
    /\ Report(c, TRUE)
    /\ UNCHANGED pnLock /\ UNCHANGED pnHalt


(* 500 ms have gone by: the CPUs still online get an interrupt that they   *)
(* cannot mask.                                                            *)
SendNmi(c) ==
    /\ ~Alone /\ Goes(c, "wait", "wait_nmi")
    /\ pnNmi' = pnNmi \cup (pnOnline \ {c})
    /\ UNCHANGED <<pnOnline, pnIpi, pnFailures, pnLock>>

(* 10 ms more have gone by. *)
GiveUpHalting(c) ==
    /\ pnCpu[c].at = "wait_nmi" /\ ~Alone
    /\ Report(c, FALSE)
    /\ UNCHANGED pnLock /\ UNCHANGED pnHalt

(* halt_cpu: the CPU marks itself and stops. *)
HaltCpu(c) ==
    /\ pnOnline' = pnOnline \ {c}
    /\ pnCpu' = [pnCpu EXCEPT ![c].at = "halted"]

(* assertion_failed: after the message the CPU halts itself. *)
HaltSelf(c) ==
    /\ pnCpu[c].at = "report"
    /\ HaltCpu(c)
    /\ UNCHANGED <<pnIpi, pnNmi, pnFailures, pnLock>>

TakeIpi(c) ==
    /\ c \in pnIpi /\ pnCpu[c].at = "user"
    /\ HaltCpu(c)
    /\ pnIpi' = pnIpi \ {c}
    /\ UNCHANGED <<pnNmi, pnFailures, pnLock>>

(* A CPU that has halted returns to its halt. *)
TakeNmi(c) ==
    /\ c \in pnNmi
    /\ IF c \in pnOnline THEN HaltCpu(c) ELSE UNCHANGED <<pnOnline, pnCpu>>
    /\ pnNmi' = pnNmi \ {c}
    /\ UNCHANGED <<pnIpi, pnFailures, pnLock>>

Panicking(c) == AllHalted(c) \/ SendNmi(c) \/ GiveUpHalting(c) \/ HaltSelf(c)

PanicNext ==
    \E c \in PanicCpus :
        \/ EnterKernel(c) \/ LeaveKernel(c) \/ WantLock(c) \/ TakeLock(c) \/ DropLock(c)
        \/ Fail(c) \/ Panicking(c) \/ TakeIpi(c) \/ TakeNmi(c)

(* CPUs do not stop between instructions, and a non-maskable interrupt is  *)
(* delivered.                                                              *)
PanicFairness ==
    \A c \in PanicCpus : WF_pnVars(Panicking(c)) /\ WF_pnVars(TakeNmi(c))

PanicSpec == PanicInit /\ [][PanicNext]_pnVars /\ PanicFairness
-----------------------------------------------------------------------------
=============================================================================
