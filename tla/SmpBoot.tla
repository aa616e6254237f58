------------------------------- MODULE SmpBoot -------------------------------
(***************************************************************************)
(* How the boot CPU starts the others: smp_init and try_start_ap of        *)
(* kernel/arch/amd64/cpu.cc, the trampoline of smp.S and ap_entry.         *)
(*                                                                         *)
(* All application processors run the same trampoline, copied to 0x8000,   *)
(* and load their stack pointer from one word in it.  The boot CPU fills   *)
(* that word, wakes one processor and waits for the count of CPUs to go    *)
(* up, but only for so long.                                               *)
(***************************************************************************)
EXTENDS Integers, FiniteSets, Sequences

CONSTANTS Ap,       \* the processors of the ACPI table, but the boot CPU
          Order,    \* Order[i]: the i-th of them in the table
          Answers,  \* how processors may answer the startup interrupt
          MaxCpus,  \* the most CPUs that are started (64)
          NoStack   \* no stack

(* A processor comes up within the 100 ms the boot CPU waits, or maybe     *)
(* later, or not at all.                                                   *)
ASSUME SmpBootAssumption ==
    /\ IsFiniteSet(Ap)
    /\ Order \in [1 .. Cardinality(Ap) -> Ap]
    /\ \A a \in Ap : \E i \in DOMAIN Order : Order[i] = a
    /\ Answers \subseteq {"prompt", "late", "never"}
    /\ MaxCpus \in Nat \ {0}

VARIABLES bsp,       \* where the boot CPU is in smp_init
          turn,      \* the entry of the table it has come to
          word,      \* .stack of the trampoline, as the turn that filled it
          expected,  \* expected_cpu_count
          total,     \* s_total_cpu_count
          ap,        \* ap[a]: where processor a is
          rsp,       \* rsp[a]: the stack it has loaded
          index,     \* index[a]: the index setup_cpu gets
          online,    \* s_online_cpu_set
          freed,     \* whether the frame at 0x8000 has been freed
          answer     \* answer[a]: how processor a answers

smpVars == <<bsp, turn, word, expected, total, ap, rsp, index, online, freed, answer>>

Turns == 1 .. Cardinality(Ap)

SmpInit ==
    /\ bsp = "next" /\ turn = 1
    /\ word = NoStack
    /\ expected = 0 /\ total = 1
    /\ ap = [a \in Ap |-> "off"]
    /\ rsp = [a \in Ap |-> NoStack]
    /\ index = [a \in Ap |-> 0]
    /\ online = {0}
    /\ freed = FALSE
    /\ answer \in [Ap -> Answers]
-----------------------------------------------------------------------------
This == Order[turn]

(* smp_init: a stack is allocated for the next processor *)
NextAp ==
    /\ bsp = "next" /\ turn \in Turns /\ total # MaxCpus
    /\ word' = turn
    /\ bsp' = "init"
    /\ UNCHANGED <<turn, expected, total, ap, rsp, index, online, freed, answer>>

(* smp_init: no more processors, or as many as there is room for *)
FreeTrampoline ==
    /\ bsp = "next" /\ (turn \notin Turns \/ total = MaxCpus)
    /\ freed' = TRUE
    /\ bsp' = "done"
    /\ UNCHANGED <<turn, word, expected, total, ap, rsp, index, online, answer>>

(* try_start_ap: the init interrupt *)
SendInit ==
    /\ bsp = "init"
    /\ ap' = [ap EXCEPT ![This] = "init"]
    /\ expected' = total + 1
    /\ bsp' = "wait"
    /\ UNCHANGED <<turn, word, total, rsp, index, online, freed, answer>>

(* try_start_ap: the startup interrupt, sent twice if need be.  The        *)
(* processor may take its time.                                            *)
SendStartup ==
    /\ bsp = "wait" /\ ap[This] = "init" /\ answer[This] # "never"
    /\ total # expected
    /\ ap' = [ap EXCEPT ![This] = "trampoline"]
    /\ UNCHANGED <<bsp, turn, word, expected, total, rsp, index, online, freed, answer>>

(* Fault: the boot CPU does not wait for the count to change. *)
SeeOnlineAtOnce ==
    /\ bsp = "wait" /\ ap[This] # "init"
    /\ turn' = turn + 1
    /\ bsp' = "next"
    /\ UNCHANGED <<word, expected, total, ap, rsp, index, online, freed, answer>>

(* try_start_ap: the processor is taken to be online *)
SeeOnline ==
    /\ bsp = "wait" /\ total = expected
    /\ turn' = turn + 1
    /\ bsp' = "next"
    /\ UNCHANGED <<word, expected, total, ap, rsp, index, online, freed, answer>>


(* try_start_ap returns false after 100 ms, which smp_init does not look   *)
(* at.  The count may also have passed the one that is waited for.         *)
GiveUp ==
    /\ bsp = "wait"
    /\ \/ answer[This] = "never"
       \/ answer[This] = "late" /\ ap[This] # "init"
       \/ total > expected
    /\ turn' = turn + 1
    /\ bsp' = "next"
    /\ UNCHANGED <<word, expected, total, ap, rsp, index, online, freed, answer>>

(* ap_trampoline: the stack pointer is loaded *)
LoadStack(a) ==
    /\ ap[a] = "trampoline"
    /\ rsp' = [rsp EXCEPT ![a] = word]
    /\ ap' = [ap EXCEPT ![a] = "entry"]
    /\ UNCHANGED <<bsp, turn, word, expected, total, index, online, freed, answer>>

(* ap_entry: fetch_add, which lets the boot CPU go on *)
ApEntry(a) ==
    /\ ap[a] = "entry"
    /\ index' = [index EXCEPT ![a] = total]
    /\ total' = total + 1
    /\ ap' = [ap EXCEPT ![a] = "setup"]
    /\ UNCHANGED <<bsp, turn, word, expected, rsp, online, freed, answer>>

(* setup_cpu: the storage of the index is built in place, the registers    *)
(* are set and the CPU marks itself online.                                *)
SetupCpu(a) ==
    /\ ap[a] = "setup"
    /\ online' = online \cup {index[a]}
    /\ ap' = [ap EXCEPT ![a] = "online"]
    /\ UNCHANGED <<bsp, turn, word, expected, total, rsp, index, freed, answer>>

Bsp == NextAp \/ FreeTrampoline \/ SendInit \/ SendStartup \/ SeeOnline \/ GiveUp

SmpNext ==
    \/ Bsp
    \/ \E a \in Ap : LoadStack(a) \/ ApEntry(a) \/ SetupCpu(a)

(* CPUs do not stop between instructions. *)
SmpFairness ==
    /\ WF_smpVars(Bsp)
    /\ \A a \in Ap : WF_smpVars(LoadStack(a) \/ ApEntry(a) \/ SetupCpu(a))

SmpSpec == SmpInit /\ [][SmpNext]_smpVars /\ SmpFairness
-----------------------------------------------------------------------------
(* The stack allocated for a processor is "kept alive and used for each    *)
(* AP's idle thread" (smp_init): no two processors run on one stack.       *)
StacksPrivate ==
    \A a, b \in Ap : rsp[a] = rsp[b] /\ rsp[a] # NoStack => a = b

(* "All APs started, we can now free the 0x8000 frame" (smp_init): no      *)
(* processor is still in the trampoline once its memory may belong to      *)
(* something else.                                                         *)
TrampolineStays ==
    freed => \A a \in Ap : ap[a] # "trampoline"

(* setup_cpu gives every CPU a storage slot of its own, inside the list of *)
(* MaxCpus slots, the first of which is the boot CPU's, and a CPU is only  *)
(* in the set of the online ones once it has built its slot.               *)
SlotsPrivate ==
    \A a, b \in {x \in Ap : ap[x] \in {"setup", "online"}} :
        /\ index[a] \in 1 .. MaxCpus - 1 /\ (index[a] = index[b] => a = b)
        /\ ap[a] = "setup" => index[a] \notin online

(* As long as no processor answers after smp_init has given it up, the     *)
(* processors share neither stacks nor slots and the trampoline stays for  *)
(* as long as it is run, whichever of them answer at all.                  *)
PromptBootIsSafe ==
    (\A a \in Ap : answer[a] # "late") => StacksPrivate /\ TrampolineStays /\ SlotsPrivate

=============================================================================
