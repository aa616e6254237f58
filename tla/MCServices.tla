----------------------------- MODULE MCServices -----------------------------
(***************************************************************************)
(* Starting the machine, stopping it, and the services of a running one,   *)
(* in one state space.  The parts share nothing in these models: part says *)
(* which of them a behaviour is about, and the others stay as they begin.  *)
(***************************************************************************)
EXTENDS SmpBoot, Panic, ConfigService, Shell

CONSTANTS a1, a2, a3

VARIABLE part

MCOrder == <<a1, a2, a3>>
-----------------------------------------------------------------------------
(* What a behaviour does not look at starts in one way. *)
Only(name, fixed) == part = name \/ fixed

MCInit ==
    /\ part \in {"smp", "panic", "config", "shell"}
    /\ SmpInit /\ Only("smp", \A a \in Ap : answer[a] = "prompt")
    /\ ShellInit /\ Only("shell", shLine = <<" ">>)
    /\ PanicInit /\ ConfigInit

MCNext ==
    \/ part = "smp" /\ SmpNext /\ UNCHANGED <<pnVars, csVars, shVars, part>>
    \/ part = "panic" /\ PanicNext /\ UNCHANGED <<smpVars, csVars, shVars, part>>
    \/ part = "config" /\ ConfigNext /\ UNCHANGED <<smpVars, pnVars, shVars, part>>
    \/ part = "shell" /\ ShellNext /\ UNCHANGED <<smpVars, pnVars, csVars, part>>

(* The fairness of SmpBoot, Panic, ConfigService and Shell, of the part    *)
(* that runs                                                               *)
MCSpec ==
    /\ MCInit
    /\ [][MCNext]_<<smpVars, pnVars, csVars, shVars, part>>
    /\ WF_smpVars(part = "smp" /\ Bsp)
    /\ \A a \in Ap : WF_smpVars(part = "smp" /\ (LoadStack(a) \/ ApEntry(a) \/ SetupCpu(a)))
    /\ \A c \in PanicCpus : /\ WF_pnVars(part = "panic" /\ Panicking(c))
                            /\ WF_pnVars(part = "panic" /\ TakeNmi(c))
    /\ WF_csVars(part = "config" /\ ServerStep)
    /\ WF_csVars(part = "config" /\ WatcherNext)
    /\ \A a \in Askers : WF_csVars(part = "config" /\ AskerNext(a))
    /\ WF_shVars(part = "shell" /\ ExecuteStep)
    /\ \A p \in 1 .. LineLength : WF_shVars(part = "shell" /\ p \in DOMAIN shProcs /\ ProcStep(p))
=============================================================================
