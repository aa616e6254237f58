---------------------------- MODULE SmpBootProofs ----------------------------
(***************************************************************************)
(* smp_init is safe with any number of processors, in any order, as long   *)
(* as those that answer the startup interrupt at all do so in time.        *)
(***************************************************************************)
EXTENDS SmpBoot, FiniteSetTheorems, FunctionTheorems, TLAPS

Prompt == \A a \in Ap : answer[a] # "late"

BootTypeOK ==
    /\ bsp \in {"next", "init", "wait", "done"}
    /\ turn \in 1 .. Cardinality(Ap) + 1
    /\ bsp \in {"init", "wait"} => turn \in Turns
    /\ word \in {NoStack} \cup Turns
    /\ expected \in Nat
    /\ total \in Nat \ {0}
    /\ ap \in [Ap -> {"off", "init", "trampoline", "entry", "setup", "online"}]
    /\ rsp \in [Ap -> {NoStack} \cup Turns]
    /\ index \in [Ap -> Nat]
    /\ answer \in [Ap -> Answers]

(* Processor i of the table is where the boot CPU has left it: only the    *)
(* one whose turn it is can be on its way, and one whose turn has passed   *)
(* has counted itself or will never answer.                                *)
OneOnItsWay ==
    \A i \in Turns :
        /\ i > turn \/ (i = turn /\ bsp # "wait") => ap[Order[i]] = "off"
        /\ i < turn => ap[Order[i]] \in {"init", "setup", "online"}
        /\ i = turn /\ bsp = "wait" => ap[Order[i]] # "off"
        /\ answer[Order[i]] = "never" => ap[Order[i]] \in {"off", "init"}

(* What the boot CPU waits for is the one count that is missing, and there *)
(* is room for it.                                                         *)
CountAwaited ==
    /\ total <= MaxCpus
    /\ bsp \in {"init", "wait"} => word = turn
    /\ bsp = "init" => total < MaxCpus
    /\ bsp = "wait" =>
         IF ap[This] \in {"setup", "online"} THEN total = expected
         ELSE total + 1 = expected /\ total < MaxCpus

(* The stack of processor i is the one that was allocated in turn i. *)
OwnStacks == \A i \in Turns : rsp[Order[i]] \in {NoStack, i}

(* Indices are given out in order, each of them once. *)
Counted == {a \in Ap : ap[a] \in {"setup", "online"}}
OwnSlots ==
    /\ \A a \in Counted : index[a] \in 1 .. total - 1
    /\ \A a, b \in Counted : index[a] = index[b] => a = b
    /\ \A n \in online : n = 0 \/ \E a \in Ap : ap[a] = "online" /\ index[a] = n

BootInv ==
    /\ BootTypeOK
    /\ Prompt => OneOnItsWay /\ CountAwaited /\ OwnStacks /\ OwnSlots
    /\ freed => bsp = "done"
-----------------------------------------------------------------------------
(* Order lists every processor once. *)
LEMMA OrderOnce ==
    /\ Cardinality(Ap) \in Nat
    /\ \A i \in Turns : Order[i] \in Ap
    /\ \A a \in Ap : \E i \in Turns : Order[i] = a
    /\ \A i, j \in Turns : Order[i] = Order[j] => i = j
<1>1. Cardinality(Ap) \in Nat
  BY SmpBootAssumption, FS_CardinalityType
<1>2. /\ \A i \in Turns : Order[i] \in Ap
      /\ \A a \in Ap : \E i \in Turns : Order[i] = a
  BY SmpBootAssumption DEF Turns
<1>3. IsFiniteSet(Turns) /\ Cardinality(Turns) = Cardinality(Ap)
  BY <1>1, FS_Interval DEF Turns
<1>4. Order \in Surjection(Turns, Ap)
  BY <1>2, SmpBootAssumption DEF Turns, Surjection
<1>5. Order \in Injection(Turns, Ap)
  BY <1>3, <1>4, FS_SurjSameCardinalityImpliesInj
<1>6. \A i, j \in Turns : Order[i] = Order[j] => i = j
  BY <1>5 DEF Injection, IsInjective
<1> QED  BY <1>1, <1>2, <1>6

LEMMA BootInvInit == SmpInit => BootInv
<1> SUFFICES ASSUME SmpInit PROVE BootInv
  OBVIOUS
<1> USE DEF SmpInit
<1>1. BootTypeOK
  <2>1. Cardinality(Ap) \in Nat
    BY OrderOnce
  <2>2. turn \in 1 .. Cardinality(Ap) + 1
    BY <2>1
  <2>3. /\ ap \in [Ap -> {"off", "init", "trampoline", "entry", "setup", "online"}]
        /\ rsp \in [Ap -> {NoStack} \cup Turns] /\ index \in [Ap -> Nat]
    OBVIOUS
  <2>4. expected \in Nat /\ total \in Nat \ {0} /\ word \in {NoStack} \cup Turns
    OBVIOUS
  <2> QED  BY <2>2, <2>3, <2>4, Zenon DEF BootTypeOK
<1>2. OneOnItsWay
  BY OrderOnce DEF OneOnItsWay, Turns
<1>3. CountAwaited
  BY SmpBootAssumption DEF CountAwaited
<1>4. OwnStacks
  BY OrderOnce DEF OwnStacks
<1>5. OwnSlots
  BY DEF OwnSlots, Counted
<1> QED  BY <1>1, <1>2, <1>3, <1>4, <1>5 DEF BootInv

LEMMA BootTypeNext ==
    ASSUME BootTypeOK, freed => bsp = "done", [SmpNext]_smpVars
    PROVE  BootTypeOK' /\ (freed => bsp = "done")'
<1> USE SmpBootAssumption, OrderOnce DEF BootTypeOK, Turns
<1>1. CASE NextAp          BY <1>1 DEF NextAp
<1>2. CASE FreeTrampoline  BY <1>2 DEF FreeTrampoline
<1>3. CASE SendInit        BY <1>3 DEF SendInit, This
<1>4. CASE SendStartup     BY <1>4 DEF SendStartup, This
<1>5. CASE SeeOnline       BY <1>5 DEF SeeOnline
<1>6. CASE GiveUp          BY <1>6 DEF GiveUp
<1>7. ASSUME NEW a \in Ap, LoadStack(a) PROVE BootTypeOK' /\ (freed => bsp = "done")'
  BY <1>7 DEF LoadStack
<1>8. ASSUME NEW a \in Ap, ApEntry(a) PROVE BootTypeOK' /\ (freed => bsp = "done")'
  BY <1>8 DEF ApEntry
<1>9. ASSUME NEW a \in Ap, SetupCpu(a) PROVE BootTypeOK' /\ (freed => bsp = "done")'
  BY <1>9 DEF SetupCpu
<1>10. CASE UNCHANGED smpVars
  BY <1>10 DEF smpVars
<1> QED
  BY <1>1, <1>2, <1>3, <1>4, <1>5, <1>6, <1>7, <1>8, <1>9, <1>10 DEF SmpNext, Bsp

LEMMA BootStep ==
    ASSUME BootInv, Prompt, [SmpNext]_smpVars
    PROVE  (OneOnItsWay /\ CountAwaited /\ OwnStacks /\ OwnSlots)'
<1> USE SmpBootAssumption, OrderOnce
<1>0. BootTypeOK /\ OneOnItsWay /\ CountAwaited /\ OwnStacks /\ OwnSlots
  BY DEF BootInv
<1>t. turn \in Int /\ total \in Int /\ expected \in Int
  BY <1>0 DEF BootTypeOK
<1>1. CASE NextAp
  <2>1. OneOnItsWay' /\ OwnStacks'
    BY <1>0, <1>1 DEF NextAp, OneOnItsWay, OwnStacks
  <2>2. CountAwaited'
    BY <1>0, <1>1 DEF NextAp, CountAwaited, BootTypeOK
  <2>3. OwnSlots'
    BY <1>0, <1>1 DEF NextAp, OwnSlots, Counted
  <2> QED  BY <2>1, <2>2, <2>3
<1>2. CASE FreeTrampoline
  <2>1. OneOnItsWay' /\ OwnStacks'
    BY <1>0, <1>2 DEF FreeTrampoline, OneOnItsWay, OwnStacks
  <2>2. CountAwaited'
    BY <1>0, <1>2 DEF FreeTrampoline, CountAwaited
  <2>3. OwnSlots'
    BY <1>0, <1>2 DEF FreeTrampoline, OwnSlots, Counted
  <2> QED  BY <2>1, <2>2, <2>3
<1>3. CASE SendInit
  <2>1. turn \in Turns /\ This \in Ap /\ This = Order[turn] /\ ap[This] = "off"
    BY <1>0, <1>3 DEF SendInit, This, BootTypeOK, OneOnItsWay
  <2>2. ap' = [ap EXCEPT ![This] = "init"] /\ turn' = turn /\ This' = This /\ bsp' = "wait"
    BY <1>3 DEF SendInit, This
  <2>3. \A i \in Turns : ap'[Order[i]] = IF i = turn THEN "init" ELSE ap[Order[i]]
    BY <1>0, <2>1, <2>2 DEF BootTypeOK
  <2>4. OneOnItsWay'
    BY <1>0, <1>3, <1>t, <2>1, <2>3 DEF SendInit, OneOnItsWay, Turns
  <2>5. CountAwaited'
    BY <1>0, <1>3, <1>t, <2>1, <2>2 DEF SendInit, CountAwaited, BootTypeOK
  <2>6. OwnStacks'
    BY <1>0, <1>3 DEF SendInit, OwnStacks
  <2>7. OwnSlots'
    BY <1>0, <1>3, <2>1, <2>2 DEF SendInit, OwnSlots, Counted, BootTypeOK
  <2> QED  BY <2>4, <2>5, <2>6, <2>7
<1>4. CASE SendStartup
  <2>1. turn \in Turns /\ This \in Ap /\ This = Order[turn] /\ ap[This] = "init"
    BY <1>0, <1>4 DEF SendStartup, This, BootTypeOK
  <2>2. ap' = [ap EXCEPT ![This] = "trampoline"] /\ turn' = turn /\ This' = This
    BY <1>4 DEF SendStartup, This
  <2>3. \A i \in Turns : ap'[Order[i]] = IF i = turn THEN "trampoline" ELSE ap[Order[i]]
    BY <1>0, <2>1, <2>2 DEF BootTypeOK
  <2>4. OneOnItsWay'
    BY <1>0, <1>4, <1>t, <2>1, <2>3 DEF SendStartup, OneOnItsWay, Turns
  <2>5. CountAwaited'
    BY <1>0, <1>4, <1>t, <2>1, <2>2 DEF SendStartup, CountAwaited, BootTypeOK
  <2>6. OwnStacks'
    BY <1>0, <1>4 DEF SendStartup, OwnStacks
  <2>7. OwnSlots'
    BY <1>0, <1>4, <2>1, <2>2 DEF SendStartup, OwnSlots, Counted, BootTypeOK
  <2> QED  BY <2>4, <2>5, <2>6, <2>7
(* The turn only passes when the processor has counted itself or does not  *)
(* answer.                                                                 *)
<1>5. CASE SeeOnline \/ GiveUp
  <2>1. /\ bsp = "wait" /\ turn' = turn + 1 /\ bsp' = "next"
        /\ UNCHANGED <<word, expected, total, ap, rsp, index, online, answer>>
    BY <1>5 DEF SeeOnline, GiveUp
  <2>2. turn \in Turns /\ This \in Ap /\ This = Order[turn] /\ ap[This] # "off"
    BY <1>0, <2>1 DEF This, BootTypeOK, OneOnItsWay
  <2>3. ap[This] \in {"init", "setup", "online"}
    <3>1. CASE total = expected
      BY <1>0, <1>t, <2>1, <3>1 DEF CountAwaited
    <3>2. CASE answer[This] = "never"
      BY <1>0, <2>2, <3>2 DEF OneOnItsWay
    <3>3. total <= expected
      BY <1>0, <1>t, <2>1 DEF CountAwaited
    <3> QED  BY <1>5, <1>t, <2>2, <3>1, <3>2, <3>3 DEF SeeOnline, GiveUp, Prompt
  <2>4. OneOnItsWay'
    BY <1>0, <1>t, <2>1, <2>2, <2>3 DEF OneOnItsWay, Turns
  <2>5. CountAwaited'
    BY <1>0, <2>1 DEF CountAwaited
  <2>6. OwnStacks' /\ OwnSlots'
    BY <1>0, <2>1 DEF OwnStacks, OwnSlots, Counted
  <2> QED  BY <2>4, <2>5, <2>6
(* The processor that runs the trampoline is the one the stack is for. *)
<1>6. ASSUME NEW a \in Ap, ap[a] \in {"trampoline", "entry"}
      PROVE  bsp = "wait" /\ turn \in Turns /\ a = This /\ word = turn
  <2>1. PICK i \in Turns : Order[i] = a
    BY OrderOnce
  <2>2. i = turn /\ bsp = "wait"
    BY <1>0, <1>6, <1>t, <2>1 DEF OneOnItsWay, Turns
  <2> QED  BY <1>0, <2>1, <2>2 DEF This, CountAwaited
<1>7. ASSUME NEW a \in Ap, LoadStack(a)
      PROVE  (OneOnItsWay /\ CountAwaited /\ OwnStacks /\ OwnSlots)'
  <2>1. bsp = "wait" /\ turn \in Turns /\ a = Order[turn] /\ word = turn
    BY <1>6, <1>7 DEF LoadStack, This
  <2>2. /\ ap' = [ap EXCEPT ![a] = "entry"] /\ rsp' = [rsp EXCEPT ![a] = turn]
        /\ UNCHANGED <<bsp, turn, word, expected, total, index, online, answer>>
        /\ ap[a] = "trampoline"
    BY <1>7, <2>1 DEF LoadStack
  <2>3. \A i \in Turns : /\ ap'[Order[i]] = IF i = turn THEN "entry" ELSE ap[Order[i]]
                         /\ rsp'[Order[i]] = IF i = turn THEN turn ELSE rsp[Order[i]]
    BY <1>0, <2>1, <2>2 DEF BootTypeOK
  <2>4. OneOnItsWay'
    BY <1>0, <1>t, <2>1, <2>2, <2>3 DEF OneOnItsWay, Turns
  <2>5. CountAwaited'
    BY <1>0, <1>t, <2>1, <2>2, <2>3 DEF CountAwaited, This, BootTypeOK
  <2>6. OwnStacks'
    BY <1>0, <2>3 DEF OwnStacks
  <2>7. OwnSlots'
    BY <1>0, <2>2 DEF OwnSlots, Counted, BootTypeOK
  <2> QED  BY <2>4, <2>5, <2>6, <2>7
<1>8. ASSUME NEW a \in Ap, ApEntry(a)
      PROVE  (OneOnItsWay /\ CountAwaited /\ OwnStacks /\ OwnSlots)'
  <2>1. bsp = "wait" /\ turn \in Turns /\ a = Order[turn] /\ word = turn
    BY <1>6, <1>8 DEF ApEntry, This
  <2>2. /\ ap' = [ap EXCEPT ![a] = "setup"] /\ index' = [index EXCEPT ![a] = total]
        /\ total' = total + 1
        /\ UNCHANGED <<bsp, turn, word, expected, rsp, online, answer>>
        /\ ap[a] = "entry"
    BY <1>8 DEF ApEntry
  <2>3. \A i \in Turns : ap'[Order[i]] = IF i = turn THEN "setup" ELSE ap[Order[i]]
    BY <1>0, <2>1, <2>2 DEF BootTypeOK
  <2>4. OneOnItsWay'
    BY <1>0, <1>t, <2>1, <2>2, <2>3 DEF OneOnItsWay, Turns
  <2>5. CountAwaited'
    BY <1>0, <1>t, <2>1, <2>2, <2>3 DEF CountAwaited, This, BootTypeOK
  <2>6. OwnStacks'
    BY <1>0, <2>2 DEF OwnStacks
  <2>7. OwnSlots'
    <3>1. Counted' = Counted \cup {a} /\ a \notin Counted
      BY <1>0, <2>2 DEF Counted, BootTypeOK
    <3>2. \A b \in Ap : index'[b] = IF b = a THEN total ELSE index[b]
      BY <1>0, <2>2 DEF BootTypeOK
    <3>3. total \in Nat \ {0} /\ \A b \in Counted : b \in Ap /\ index[b] \in 1 .. total - 1
      BY <1>0 DEF OwnSlots, Counted, BootTypeOK
    <3>4. \A b \in Counted' : index'[b] \in 1 .. total' - 1
      BY <2>2, <3>1, <3>2, <3>3
    <3>5. \A b, c \in Counted' : index'[b] = index'[c] => b = c
      BY <1>0, <3>1, <3>2, <3>3 DEF OwnSlots
    <3>6. \A n \in online' : n = 0 \/ \E b \in Ap : ap'[b] = "online" /\ index'[b] = n
      BY <1>0, <2>2 DEF OwnSlots, BootTypeOK
    <3> QED  BY <3>4, <3>5, <3>6 DEF OwnSlots
  <2> QED  BY <2>4, <2>5, <2>6, <2>7
<1>9. ASSUME NEW a \in Ap, SetupCpu(a)
      PROVE  (OneOnItsWay /\ CountAwaited /\ OwnStacks /\ OwnSlots)'
  <2>2. /\ ap' = [ap EXCEPT ![a] = "online"] /\ online' = online \cup {index[a]}
        /\ UNCHANGED <<bsp, turn, word, expected, total, rsp, index, answer>>
        /\ ap[a] = "setup"
    BY <1>9 DEF SetupCpu
  <2>3. \A b \in Ap : ap'[b] = IF b = a THEN "online" ELSE ap[b]
    BY <1>0, <2>2 DEF BootTypeOK
  <2>4. OneOnItsWay'
    BY <1>0, <1>t, <2>2, <2>3 DEF OneOnItsWay, Turns
  <2>5. CountAwaited'
    BY <1>0, <2>2, <2>3 DEF CountAwaited, This, BootTypeOK
  <2>6. OwnStacks'
    BY <1>0, <2>2 DEF OwnStacks
  <2>7. OwnSlots'
    <3>1. Counted' = Counted
      BY <2>2, <2>3 DEF Counted
    <3>2. \A n \in online' : n = 0 \/ \E b \in Ap : ap'[b] = "online" /\ index'[b] = n
      BY <1>0, <2>2, <2>3 DEF OwnSlots
    <3> QED  BY <1>0, <2>2, <3>1, <3>2 DEF OwnSlots
  <2> QED  BY <2>4, <2>5, <2>6, <2>7
<1>10. CASE UNCHANGED smpVars
  BY <1>0, <1>10 DEF smpVars, OneOnItsWay, CountAwaited, OwnStacks, OwnSlots, Counted, This
<1> QED
  BY <1>1, <1>2, <1>3, <1>4, <1>5, <1>7, <1>8, <1>9, <1>10 DEF SmpNext, Bsp

(* However smp_init and the processors interleave, the boot CPU is where   *)
(* BootInv says; without late answers there is one processor on its way.   *)
THEOREM BootInvariant == SmpSpec => []BootInv
<1>1. BootInv /\ [SmpNext]_smpVars => BootInv'
  <2> SUFFICES ASSUME BootInv, [SmpNext]_smpVars PROVE BootInv'
    OBVIOUS
  <2>1. BootTypeOK' /\ (freed => bsp = "done")'
    BY BootTypeNext DEF BootInv
  <2>2. Prompt' => Prompt
    BY DEF SmpNext, smpVars, Bsp, NextAp, FreeTrampoline, SendInit, SendStartup, SeeOnline, GiveUp,
           LoadStack, ApEntry, SetupCpu, Prompt
  <2> QED  BY <2>1, <2>2, BootStep DEF BootInv
<1> QED  BY <1>1, BootInvInit, PTL DEF SmpSpec

(* No two processors share a stack or a storage slot, slots are used by    *)
(* one CPU before they are announced, and the trampoline is not freed      *)
(* under a processor that runs it, if no processor answers late.           *)
THEOREM PromptBoot == SmpSpec => []PromptBootIsSafe
<1>1. BootInv => PromptBootIsSafe
  <2> SUFFICES ASSUME BootInv, Prompt PROVE StacksPrivate /\ TrampolineStays /\ SlotsPrivate
    BY DEF PromptBootIsSafe, Prompt
  <2>0. BootTypeOK /\ OneOnItsWay /\ CountAwaited /\ OwnStacks /\ OwnSlots /\ (freed => bsp = "done")
    BY DEF BootInv
  <2>1. StacksPrivate
    BY <2>0, OrderOnce DEF StacksPrivate, OwnStacks
  <2>2. TrampolineStays
    BY <2>0, OrderOnce DEF TrampolineStays, OneOnItsWay, BootTypeOK, Turns
  <2>3. SlotsPrivate
    <3>1. \A a \in Counted : index[a] \in 1 .. MaxCpus - 1
      BY <2>0, SmpBootAssumption DEF OwnSlots, CountAwaited, BootTypeOK
    <3>2. ASSUME NEW a \in Ap, ap[a] = "setup", index[a] \in online PROVE FALSE
      <4>1. a \in Counted /\ index[a] # 0
        BY <2>0, <3>2 DEF OwnSlots, Counted
      <4>2. PICK b \in Ap : ap[b] = "online" /\ index[b] = index[a]
        BY <2>0, <3>2, <4>1 DEF OwnSlots
      <4> QED  BY <2>0, <3>2, <4>1, <4>2 DEF OwnSlots, Counted
    <3> QED  BY <2>0, <3>1, <3>2 DEF SlotsPrivate, OwnSlots, Counted
  <2> QED  BY <2>1, <2>2, <2>3
<1> QED  BY <1>1, BootInvariant, PTL
=============================================================================
