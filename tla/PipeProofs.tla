----------------------------- MODULE PipeProofs -----------------------------
(***************************************************************************)
(* The counters of a pipe are the numbers of the handles on its ends, for  *)
(* any number of processes, pipes and descriptors and any buffer size.     *)
(***************************************************************************)
EXTENDS Pipe, FiniteSetTheorems, TLAPS

State == {"unborn", "building", "user", "exec", "dead", "reaped", "wait", "dup",
          "read_wait", "read_go", "write_wait", "write_go"}
InTransfer == {"read_wait", "read_go", "write_wait", "write_go"}
Table == [Fd -> Handle \cup {None}]
Count == [ahead : 0 .. Size, behind : 0 .. Size]

PipeTypeOK ==
    /\ state \in [Proc -> State]
    /\ fds \in [Proc -> Table]
    /\ DOMAIN arg = Proc /\ DOMAIN child = Proc /\ DOMAIN raced = Proc
    /\ readers \in [Pipes -> Int] /\ writers \in [Pipes -> Int]
    /\ buffer \in [Pipes -> Count]
    /\ made \subseteq Pipes

NoHandles(table) == \A f \in Fd : table[f] = None

(* A system call keeps the descriptors it works on: the process lock is    *)
(* held, and nobody else writes the table.  dup has emptied its target.    *)
(* A table is empty before its process exists, and every handle is one of  *)
(* a pipe that was made.                                                   *)
CallOK(p) ==
    /\ state[p] \in InTransfer => arg[p][1] \in Fd /\ fds[p][arg[p][1]] # None
    /\ state[p] = "dup" => /\ arg[p][1] \in Fd /\ fds[p][arg[p][1]] # None
                           /\ arg[p][2] \in Fd /\ fds[p][arg[p][2]] = None
    /\ state[p] = "exec" => child[p] \in Proc
    /\ state[p] = "unborn" => NoHandles(fds[p])
    /\ \A f \in Fd : fds[p][f] # None => fds[p][f].pipe \in made
CallsOK == \A p \in Proc : CallOK(p)

PipeInv == PipeTypeOK /\ CallsOK /\ CountersMatchHandles
-----------------------------------------------------------------------------
(* Process::allocate_fd returns a free descriptor when there is one. *)
LEMMA FirstFree ==
    ASSUME NEW free \in SUBSET Fd, free # {}
    PROVE  AllocateFd(free) \in free
<1> DEFINE R == OpToRel(<, Nat)
<1>1. free \subseteq Nat
  BY PipeAssumption DEF Fd
<1>r. IsWellFoundedOn(R, Nat)
  BY NatLessThanWellFounded, Zenon
<1>s. \A f, g \in Nat : g < f => <<g, f>> \in R
  BY DEF OpToRel
<1> HIDE DEF R
<1>m. \E f \in free : \A g \in free : ~(<<g, f>> \in R)
  BY <1>1, <1>r, WFMin, Zenon
<1>2. PICK f \in free : \A g \in free : ~(<<g, f>> \in R)
  BY <1>m
<1>3. ASSUME NEW g \in free PROVE f <= g
  <2>1. f \in Nat /\ g \in Nat /\ ~(<<g, f>> \in R)
    BY <1>1, <1>2
  <2>2. ~(g < f)
    BY <1>s, <2>1
  <2> QED  BY <2>1, <2>2
<1> QED  BY <1>2, <1>3 DEF AllocateFd

Place == Proc \X Fd

(* The handles on one end of a pipe in all the tables t *)
On(t, i, d) == {x \in Proc \X Fd : x[2] \in Handles(t[x[1]], i, d)}
Tables == [Proc -> Table]
Is(h, i, d) == h # None /\ h.pipe = i /\ h.dir = d

LEMMA OnIs ==
    ASSUME NEW t \in Tables, NEW i, NEW d
    PROVE  /\ On(t, i, d) \in SUBSET Place
           /\ \A p \in Proc, f \in Fd : <<p, f>> \in On(t, i, d) <=> Is(t[p][f], i, d)
BY DEF On, Is, Handles, Tables, Table, Place

LEMMA SamePairs ==
    ASSUME NEW S \in SUBSET Place, NEW T \in SUBSET Place,
           \A p \in Proc, f \in Fd : <<p, f>> \in S <=> <<p, f>> \in T
    PROVE  S = T
BY DEF Place

LEMMA OnFinite ==
    ASSUME NEW S \in SUBSET Place
    PROVE  IsFiniteSet(S) /\ Cardinality(S) \in Nat
<1>1. IsFiniteSet(Proc) /\ IsFiniteSet(Fd)
  BY PipeAssumption, FS_Interval DEF Fd
<1>2. IsFiniteSet(Place)
  BY <1>1, FS_Product DEF Place
<1> QED  BY <1>2, FS_Subset, FS_CardinalityType

Weight(h, i, d) == IF Is(h, i, d) THEN 1 ELSE 0

(* u is t but for one place, or for one table. *)
Put(t, u, p, f, h) ==
    \A q \in Proc, g \in Fd : u[q][g] = IF q = p /\ g = f THEN h ELSE t[q][g]
PutTable(t, u, q, table) ==
    \A p \in Proc, f \in Fd : u[p][f] = IF p = q THEN table[f] ELSE t[p][f]

(* A handle that goes into an empty place adds to one count; one that      *)
(* leaves takes from it.                                                   *)
LEMMA GainOne ==
    ASSUME NEW t \in Tables, NEW u \in Tables, NEW p \in Proc, NEW f \in Fd, NEW h \in Handle,
           t[p][f] = None, Put(t, u, p, f, h), NEW i, NEW d
    PROVE  Cardinality(On(u, i, d)) = Cardinality(On(t, i, d)) + Weight(h, i, d)
<1>1. \A q \in Proc, g \in Fd : u[q][g] = IF q = p /\ g = f THEN h ELSE t[q][g]
  BY DEF Put
<1>2. On(u, i, d) = IF Is(h, i, d) THEN On(t, i, d) \cup {<<p, f>>} ELSE On(t, i, d)
  <2> DEFINE S == IF Is(h, i, d) THEN On(t, i, d) \cup {<<p, f>>} ELSE On(t, i, d)
  <2>1. On(u, i, d) \in SUBSET Place /\ S \in SUBSET Place
    BY OnIs DEF Place
  <2>2. ASSUME NEW q \in Proc, NEW g \in Fd
        PROVE  <<q, g>> \in On(u, i, d) <=> <<q, g>> \in S
    <3>2. /\ <<q, g>> \in On(u, i, d) <=> Is(u[q][g], i, d)
          /\ <<q, g>> \in On(t, i, d) <=> Is(t[q][g], i, d)
      BY OnIs
    <3>3. ~Is(None, i, d)
      BY DEF Is
    <3>4. CASE q = p /\ g = f
      <4>1. u[q][g] = h /\ t[q][g] = None
        BY <1>1, <3>4
      <4> QED  BY <3>2, <3>3, <3>4, <4>1
    <3>5. CASE ~(q = p /\ g = f)
      <4>1. u[q][g] = t[q][g] /\ <<q, g>> # <<p, f>>
        BY <1>1, <3>5
      <4> QED  BY <3>2, <4>1
    <3> QED  BY <3>4, <3>5
  <2> HIDE DEF S
  <2>3. On(u, i, d) = S
    BY <2>1, <2>2, SamePairs
  <2> QED  BY <2>3 DEF S
<1>3. <<p, f>> \notin On(t, i, d) /\ IsFiniteSet(On(t, i, d)) /\ Cardinality(On(t, i, d)) \in Nat
  BY OnIs, OnFinite DEF Is
<1>4. Cardinality(On(t, i, d) \cup {<<p, f>>}) = Cardinality(On(t, i, d)) + 1
  BY <1>3, FS_AddElement, Zenon
<1> QED  BY <1>2, <1>3, <1>4 DEF Weight

LEMMA LoseOne ==
    ASSUME NEW t \in Tables, NEW u \in Tables, NEW p \in Proc, NEW f \in Fd,
           t[p][f] # None, Put(t, u, p, f, None), NEW i, NEW d
    PROVE  Cardinality(On(u, i, d)) = Cardinality(On(t, i, d)) - Weight(t[p][f], i, d)
<1>1. \A q \in Proc, g \in Fd : u[q][g] = IF q = p /\ g = f THEN None ELSE t[q][g]
  BY DEF Put
<1>2. On(u, i, d) = IF Is(t[p][f], i, d) THEN On(t, i, d) \ {<<p, f>>} ELSE On(t, i, d)
  <2> DEFINE S == IF Is(t[p][f], i, d) THEN On(t, i, d) \ {<<p, f>>} ELSE On(t, i, d)
  <2>1. On(u, i, d) \in SUBSET Place /\ S \in SUBSET Place
    BY OnIs DEF Place
  <2>2. ASSUME NEW q \in Proc, NEW g \in Fd
        PROVE  <<q, g>> \in On(u, i, d) <=> <<q, g>> \in S
    <3>2. /\ <<q, g>> \in On(u, i, d) <=> Is(u[q][g], i, d)
          /\ <<q, g>> \in On(t, i, d) <=> Is(t[q][g], i, d)
      BY OnIs
    <3>3. ~Is(None, i, d)
      BY DEF Is
    <3>4. CASE q = p /\ g = f
      <4>1. u[q][g] = None /\ t[q][g] = t[p][f]
        BY <1>1, <3>4
      <4> QED  BY <3>2, <3>3, <3>4, <4>1
    <3>5. CASE ~(q = p /\ g = f)
      <4>1. u[q][g] = t[q][g] /\ <<q, g>> # <<p, f>>
        BY <1>1, <3>5
      <4> QED  BY <3>2, <4>1
    <3> QED  BY <3>4, <3>5
  <2> HIDE DEF S
  <2>3. On(u, i, d) = S
    BY <2>1, <2>2, SamePairs, Zenon
  <2> QED  BY <2>3 DEF S
<1>3. IsFiniteSet(On(t, i, d)) /\ Cardinality(On(t, i, d)) \in Nat
  BY OnIs, OnFinite
<1>4. ASSUME Is(t[p][f], i, d)
      PROVE  Cardinality(On(t, i, d) \ {<<p, f>>}) = Cardinality(On(t, i, d)) - 1
  <2>1. <<p, f>> \in On(t, i, d)
    BY <1>4, OnIs
  <2> QED  BY <1>3, <2>1, FS_RemoveElement, Zenon
<1> QED  BY <1>2, <1>3, <1>4 DEF Weight

(* A whole table that was empty and is filled adds what it holds. *)
LEMMA GainTable ==
    ASSUME NEW t \in Tables, NEW u \in Tables, NEW q \in Proc, NEW table \in Table,
           NoHandles(t[q]), PutTable(t, u, q, table), NEW i, NEW d
    PROVE  Cardinality(On(u, i, d)) = Cardinality(On(t, i, d)) + Cardinality(Handles(table, i, d))
<1> DEFINE H == Handles(table, i, d)
           N == {q} \X H
<1>1. H \subseteq Fd /\ IsFiniteSet(H)
  <2>1. IsFiniteSet(Fd)
    BY PipeAssumption, FS_Interval DEF Fd
  <2>2. H \in SUBSET Fd
    BY DEF Handles
  <2> QED  BY <2>1, <2>2, FS_Subset
<1>2. \A p \in Proc, f \in Fd : u[p][f] = IF p = q THEN table[f] ELSE t[p][f]
  BY DEF PutTable
<1>3. \A f \in Fd : f \in H <=> Is(table[f], i, d)
  BY DEF Handles, Is
<1>4. On(u, i, d) = On(t, i, d) \cup N
  <2>1. On(u, i, d) \in SUBSET Place /\ On(t, i, d) \cup N \in SUBSET Place
    BY <1>1, OnIs DEF Place
  <2> HIDE DEF H
  <2>2. ASSUME NEW p \in Proc, NEW f \in Fd
        PROVE  <<p, f>> \in On(u, i, d) <=> <<p, f>> \in On(t, i, d) \cup N
    <3>2. /\ <<p, f>> \in On(u, i, d) <=> Is(u[p][f], i, d)
          /\ <<p, f>> \in On(t, i, d) <=> Is(t[p][f], i, d)
      BY OnIs
    <3>3. ~Is(None, i, d)
      BY DEF Is
    <3>4. <<p, f>> \in N <=> p = q /\ f \in H
      OBVIOUS
    <3>5. CASE p = q
      <4>1. u[p][f] = table[f] /\ t[p][f] = None /\ (f \in H <=> Is(table[f], i, d))
        BY <1>2, <1>3, <3>5 DEF NoHandles
      <4> QED  BY <3>2, <3>3, <3>4, <3>5, <4>1
    <3>6. CASE p # q
      <4>1. u[p][f] = t[p][f]
        BY <1>2, <3>6
      <4> QED  BY <3>2, <3>4, <3>6, <4>1
    <3> QED  BY <3>5, <3>6
  <2> DEFINE S == On(t, i, d) \cup N
  <2>3. S \in SUBSET Place /\ \A p \in Proc, f \in Fd : <<p, f>> \in On(u, i, d) <=> <<p, f>> \in S
    BY <2>1, <2>2
  <2> HIDE DEF S
  <2>4. On(u, i, d) = S
    BY <2>1, <2>3, SamePairs, Zenon
  <2> QED  BY <2>4 DEF S
<1>8. On(t, i, d) \cap N = {}
  <2>1. \A f \in Fd : <<q, f>> \notin On(t, i, d)
    BY OnIs DEF Is, NoHandles
  <2> QED  BY <1>1, <2>1
<1>5. IsFiniteSet(N) /\ Cardinality(N) = Cardinality(H)
  <2> HIDE DEF H
  <2> DEFINE pair == [f \in H |-> <<q, f>>]
  <2>1. pair \in [H -> N] /\ IsInjective(pair)
    BY DEF IsInjective
  <2>2. \A x \in N : \E f \in H : pair[f] = x
    OBVIOUS
  <2>3. pair \in Bijection(H, N)
    BY <2>1, <2>2, Zenon DEF Bijection, Injection, Surjection
  <2> QED  BY <1>1, <2>3, FS_Bijection DEF ExistsBijection
<1>6. IsFiniteSet(On(t, i, d)) /\ Cardinality(On(t, i, d)) \in Nat /\ Cardinality(N) \in Nat
  BY <1>5, OnIs, OnFinite, FS_CardinalityType
<1> HIDE DEF H, N
<1>7. Cardinality(On(t, i, d) \cup N) = Cardinality(On(t, i, d)) + Cardinality(N)
  <2>1. Cardinality(On(t, i, d) \cup N)
          = Cardinality(On(t, i, d)) + Cardinality(N) - Cardinality(On(t, i, d) \cap N)
    BY <1>5, <1>6, FS_Union
  <2>2. Cardinality(On(t, i, d) \cap N) = 0
    BY <1>8, FS_EmptySet
  <2> QED  BY <1>6, <2>1, <2>2
<1> QED  BY <1>4, <1>5, <1>7 DEF H
-----------------------------------------------------------------------------
(* Pipe::attach and Pipe::detach, as the counts of each pipe *)
LEMMA DetachEffect ==
    ASSUME PipeTypeOK, NEW h \in Handle, Detach(h)
    PROVE  /\ readers' \in [Pipes -> Int] /\ writers' \in [Pipes -> Int]
           /\ \A i \in Pipes : /\ readers'[i] = readers[i] - Weight(h, i, "Read")
                               /\ writers'[i] = writers[i] - Weight(h, i, "Write")
<1>1. h # None /\ h.pipe \in Pipes /\ h.dir \in {"Read", "Write"}
  BY PipeAssumption DEF Handle, Direction
<1>2. readers \in [Pipes -> Int] /\ writers \in [Pipes -> Int]
  BY DEF PipeTypeOK
<1>3. CASE h.dir = "Read"
  BY <1>1, <1>2, <1>3 DEF Detach, Weight, Is
<1>4. CASE h.dir = "Write"
  BY <1>1, <1>2, <1>4 DEF Detach, Weight, Is
<1> QED  BY <1>1, <1>3, <1>4

LEMMA AttachEffect ==
    ASSUME PipeTypeOK, NEW table \in Table, Attach(table)
    PROVE  /\ readers' \in [Pipes -> Int] /\ writers' \in [Pipes -> Int]
           /\ \A i \in Pipes : /\ readers'[i] = readers[i] + Cardinality(Handles(table, i, "Read"))
                               /\ writers'[i] = writers[i] + Cardinality(Handles(table, i, "Write"))
<1>1. IsFiniteSet(Fd)
  BY PipeAssumption, FS_Interval DEF Fd
<1>2. ASSUME NEW i, NEW d PROVE Cardinality(Handles(table, i, d)) \in Nat
  <2>1. Handles(table, i, d) \in SUBSET Fd
    BY DEF Handles
  <2> QED  BY <1>1, <2>1, FS_Subset, FS_CardinalityType
<1>3. readers \in [Pipes -> Int] /\ writers \in [Pipes -> Int]
  BY DEF PipeTypeOK
<1> QED  BY <1>2, <1>3 DEF Attach

LEMMA OnlyOne ==
    ASSUME NEW f \in Fd, NEW h \in Handle, NEW i, NEW d
    PROVE  /\ Only(f, h) \in Table
           /\ Cardinality(Handles(Only(f, h), i, d)) = Weight(h, i, d)
<1>1. Handles(Only(f, h), i, d) = IF Is(h, i, d) THEN {f} ELSE {}
  BY DEF Handles, Only, Is
<1>2. CASE Is(h, i, d)
  BY <1>1, <1>2, FS_Singleton, Zenon DEF Weight, Only, Table
<1>3. CASE ~Is(h, i, d)
  BY <1>1, <1>3, FS_EmptySet DEF Weight, Only, Table
<1> QED  BY <1>2, <1>3

LEMMA CountersAre ==
    CountersMatchHandles
      <=> \A i \in Pipes : /\ readers[i] = Cardinality(On(fds, i, "Read"))
                           /\ writers[i] = Cardinality(On(fds, i, "Write"))
BY DEF CountersMatchHandles, HandlesOn, On

CountersKept ==
    /\ fds' \in Tables /\ readers' \in [Pipes -> Int] /\ writers' \in [Pipes -> Int]
    /\ CountersMatchHandles'

LEMMA CountersSame ==
    ASSUME PipeInv, UNCHANGED <<fds, readers, writers>>
    PROVE  CountersKept
<1>1. CountersMatchHandles'
  BY DEF PipeInv, CountersMatchHandles, HandlesOn
<1> QED  BY <1>1 DEF CountersKept, PipeInv, PipeTypeOK, Tables

(* sys_close, ~Process and the first half of sys_dup_fd *)
LEMMA CountersDrop ==
    ASSUME PipeInv, NEW p \in Proc, NEW f \in Fd, fds[p][f] # None,
           SetFd(p, f, None), Detach(fds[p][f])
    PROVE  CountersKept
<1>1. PipeTypeOK /\ fds \in Tables /\ fds' = [fds EXCEPT ![p][f] = None] /\ fds[p][f] \in Handle
  BY DEF PipeInv, PipeTypeOK, Tables, Table, SetFd
<1>2. fds' \in Tables /\ Put(fds, fds', p, f, None)
  BY <1>1 DEF Tables, Table, Put
<1>3. /\ readers' \in [Pipes -> Int] /\ writers' \in [Pipes -> Int]
      /\ \A i \in Pipes : /\ readers'[i] = readers[i] - Weight(fds[p][f], i, "Read")
                          /\ writers'[i] = writers[i] - Weight(fds[p][f], i, "Write")
  BY <1>1, DetachEffect
<1>4. \A i, d : Cardinality(On(fds', i, d)) = Cardinality(On(fds, i, d)) - Weight(fds[p][f], i, d)
  BY <1>1, <1>2, LoseOne
<1>5. \A i \in Pipes : /\ readers'[i] = Cardinality(On(fds', i, "Read"))
                       /\ writers'[i] = Cardinality(On(fds', i, "Write"))
  <2>1. \A i \in Pipes : /\ readers[i] = Cardinality(On(fds, i, "Read"))
                         /\ writers[i] = Cardinality(On(fds, i, "Write"))
    BY CountersAre DEF PipeInv
  <2> QED  BY <1>3, <1>4, <2>1
<1> QED  BY <1>2, <1>3, <1>5 DEF CountersKept, CountersMatchHandles, HandlesOn, On

(* the second half of sys_dup_fd *)
LEMMA CountersCopy ==
    ASSUME PipeInv, NEW p \in Proc, NEW f \in Fd, NEW h \in Handle, fds[p][f] = None,
           SetFd(p, f, h), Attach(Only(f, h))
    PROVE  CountersKept
<1>1. PipeTypeOK /\ fds \in Tables /\ fds' = [fds EXCEPT ![p][f] = h]
  BY DEF PipeInv, PipeTypeOK, Tables, SetFd
<1>2. fds' \in Tables /\ Put(fds, fds', p, f, h)
  BY <1>1 DEF Tables, Table, Put
<1>3. /\ readers' \in [Pipes -> Int] /\ writers' \in [Pipes -> Int]
      /\ \A i \in Pipes : /\ readers'[i] = readers[i] + Weight(h, i, "Read")
                          /\ writers'[i] = writers[i] + Weight(h, i, "Write")
  BY <1>1, AttachEffect, OnlyOne
<1>4. \A i, d : Cardinality(On(fds', i, d)) = Cardinality(On(fds, i, d)) + Weight(h, i, d)
  BY <1>1, <1>2, GainOne
<1>5. \A i \in Pipes : /\ readers'[i] = Cardinality(On(fds', i, "Read"))
                       /\ writers'[i] = Cardinality(On(fds', i, "Write"))
  <2>1. \A i \in Pipes : /\ readers[i] = Cardinality(On(fds, i, "Read"))
                         /\ writers[i] = Cardinality(On(fds, i, "Write"))
    BY CountersAre DEF PipeInv
  <2> QED  BY <1>3, <1>4, <2>1
<1> QED  BY <1>2, <1>3, <1>5, Zenon DEF CountersKept, CountersMatchHandles, HandlesOn, On

(* sys_create_process *)
LEMMA CountersTable ==
    ASSUME PipeInv, NEW q \in Proc, NEW table \in Table, NoHandles(fds[q]),
           fds' = [fds EXCEPT ![q] = table], Attach(table)
    PROVE  CountersKept
<1>1. PipeTypeOK /\ fds \in Tables
  BY DEF PipeInv, PipeTypeOK, Tables
<1>2. fds' \in Tables /\ PutTable(fds, fds', q, table)
  BY <1>1 DEF Tables, PutTable
<1>3. /\ readers' \in [Pipes -> Int] /\ writers' \in [Pipes -> Int]
      /\ \A i \in Pipes : /\ readers'[i] = readers[i] + Cardinality(Handles(table, i, "Read"))
                          /\ writers'[i] = writers[i] + Cardinality(Handles(table, i, "Write"))
  BY <1>1, AttachEffect
<1>4. \A i, d : Cardinality(On(fds', i, d))
                = Cardinality(On(fds, i, d)) + Cardinality(Handles(table, i, d))
  BY <1>1, <1>2, GainTable
<1>5. \A i \in Pipes : /\ readers'[i] = Cardinality(On(fds', i, "Read"))
                       /\ writers'[i] = Cardinality(On(fds', i, "Write"))
  <2>1. \A i \in Pipes : /\ readers[i] = Cardinality(On(fds, i, "Read"))
                         /\ writers[i] = Cardinality(On(fds, i, "Write"))
    BY CountersAre DEF PipeInv
  <2> SUFFICES ASSUME NEW i \in Pipes
               PROVE  /\ readers'[i] = Cardinality(On(fds', i, "Read"))
                      /\ writers'[i] = Cardinality(On(fds', i, "Write"))
    BY Zenon
  <2>2. /\ Cardinality(On(fds', i, "Read"))
             = Cardinality(On(fds, i, "Read")) + Cardinality(Handles(table, i, "Read"))
        /\ Cardinality(On(fds', i, "Write"))
             = Cardinality(On(fds, i, "Write")) + Cardinality(Handles(table, i, "Write"))
    BY <1>4, Zenon
  <2> QED  BY <1>3, <2>1, <2>2
<1> QED  BY <1>2, <1>3, <1>5 DEF CountersKept, CountersMatchHandles, HandlesOn, On

(* sys_create_pipe: two descriptors that were free *)
LEMMA TwoFree ==
    ASSUME NEW free \in SUBSET Fd, Cardinality(free) >= 2
    PROVE  /\ AllocateFd(free) \in free
           /\ AllocateFd(free \ {AllocateFd(free)}) \in free \ {AllocateFd(free)}
<1>1. IsFiniteSet(Fd)
  BY PipeAssumption, FS_Interval DEF Fd
<1>2. IsFiniteSet(free) /\ Cardinality(free) \in Nat
  BY <1>1, FS_Subset, FS_CardinalityType
<1>3. free # {}
  <2>1. Cardinality(free) # 0
    BY <1>2
  <2> QED  BY <2>1, FS_EmptySet
<1>4. AllocateFd(free) \in free
  BY <1>3, FirstFree
<1>5. Cardinality(free \ {AllocateFd(free)}) = Cardinality(free) - 1
  BY <1>2, <1>4, FS_RemoveElement, Zenon
<1>6. Cardinality(free \ {AllocateFd(free)}) # 0
  BY <1>2, <1>5
<1>7. free \ {AllocateFd(free)} # {}
  BY <1>6, FS_EmptySet
<1> QED  BY <1>4, <1>7, FirstFree

LEMMA CountersNew ==
    ASSUME PipeInv, NEW p \in Proc, NEW i \in Pipes, CreatePipe(p, i)
    PROVE  /\ CountersKept
           /\ \A f \in Fd : fds'[p][f] = fds[p][f] \/ fds'[p][f].pipe = i
           /\ \A j \in Pipes \ {i} : writers'[j] = writers[j]
<1> DEFINE free == Fd \ Open(p)
           r == AllocateFd(free)
           w == AllocateFd(free \ {r})
           R == [pipe |-> i, dir |-> "Read"]
           W == [pipe |-> i, dir |-> "Write"]
           ends == [f \in Fd |-> IF f = r THEN R ELSE IF f = w THEN W ELSE None]
           t == [fds EXCEPT ![p][r] = R]
<1>1. PipeTypeOK /\ fds \in Tables /\ R \in Handle /\ W \in Handle /\ R # None /\ W # None
  BY PipeAssumption DEF PipeInv, PipeTypeOK, Tables, Handle, Direction
<1>2. free \ {r} = Fd \ (Open(p) \cup {r})
  OBVIOUS
<1>3. r \in free /\ w \in free \ {r}
  BY TwoFree, Zenon DEF CreatePipe
<1>4. /\ fds' = [fds EXCEPT ![p] = [f \in Fd |-> IF f \in {r, w} THEN ends[f] ELSE @[f]]]
      /\ Attach(ends)
  BY <1>2, Zenon DEF CreatePipe
<1>5. r \in Fd /\ w \in Fd /\ r # w /\ fds[p][r] = None /\ fds[p][w] = None
  BY <1>3 DEF Open
<1> HIDE DEF r, w, R, W
<1>6. fds' = [t EXCEPT ![p][w] = W] /\ t \in Tables /\ fds' \in Tables /\ t[p][w] = None
  BY <1>1, <1>4, <1>5 DEF Tables, Table
<1>7. ends \in Table
  BY <1>1 DEF Table
<1>8. \A j, d : Cardinality(On(fds', j, d))
                = Cardinality(On(fds, j, d)) + Weight(R, j, d) + Weight(W, j, d)
  <2>0. Put(fds, t, p, r, R) /\ Put(t, fds', p, w, W)
    BY <1>1, <1>5, <1>6 DEF Put, Tables, Table
  <2> HIDE DEF t
  <2>1. fds \in Tables /\ t \in Tables /\ r \in Fd /\ R \in Handle /\ fds[p][r] = None
    BY <1>1, <1>5, <1>6
  <2>2. fds' \in Tables /\ w \in Fd /\ W \in Handle /\ t[p][w] = None
    BY <1>1, <1>5, <1>6
  <2>3. ASSUME NEW j, NEW d
        PROVE  Cardinality(On(t, j, d)) = Cardinality(On(fds, j, d)) + Weight(R, j, d)
    BY <2>0, <2>1, GainOne
  <2>4. ASSUME NEW j, NEW d
        PROVE  Cardinality(On(fds', j, d)) = Cardinality(On(t, j, d)) + Weight(W, j, d)
    BY <2>0, <2>1, <2>2, GainOne
  <2> QED  BY <2>3, <2>4
<1>9. \A j : /\ Cardinality(Handles(ends, j, "Read")) = Weight(R, j, "Read") + Weight(W, j, "Read")
             /\ Cardinality(Handles(ends, j, "Write")) = Weight(R, j, "Write") + Weight(W, j, "Write")
  <2>1. \A j : j # i => Handles(ends, j, "Read") = {} /\ Handles(ends, j, "Write") = {}
    BY DEF Handles, R, W
  <2>2. Handles(ends, i, "Read") = {r} /\ Handles(ends, i, "Write") = {w}
    BY <1>1, <1>5 DEF Handles, R, W
  <2>3. Cardinality({r}) = 1 /\ Cardinality({w}) = 1
    BY FS_Singleton, Zenon
  <2>4. Cardinality({}) = 0
    BY FS_EmptySet
  <2>5. \A j : /\ Weight(R, j, "Read") = IF j = i THEN 1 ELSE 0
               /\ Weight(W, j, "Write") = IF j = i THEN 1 ELSE 0
               /\ Weight(R, j, "Write") = 0 /\ Weight(W, j, "Read") = 0
    BY <1>1 DEF Weight, Is, R, W
  <2> HIDE DEF ends
  <2> SUFFICES ASSUME NEW j
               PROVE  /\ Cardinality(Handles(ends, j, "Read")) = Weight(R, j, "Read") + Weight(W, j, "Read")
                      /\ Cardinality(Handles(ends, j, "Write")) = Weight(R, j, "Write") + Weight(W, j, "Write")
    OBVIOUS
  <2>6. CASE j = i
    BY <2>2, <2>3, <2>5, <2>6
  <2>7. CASE j # i
    BY <2>1, <2>4, <2>5, <2>7
  <2> QED  BY <2>6, <2>7
<1>10. /\ readers' \in [Pipes -> Int] /\ writers' \in [Pipes -> Int]
       /\ \A j \in Pipes : /\ readers'[j] = readers[j] + Cardinality(Handles(ends, j, "Read"))
                           /\ writers'[j] = writers[j] + Cardinality(Handles(ends, j, "Write"))
  BY <1>1, <1>4, <1>7, AttachEffect
<1> HIDE DEF ends
<1>w. \A j, d : Weight(R, j, d) \in Nat /\ Weight(W, j, d) \in Nat
  BY DEF Weight
<1>11. \A j \in Pipes : /\ readers'[j] = Cardinality(On(fds', j, "Read"))
                        /\ writers'[j] = Cardinality(On(fds', j, "Write"))
  <2> SUFFICES ASSUME NEW j \in Pipes
               PROVE  /\ readers'[j] = Cardinality(On(fds', j, "Read"))
                      /\ writers'[j] = Cardinality(On(fds', j, "Write"))
    OBVIOUS
  <2>1. readers[j] \in Int /\ writers[j] \in Int
    BY <1>1 DEF PipeTypeOK
  <2>2. readers[j] = Cardinality(On(fds, j, "Read")) /\ writers[j] = Cardinality(On(fds, j, "Write"))
    BY CountersAre DEF PipeInv
  <2>3. readers'[j] = readers[j] + (Weight(R, j, "Read") + Weight(W, j, "Read"))
    BY <1>9, <1>10
  <2>4. writers'[j] = writers[j] + (Weight(R, j, "Write") + Weight(W, j, "Write"))
    BY <1>9, <1>10
  <2>5. Cardinality(On(fds', j, "Read")) = readers[j] + Weight(R, j, "Read") + Weight(W, j, "Read")
    BY <1>8, <2>2
  <2>6. Cardinality(On(fds', j, "Write")) = writers[j] + Weight(R, j, "Write") + Weight(W, j, "Write")
    BY <1>8, <2>2
  <2>7. /\ Weight(R, j, "Read") \in Nat /\ Weight(W, j, "Read") \in Nat
        /\ Weight(R, j, "Write") \in Nat /\ Weight(W, j, "Write") \in Nat
    BY <1>w, Zenon
  <2>8. readers'[j] = Cardinality(On(fds', j, "Read"))
    BY <2>1, <2>3, <2>5, <2>7
  <2>9. writers'[j] = Cardinality(On(fds', j, "Write"))
    BY <2>1, <2>4, <2>6, <2>7
  <2> QED  BY <2>8, <2>9
<1>12. CountersKept
  BY <1>6, <1>10, <1>11, Zenon DEF CountersKept, CountersMatchHandles, HandlesOn, On
<1>13. \A f \in Fd : fds'[p][f] = fds[p][f] \/ fds'[p][f].pipe = i
  <2>1. \A f \in Fd : fds'[p][f] = IF f = r THEN R ELSE IF f = w THEN W ELSE fds[p][f]
    BY <1>1, <1>5, <1>6 DEF Tables, Table
  <2>2. R.pipe = i /\ W.pipe = i
    BY DEF R, W
  <2> QED  BY <2>1, <2>2
<1>14. \A j \in Pipes \ {i} : writers'[j] = writers[j]
  <2>1. \A j \in Pipes \ {i} : Weight(R, j, "Write") = 0 /\ Weight(W, j, "Write") = 0
    BY DEF Weight, Is, R, W
  <2>2. \A j \in Pipes : writers[j] \in Int
    BY <1>1 DEF PipeTypeOK
  <2> QED  BY <1>9, <1>10, <2>1, <2>2
<1> QED  BY <1>12, <1>13, <1>14
-----------------------------------------------------------------------------
LEMMA BufferSteps ==
    ASSUME NEW b \in Count, NEW n \in 1 .. Size
    PROVE  /\ AfterRead(b, n) \in Count /\ AfterWrite(b, n) \in Count
           /\ Held(AfterRead(b, n)) <= Held(b)
           /\ ~IsEmpty(b) => ~IsEmpty(AfterWrite(b, n))
           /\ ~IsFull(b) => ~IsFull(AfterRead(b, n))
<1>1. /\ Size \in Nat \ {0} /\ n \in 1 .. Size
      /\ b.ahead \in 0 .. Size /\ b.behind \in 0 .. Size
      /\ b = [ahead |-> b.ahead, behind |-> b.behind]
  BY SizeAssumption DEF Count
<1>2. /\ AfterWrite(b, n) \in Count
      /\ AfterWrite(b, n).ahead = b.ahead
      /\ AfterWrite(b, n).behind = IF n < Size - b.behind THEN b.behind + n ELSE Size
  BY <1>1 DEF AfterWrite, Count
<1>3. /\ AfterRead(b, n) \in Count
      /\ AfterRead(b, n).behind = IF b.ahead = 0 THEN 0 ELSE b.behind
      /\ AfterRead(b, n).ahead = LET a == IF b.ahead = 0 THEN b.behind ELSE b.ahead
                                 IN  IF n < a THEN a - n ELSE 0
  <2>1. CASE b.ahead = 0
    BY <1>1, <2>1 DEF AfterRead, Swapped, Count
  <2>2. CASE b.ahead # 0
    BY <1>1, <2>2 DEF AfterRead, Swapped, Count
  <2> QED  BY <2>1, <2>2
<1>4. Held(AfterRead(b, n)) <= Held(b)
  BY <1>1, <1>3 DEF Held
<1>5. ~IsEmpty(b) => ~IsEmpty(AfterWrite(b, n))
  BY <1>1, <1>2 DEF IsEmpty
<1>6. ~IsFull(b) => ~IsFull(AfterRead(b, n))
  BY <1>1, <1>3 DEF IsFull
<1> QED  BY <1>2, <1>3, <1>4, <1>5, <1>6

LEMMA PipeInvInit == Init => PipeInv
<1> SUFFICES ASSUME Init PROVE PipeInv
  OBVIOUS
<1>1. PipeTypeOK
  BY PipeAssumption, SizeAssumption DEF Init, PipeTypeOK, State, Table, Count, NewBuffer
<1>2. CallsOK
  BY DEF Init, CallsOK, CallOK, InTransfer, NoHandles
<1>3. CountersMatchHandles
  <2>1. \A i, d : HandlesOn(i, d) = {}
    BY DEF HandlesOn, Handles, Init
  <2> QED  BY <2>1, FS_EmptySet DEF CountersMatchHandles, Init
<1> QED  BY <1>1, <1>2, <1>3 DEF PipeInv

(* The tables that the steps of a process other than p write are not p's. *)
LEMMA OthersKept ==
    ASSUME NEW p \in Proc, CallOK(p), made \subseteq made',
           state'[p] = state[p], fds'[p] = fds[p], arg'[p] = arg[p], child'[p] = child[p]
    PROVE  CallOK(p)'
BY DEF CallOK, NoHandles

(* Steps that leave the tables and the pipes alone *)
QuietStep(p) ==
    \/ Exit(p) \/ Reap(p) \/ WaitWake(p) \/ ReadWake(p) \/ WriteWake(p) \/ ExecFailed(p)
    \/ \E q \in Proc : WaitPid(p, q)
    \/ \E f \in Fd : ReadCheck(p, f) \/ WriteCheck(p, f)

(* Steps of p that also write the state of another process *)
SpawnStep(p) ==
    \/ ExecDone(p) \/ ExecFail(p)
    \/ \E q \in Proc : \E copies :
           (\A f \in DOMAIN copies : f \in Fd) /\ CreateProcess(p, q, copies)

(* Steps that write the table of p *)
TableStep(p) ==
    \/ \E i \in Pipes : CreatePipe(p, i)
    \/ \E f \in Fd : Close(p, f) \/ Release(p, f)
    \/ \E src, dst \in Fd : DupClear(p, src, dst)
    \/ DupCopy(p)

MoveStep(p) == \E n \in 1 .. Size : Read(p, n) \/ Write(p, n)

LEMMA StepKinds ==
    ASSUME NEW p \in Proc, Call(p) \/ Work(p)
    PROVE  QuietStep(p) \/ SpawnStep(p) \/ TableStep(p) \/ MoveStep(p)
<1>1. ASSUME NEW q \in Proc, CreateProcess(p, q, <<>>) PROVE SpawnStep(p)
  BY <1>1 DEF SpawnStep
<1>2. ASSUME NEW q \in Proc, NEW parent \in Fd, NEW to \in Fd, CreateProcess(p, q, [f \in {to} |-> parent])
      PROVE  SpawnStep(p)
  BY <1>2 DEF SpawnStep
<1> QED  BY <1>1, <1>2, Zenon DEF Call, Work, QuietStep, SpawnStep, TableStep, MoveStep

LEMMA QuietKept ==
    ASSUME PipeInv, NEW p \in Proc, QuietStep(p)
    PROVE  PipeInv'
<1>0. PipeTypeOK /\ CallsOK /\ CallOK(p) /\ state[p] \in State
  BY DEF PipeInv, CallsOK, PipeTypeOK
<1>1. UNCHANGED <<fds, made, readers, writers, buffer>>
  BY DEF QuietStep, Exit, Reap, WaitWake, ReadWake, WriteWake, ExecFailed, WaitPid,
         ReadCheck, WriteCheck, procVars, pipeVars
<1>2. /\ state' \in [Proc -> State] /\ \A q \in Proc \ {p} : state'[q] = state[q]
      /\ state'[p] \notin {"unborn", "dup", "exec"}
  BY <1>0 DEF QuietStep, Exit, Reap, WaitWake, ReadWake, WriteWake, ExecFailed, WaitPid,
         ReadCheck, WriteCheck, PipeTypeOK, Goto, State
<1>3. /\ DOMAIN arg' = Proc /\ DOMAIN child' = Proc /\ DOMAIN raced' = Proc
      /\ \A q \in Proc \ {p} : arg'[q] = arg[q] /\ child'[q] = child[q]
  <2>1. DOMAIN arg = Proc /\ DOMAIN child = Proc /\ DOMAIN raced = Proc
    BY <1>0 DEF PipeTypeOK
  <2>2. DOMAIN arg' = Proc /\ \A q \in Proc \ {p} : arg'[q] = arg[q]
    BY <2>1 DEF QuietStep, Exit, Reap, WaitWake, ReadWake, WriteWake, ExecFailed, WaitPid,
                ReadCheck, WriteCheck, procVars, pipeVars
  <2>3. DOMAIN child' = Proc /\ \A q \in Proc \ {p} : child'[q] = child[q]
    BY <2>1 DEF QuietStep, Exit, Reap, WaitWake, ReadWake, WriteWake, ExecFailed, WaitPid,
                ReadCheck, WriteCheck, procVars, pipeVars
  <2>4. DOMAIN raced' = Proc
    BY <2>1 DEF QuietStep, Exit, Reap, WaitWake, ReadWake, WriteWake, ExecFailed, WaitPid,
                ReadCheck, WriteCheck, procVars, pipeVars
  <2> QED  BY <2>2, <2>3, <2>4
<1>4. state'[p] \in InTransfer => arg'[p][1] \in Fd /\ fds[p][arg'[p][1]] # None
  <2>1. ASSUME NEW f \in Fd, ReadCheck(p, f) \/ WriteCheck(p, f)
        PROVE  arg'[p][1] \in Fd /\ fds[p][arg'[p][1]] # None
    <3>1. arg' = [arg EXCEPT ![p] = <<f, f>>] /\ fds[p][f] # None
      BY <2>1 DEF ReadCheck, WriteCheck, Open
    <3>2. arg'[p] = <<f, f>>
      BY <1>0, <3>1 DEF PipeTypeOK
    <3> QED  BY <3>1, <3>2
  <2>2. CASE ReadWake(p) \/ WriteWake(p)
    BY <1>0, <2>2 DEF ReadWake, WriteWake, CallOK, InTransfer, procVars
  <2>3. CASE ~(ReadWake(p) \/ WriteWake(p)) /\ ~\E f \in Fd : ReadCheck(p, f) \/ WriteCheck(p, f)
    BY <1>0, <2>3 DEF QuietStep, Exit, Reap, WaitWake, ExecFailed, WaitPid, PipeTypeOK, Goto, InTransfer
  <2> QED  BY <2>1, <2>2, <2>3
<1>5. CallOK(p)'
  BY <1>0, <1>1, <1>2, <1>4 DEF CallOK
<1>6. CallsOK'
  BY <1>0, <1>1, <1>2, <1>3, <1>5, OthersKept DEF CallsOK
<1>7. CountersKept
  BY <1>1, CountersSame
<1> QED  BY <1>0, <1>1, <1>2, <1>3, <1>6, <1>7 DEF PipeInv, PipeTypeOK, CountersKept, Tables

LEMMA MoveKept ==
    ASSUME PipeInv, NEW p \in Proc, MoveStep(p)
    PROVE  PipeInv'
<1>0. PipeTypeOK /\ CallsOK /\ CallOK(p) /\ buffer \in [Pipes -> Count]
  BY DEF PipeInv, CallsOK, PipeTypeOK
<1>1. UNCHANGED <<fds, made, readers, writers, child>>
  BY DEF MoveStep, Read, Write
<1>2. state' = [state EXCEPT ![p] = "user"] /\ DOMAIN arg' = Proc /\ DOMAIN raced' = Proc
      /\ \A q \in Proc \ {p} : arg'[q] = arg[q]
  BY <1>0, Zenon DEF MoveStep, Read, Write, Return, Goto, PipeTypeOK
<1>3. state' \in [Proc -> State] /\ state'[p] = "user" /\ \A q \in Proc \ {p} : state'[q] = state[q]
  BY <1>0, <1>2 DEF PipeTypeOK, State
<1>4. buffer' \in [Pipes -> Count]
  BY <1>0, BufferSteps DEF MoveStep, Read, Write
<1>5. CallOK(p)'
  BY <1>0, <1>1, <1>3 DEF CallOK, InTransfer
<1>6. CallsOK'
  BY <1>0, <1>1, <1>2, <1>3, <1>5, OthersKept DEF CallsOK
<1>7. CountersKept
  BY <1>1, CountersSame
<1> QED  BY <1>0, <1>1, <1>2, <1>3, <1>4, <1>6, <1>7 DEF PipeInv, PipeTypeOK, CountersKept, Tables

LEMMA TableKept ==
    ASSUME PipeInv, NEW p \in Proc, TableStep(p)
    PROVE  PipeInv'
<1>0. PipeTypeOK /\ CallsOK /\ CallOK(p) /\ fds[p] \in Table
  BY DEF PipeInv, CallsOK, PipeTypeOK
<1>1. UNCHANGED <<child, raced, buffer>> /\ made \subseteq made' /\ made' \subseteq Pipes
      /\ DOMAIN arg' = Proc
      /\ \A q \in Proc \ {p} : arg'[q] = arg[q]
  BY <1>0, Zenon DEF TableStep, CreatePipe, Close, Release, DupClear, DupCopy, procVars, PipeTypeOK
<1>2. state' \in [Proc -> State] /\ \A q \in Proc \ {p} : state'[q] = state[q]
  BY <1>0, Zenon DEF TableStep, CreatePipe, Close, Release, DupClear, DupCopy, PipeTypeOK, Goto, State
<1>3. \A q \in Proc \ {p} : fds'[q] = fds[q]
  BY <1>0, Zenon DEF TableStep, CreatePipe, Close, Release, DupClear, DupCopy, PipeTypeOK, SetFd
<1>4. CountersKept /\ CallOK(p)'
  <2>1. ASSUME NEW i \in Pipes, CreatePipe(p, i)
        PROVE  CountersKept /\ CallOK(p)'
    <3>1. state'[p] = "user" /\ made' = made \cup {i}
      BY <2>1 DEF CreatePipe
    <3>2. \A f \in Fd : fds'[p][f] = fds[p][f] \/ fds'[p][f].pipe = i
      BY <2>1, CountersNew
    <3> QED  BY <1>0, <2>1, <3>1, <3>2, CountersNew DEF CallOK, InTransfer
  <2>2. ASSUME NEW f \in Fd, Close(p, f) \/ Release(p, f)
        PROVE  CountersKept /\ CallOK(p)'
    <3>1. /\ state'[p] \in {"user", "reaped"} /\ made' = made
          /\ fds[p][f] # None /\ SetFd(p, f, None) /\ Detach(fds[p][f])
      BY <2>2 DEF Close, Release, Open
    <3>2. \A g \in Fd : fds'[p][g] = fds[p][g] \/ fds'[p][g] = None
      BY <1>0, <3>1 DEF SetFd, PipeTypeOK, Table
    <3> QED  BY <1>0, <3>1, <3>2, CountersDrop DEF CallOK, InTransfer
  <2>3. ASSUME NEW src \in Fd, NEW dst \in Fd, DupClear(p, src, dst)
        PROVE  CountersKept /\ CallOK(p)'
    <3>1. /\ state'[p] = "dup" /\ made' = made /\ SetFd(p, dst, None) /\ fds[p][src] # None
          /\ src # dst /\ arg'[p] = <<src, dst>>
      BY <1>0, <2>3 DEF DupClear, Goto, PipeTypeOK, Open
    <3>2. \A g \in Fd : fds'[p][g] = IF g = dst THEN None ELSE fds[p][g]
      BY <1>0, <3>1 DEF SetFd, PipeTypeOK, Table
    <3>3. CallOK(p)'
      <4>1. \A f \in Fd : fds'[p][f] # None => fds'[p][f].pipe \in made'
        BY <1>0, <3>1, <3>2 DEF CallOK
      <4>2. arg'[p][1] \in Fd /\ fds'[p][arg'[p][1]] # None
            /\ arg'[p][2] \in Fd /\ fds'[p][arg'[p][2]] = None
        BY <3>1, <3>2
      <4> QED  BY <3>1, <4>1, <4>2 DEF CallOK, InTransfer
    <3>4. CASE fds[p][dst] # None
      BY <2>3, <3>1, <3>3, <3>4, CountersDrop DEF DupClear, Open
    <3>5. CASE fds[p][dst] = None
      <4>1. fds' = fds
        BY <1>0, <3>1, <3>5 DEF SetFd, PipeTypeOK, Table
      <4>2. UNCHANGED <<readers, writers>>
        BY <2>3, <3>5 DEF DupClear, Open
      <4> QED  BY <3>3, <4>1, <4>2, CountersSame
    <3> QED  BY <3>4, <3>5
  <2>4. CASE DupCopy(p)
    <3> DEFINE f == arg[p][2]
               h == fds[p][arg[p][1]]
    <3>1. f \in Fd /\ fds[p][f] = None /\ h \in Handle /\ SetFd(p, f, h) /\ Attach(Only(f, h))
      BY <1>0, <2>4 DEF DupCopy, CallOK, Table
    <3>2. state'[p] = "user" /\ made' = made /\ h.pipe \in made
      BY <1>0, <2>4 DEF DupCopy, CallOK, Goto, PipeTypeOK
    <3> HIDE DEF f, h
    <3>3. \A g \in Fd : fds'[p][g] = IF g = f THEN h ELSE fds[p][g]
      BY <1>0, <3>1 DEF SetFd, PipeTypeOK, Table
    <3> QED  BY <1>0, <3>1, <3>2, <3>3, CountersCopy DEF CallOK, InTransfer
  <2> QED  BY <2>1, <2>2, <2>3, <2>4 DEF TableStep
<1>5. CallsOK'
  BY <1>0, <1>1, <1>2, <1>3, <1>4, OthersKept DEF CallsOK
<1> QED  BY <1>0, <1>1, <1>2, <1>4, <1>5 DEF PipeInv, PipeTypeOK, CountersKept, Tables

LEMMA SpawnKept ==
    ASSUME PipeInv, NEW p \in Proc, SpawnStep(p)
    PROVE  PipeInv'
<1>0. PipeTypeOK /\ CallsOK /\ CallOK(p)
  BY DEF PipeInv, CallsOK, PipeTypeOK
<1>1. CASE ExecDone(p) \/ ExecFail(p)
  <2>0. PICK c \in Proc : c = child[p]
    BY <1>0, <1>1 DEF ExecDone, ExecFail, CallOK
  <2>1. /\ state[p] = "exec" /\ state[c] = "building" /\ CallOK(c)
        /\ UNCHANGED <<fds, made, readers, writers, buffer, arg, raced>>
    BY <1>0, <1>1, <2>0 DEF ExecDone, ExecFail, CallsOK, pipeVars, procVars
  <2>2. /\ state' \in [Proc -> State] /\ \A q \in Proc \ {p, c} : state'[q] = state[q]
        /\ state'[c] \in {"user", "reaped"} /\ state'[p] \in {"user", "exec"}
        /\ state'[p] = "exec" => child' = child
    BY <1>0, <1>1, <2>0, <2>1 DEF ExecDone, ExecFail, Goto, PipeTypeOK, State, procVars
  <2>3. DOMAIN child' = Proc /\ \A q \in Proc \ {p} : child'[q] = child[q]
    BY <1>0, <1>1 DEF ExecDone, ExecFail, PipeTypeOK, procVars
  <2>4. CallOK(c)' /\ CallOK(p)'
    <3>1. CallOK(c)'
      BY <2>1, <2>2 DEF CallOK, InTransfer
    <3>2. CallOK(p)'
      BY <1>0, <2>1, <2>2 DEF CallOK, InTransfer
    <3> QED  BY <3>1, <3>2
  <2>5. CallsOK'
    BY <1>0, <2>1, <2>2, <2>3, <2>4, OthersKept DEF CallsOK
  <2>6. CountersKept
    BY <2>1, CountersSame
  <2> QED  BY <1>0, <2>1, <2>2, <2>3, <2>5, <2>6 DEF PipeInv, PipeTypeOK, CountersKept, Tables
<1>2. ASSUME NEW q \in Proc, NEW copies, \A f \in DOMAIN copies : f \in Fd, CreateProcess(p, q, copies)
      PROVE  PipeInv'
  <2> DEFINE table == [f \in Fd |-> IF f \in DOMAIN copies THEN fds[p][copies[f]] ELSE fds[p][f]]
  <2>1. /\ state[p] = "user" /\ state[q] = "unborn" /\ p # q /\ CallOK(q)
        /\ \A f \in DOMAIN copies : copies[f] \in Open(p)
        /\ fds' = [fds EXCEPT ![q] = table] /\ Attach(table)
        /\ UNCHANGED <<arg, raced, made, buffer>>
    BY <1>0, <1>2 DEF CreateProcess, CallsOK
  <2>2. /\ state' \in [Proc -> State] /\ \A r \in Proc \ {p, q} : state'[r] = state[r]
        /\ state'[p] = "exec" /\ state'[q] = "building"
        /\ DOMAIN child' = Proc /\ child'[p] = q /\ \A r \in Proc \ {p} : child'[r] = child[r]
    BY <1>0, <1>2, <2>1 DEF CreateProcess, PipeTypeOK, State
  <2>3. table \in Table /\ \A f \in Fd : table[f] # None => table[f].pipe \in made
    <3>1. \A f \in Fd : table[f] = None \/ \E g \in Fd : table[f] = fds[p][g]
      BY <2>1 DEF Open
    <3>2. \A g \in Fd : fds[p][g] \in Handle \cup {None}
      BY <1>0 DEF PipeTypeOK, Table
    <3>3. \A g \in Fd : fds[p][g] # None => fds[p][g].pipe \in made
      BY <1>0 DEF CallOK
    <3>4. \A f \in Fd : table[f] \in Handle \cup {None}
      BY <3>1, <3>2
    <3>5. table \in Table
      BY <3>4 DEF Table
    <3> HIDE DEF table
    <3> QED  BY <3>1, <3>3, <3>5
  <2> HIDE DEF table
  <2>4. NoHandles(fds[q])
    BY <2>1 DEF CallOK
  <2>5. CountersKept
    BY <2>1, <2>3, <2>4, CountersTable, Zenon
  <2>6. /\ \A r \in Proc \ {q} : fds'[r] = fds[r]
        /\ fds'[q] = table
    BY <1>0, <2>1 DEF PipeTypeOK
  <2>7. CallOK(q)' /\ CallOK(p)'
    <3>1. /\ state'[q] \notin InTransfer /\ state'[q] \notin {"dup", "exec", "unborn"}
          /\ state'[p] \notin InTransfer /\ state'[p] \notin {"dup", "unborn"} /\ child'[p] \in Proc
          /\ made' = made
      BY <2>1, <2>2 DEF InTransfer
    <3>2. CallOK(q)'
      BY <2>3, <2>6, <3>1 DEF CallOK
    <3>3. \A f \in Fd : fds'[p][f] # None => fds'[p][f].pipe \in made
      BY <1>0, <2>1, <2>6 DEF CallOK
    <3>4. CallOK(p)'
      BY <3>1, <3>3 DEF CallOK
    <3> QED  BY <3>2, <3>4
  <2>8. CallsOK'
    BY <1>0, <2>1, <2>2, <2>6, <2>7, OthersKept DEF CallsOK
  <2> QED  BY <1>0, <2>1, <2>2, <2>5, <2>8 DEF PipeInv, PipeTypeOK, CountersKept, Tables
<1> QED  BY <1>1, <1>2 DEF SpawnStep

LEMMA PipeInvNext == PipeInv /\ [Next]_vars => PipeInv'
<1> SUFFICES ASSUME PipeInv, [Next]_vars PROVE PipeInv'
  OBVIOUS
<1>1. CASE UNCHANGED vars
  <2>1. CallsOK'
    BY <1>1, OthersKept DEF vars, PipeInv, CallsOK
  <2>2. CountersKept
    BY <1>1, CountersSame DEF vars
  <2> QED  BY <1>1, <2>1, <2>2 DEF vars, PipeInv, PipeTypeOK, CountersKept
<1>2. ASSUME NEW p \in Proc, Call(p) \/ Work(p) PROVE PipeInv'
  BY <1>2, StepKinds, QuietKept, SpawnKept, TableKept, MoveKept
<1> QED  BY <1>1, <1>2 DEF Next

(* The tables and what the system calls work on are as PipeInv says. *)
THEOREM PipeInvariant == Spec => []PipeInv
BY PipeInvInit, PipeInvNext, PTL DEF Spec

(* The counters of a pipe are the numbers of handles, whatever the number  *)
(* of processes, pipes and descriptors: Pipe::detach never counts below 0. *)
THEOREM CountersAreHandles == Spec => []CountersMatchHandles
<1>1. PipeInv => CountersMatchHandles
  BY DEF PipeInv
<1> QED  BY <1>1, PipeInvariant, PTL
=============================================================================
