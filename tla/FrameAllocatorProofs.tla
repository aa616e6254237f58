----------------------- MODULE FrameAllocatorProofs -------------------------
(***************************************************************************)
(* Theorems about FrameAllocator for every memory map, word size and       *)
(* number of CPUs: an allocated frame stays marked and no frame is lost,   *)
(* as long as no other CPU writes the word that reclaim has loaded.        *)
(***************************************************************************)
EXTENDS FrameAllocator, FiniteSetTheorems, TLAPS

(* What is asked of the memory map: no entry covers a frame twice with two *)
(* types, and the bit of a reclaimable frame lies in the array.  The bits  *)
(* are shifted by one word, so that the last frames of a count that is no  *)
(* multiple of W have theirs behind it.                                    *)
MapSound ==
    \A f \in Reclaimable : f \notin OfType("Available") /\ Position(f) < BucketCount * W

(* Between the load and the store of reclaim nobody writes that word. *)
WordKept ==
    reclaim = "store" /\ reclaim' = "store" =>
        bits' \cap Bucket(ReclaimNext) = bits \cap Bucket(ReclaimNext)

WordUndisturbed == [][WordKept]_frameVars

(* The frames that reclaim has still to give back *)
Waiting == IF reclaim = "before" THEN Reclaimable ELSE todo

(* Frame 0 and the bitset's own frames, where reclaim leaves them alone *)
Kept == ({0} \cup BitsetFrames) \ Reclaimable

(* The frames that belong to nobody once the allocator runs *)
Given == OfType("Available") \cup (Reclaimable \ Waiting)

BlocksApart ==
    \A a, b \in blocks : a # b => FramesOf(a) \cap FramesOf(b) = {}

(* The frames of nobody who could free them: marked and not handed out *)
HeldMarked == \A f \in Waiting \cup Kept : Set(f) /\ f \notin Owned

FreeUnlessUsed == \A f \in Given : f \in Owned \cup BitsetFrames \cup {0} \/ ~Set(f)

ReclaimOK ==
    /\ reclaim \in {"before", "load", "store", "after"}
    /\ todo \subseteq Reclaimable
    /\ (reclaim \in {"before", "after"}) <=> (todo = {})
    /\ reclaim = "store" => loaded = bits \cap Bucket(ReclaimNext)

(* The inductive invariant *)
FrameInv ==
    /\ map \in Maps /\ MapSound
    /\ blocks \subseteq Nat \X (Nat \ {0})
    /\ phase \in {"parse", "initialise"} => blocks = {}
    /\ phase \in {"parse", "initialise", "heap"} => reclaim = "before"
    /\ OwnedFramesMarked /\ BlocksApart
    /\ phase # "parse" => HeldMarked /\ FreeUnlessUsed
    /\ ReclaimOK

(* Frame 0 and the frames of the bitset, which parse_memory_map marks and  *)
(* nobody owns, stay marked and are never handed out.  A bitset that       *)
(* find_first_fit_region puts in reclaimable memory is left out: reclaim   *)
(* gives it away.                                                          *)
BitsetNeverOwned == phase # "parse" => \A f \in Kept : Set(f) /\ f \notin Owned
-----------------------------------------------------------------------------
(* A set of natural numbers has a least element. *)
LEMMA Least ==
    ASSUME NEW S \in SUBSET Nat, S # {}
    PROVE  \E x \in S : \A y \in S : x <= y
<1> DEFINE R == OpToRel(<, Nat)
<1>1. IsWellFoundedOn(R, Nat)
  BY NatLessThanWellFounded, Zenon
<1>2. \A x, y \in Nat : y < x => <<y, x>> \in R
  BY DEF OpToRel
<1> HIDE DEF R
<1>3. \E x \in S : \A y \in S : ~(<<y, x>> \in R)
  BY <1>1, WFMin, Zenon
<1>4. PICK x \in S : \A y \in S : ~(<<y, x>> \in R)
  BY <1>3
<1>5. ASSUME NEW y \in S PROVE x <= y
  <2>1. x \in Nat /\ y \in Nat /\ ~(<<y, x>> \in R)
    BY <1>4
  <2>2. ~(y < x)
    BY <1>2, <2>1
  <2> QED  BY <2>1, <2>2
<1> QED  BY <1>4, <1>5

(* Finitely many natural numbers have a greatest one. *)
LEMMA Greatest ==
    ASSUME NEW n \in Nat, NEW g \in [0 .. n -> Nat]
    PROVE  \E k \in 0 .. n : \A i \in 0 .. n : g[i] <= g[k]
<1>a. \A x, y, z \in Nat : x <= y /\ ~(z <= y) => x <= z
  OBVIOUS
<1> DEFINE Top(m) == \E k \in 0 .. m : \A i \in 0 .. m : g[i] <= g[k]
           S == {m \in 0 .. n : ~Top(m)}
<1>0. n \in 0 .. n
  OBVIOUS
<1> SUFFICES ASSUME S # {} PROVE FALSE
  <2>1. CASE S = {}
    BY <1>0, <2>1, Zenon
  <2> QED  BY <2>1, Zenon
<1>1. S \in SUBSET Nat
  OBVIOUS
<1>2. PICK m \in S : \A y \in S : m <= y
  BY <1>1, Least
<1>3. CASE m = 0
  <2>1. 0 \in 0 .. 0 /\ \A i \in 0 .. 0 : g[i] <= g[0]
    OBVIOUS
  <2> QED  BY <1>2, <1>3, <2>1
<1>4. CASE m # 0
  <2>1. m \in 0 .. n /\ m - 1 \in 0 .. n /\ m - 1 < m /\ ~Top(m)
    BY <1>2, <1>4
  <2>2. Top(m - 1)
    <3> SUFFICES ASSUME ~Top(m - 1) PROVE FALSE
      OBVIOUS
    <3> HIDE DEF Top
    <3>1. m - 1 \in S
      BY <2>1
    <3> QED  BY <1>1, <1>2, <2>1, <3>1
  <2>3. PICK k \in 0 .. m - 1 : \A i \in 0 .. m - 1 : g[i] <= g[k]
    BY <2>2
  <2>4. k \in 0 .. m /\ m \in 0 .. m /\ \A i \in 0 .. m : i \in 0 .. m - 1 \/ i = m
    BY <2>1
  <2>5. g[m] \in Nat /\ g[k] \in Nat /\ \A i \in 0 .. m : g[i] \in Nat
    BY <2>1, <2>4
  <2>6. CASE g[m] <= g[k]
    BY <2>1, <2>3, <2>4, <2>6
  <2>7. CASE ~(g[m] <= g[k])
    <3>1. ASSUME NEW i \in 0 .. m PROVE g[i] <= g[m]
      <4>1. CASE i = m
        BY <2>5, <4>1
      <4>2. CASE i \in 0 .. m - 1
        <5>1. g[i] <= g[k] /\ g[i] \in Nat
          BY <2>3, <2>5, <4>2
        <5>2. \A x \in Nat : x <= g[k] => x <= g[m]
          BY <1>a, <2>5, <2>7, Zenon
        <5> QED  BY <5>1, <5>2, Zenon
      <4> QED  BY <2>4, <4>1, <4>2
    <3>2. Top(m)
      <4>1. m \in 0 .. m
        BY <2>4
      <4> QED  BY <3>1, <4>1, Zenon
    <3> HIDE DEF Top
    <3> QED  BY <2>1, <3>2
  <2> QED  BY <2>6, <2>7
<1> QED  BY <1>3, <1>4

(* The entries of a map *)
LEMMA EntryType ==
    ASSUME map \in Maps
    PROVE  \E n \in Nat : /\ Entry = 0 .. n
                         /\ \A e \in Entry : map[e].base \in Nat /\ map[e].pages \in Nat \ {0}
<1> DEFINE k == Cardinality(DOMAIN map)
<1>1. IsFiniteSet(DOMAIN map) /\ k > 1
      /\ map \in [0 .. k - 1 -> [type : Types, base : Nat, pages : Nat \ {0}]]
  BY FrameAllocatorAssumption
<1>2. k \in Nat
  BY <1>1, FS_CardinalityType
<1>3. DOMAIN map = 0 .. k - 1
  BY <1>1, Zenon
<1>4. Entry = 0 .. k - 2 /\ k - 2 \in Nat
  <2> HIDE DEF k
  <2> QED  BY <1>1, <1>2, <1>3 DEF Entry, k
<1>5. \A e \in Entry : map[e].base \in Nat /\ map[e].pages \in Nat \ {0}
  <2> HIDE DEF k
  <2> QED  BY <1>1, <1>2, <1>4
<1> QED  BY <1>4, <1>5

LEMMA FrameCountType ==
    ASSUME map \in Maps
    PROVE  FrameCount \in Nat
<1>1. PICK n \in Nat : /\ Entry = 0 .. n
                       /\ \A e \in Entry : map[e].base \in Nat /\ map[e].pages \in Nat \ {0}
  BY EntryType
<1> DEFINE End(e) == map[e].base + map[e].pages
           g == [e \in 0 .. n |-> End(e)]
<1>2. g \in [0 .. n -> Nat] /\ \A e \in 0 .. n : g[e] = End(e) /\ End(e) \in Nat
  BY <1>1
<1> HIDE DEF g
<1>3. PICK k \in 0 .. n : \A i \in 0 .. n : g[i] <= g[k]
  BY <1>2, Greatest
<1>4. End(k) \in {End(e) : e \in Entry} /\ \A e \in Entry : End(e) <= End(k)
  BY <1>1, <1>2, <1>3
<1> HIDE DEF End
<1>5. FrameCount = CHOOSE m \in {End(e) : e \in Entry} : \A e \in Entry : End(e) <= m
  BY DEF FrameCount, End
<1>6. FrameCount \in {End(e) : e \in Entry}
  BY <1>4, <1>5
<1> QED  BY <1>1, <1>2, <1>6
-----------------------------------------------------------------------------
(* A frame's bit lies in the word that reclaim loads for it. *)
LEMMA InMultiple ==
    ASSUME NEW p \in Nat, NEW w \in Nat \ {0}
    PROVE  p \in w * (p \div w) .. w * (p \div w) + w - 1
<1> DEFINE q == p \div w
           z == p % w
<1>1. q \in Int /\ z \in 0 .. w - 1 /\ p = w * q + z
  OBVIOUS
<1> HIDE DEF q, z
<1>2. PICK m \in Int : m = w * q
  BY <1>1
<1>3. p \in m .. m + w - 1
  BY <1>1, <1>2
<1> QED  BY <1>2, <1>3 DEF q

LEMMA PositionInBucket ==
    ASSUME NEW f \in Nat
    PROVE  Position(f) \in Bucket(f)
<1>1. Position(f) \in Nat /\ W \in Nat \ {0}
  BY FrameAllocatorAssumption DEF Position
<1> QED  BY <1>1, InMultiple, Zenon DEF Bucket

(* Which bits are set after the bits of some frames were set or cleared *)
LEMMA BitsOf ==
    ASSUME NEW F \in SUBSET Nat, NEW f \in Nat
    PROVE  (Position(f) \in Positions(F)) <=> f \in F
BY FrameAllocatorAssumption DEF Position, Positions

LEMMA CoveredNat ==
    ASSUME map \in Maps
    PROVE  /\ \A e \in Entry : Covered(e) \in SUBSET Nat
           /\ Reclaimable \in SUBSET Nat /\ OfType("Available") \in SUBSET Nat
           /\ Entry \in SUBSET Nat
<1>1. PICK n \in Nat : /\ Entry = 0 .. n
                       /\ \A e \in Entry : map[e].base \in Nat /\ map[e].pages \in Nat \ {0}
  BY EntryType
<1>2. \A e \in Entry : Covered(e) \in SUBSET Nat
  BY <1>1 DEF Covered
<1>3. Reclaimable \in SUBSET Nat
  BY <1>2 DEF Reclaimable
<1>4. OfType("Available") \in SUBSET Nat
  BY <1>2 DEF OfType
<1> QED  BY <1>1, <1>2, <1>3, <1>4

(* The frames of a block, and who owns a frame *)
LEMMA OwnedIs ==
    ASSUME NEW f
    PROVE  f \in Owned <=> \E b \in blocks : f \in FramesOf(b)
BY DEF Owned

LEMMA FramesOfBlock ==
    ASSUME NEW b \in Nat \X (Nat \ {0})
    PROVE  FramesOf(b) \in SUBSET Nat /\ b[1] \in FramesOf(b)
BY DEF FramesOf

(* reclaim goes on with a frame that it has still to give back. *)
LEMMA NextWaits ==
    ASSUME map \in Maps, todo \subseteq Reclaimable, todo # {}
    PROVE  ReclaimNext \in todo
<1>1. \A e \in Entry : Covered(e) \in SUBSET Nat
  BY CoveredNat
<1> DEFINE E == {x \in Entry : Covered(x) \cap todo # {}}
<1>2. E \in SUBSET Nat /\ E # {}
  <2>1. \A f \in Reclaimable : \E e \in Entry : f \in Covered(e)
    BY DEF Reclaimable
  <2>2. PICK f : f \in todo
    OBVIOUS
  <2>3. PICK e \in Entry : f \in Covered(e)
    BY <2>1, <2>2
  <2>4. e \in E
    BY <2>2, <2>3
  <2> QED  BY <2>4, CoveredNat
<1>3. PICK x \in E : \A y \in E : x <= y
  BY <1>2, Least
<1> DEFINE first == CHOOSE z \in Entry : /\ Covered(z) \cap todo # {}
                                         /\ \A y \in Entry : Covered(y) \cap todo # {} => z <= y
<1>4. first \in Entry /\ Covered(first) \cap todo # {}
  <2>1. \E z \in Entry : /\ Covered(z) \cap todo # {}
                         /\ \A y \in Entry : Covered(y) \cap todo # {} => z <= y
    BY <1>3
  <2> QED  BY <2>1, Zenon
<1>5. ReclaimNext = CHOOSE f \in Covered(first) \cap todo : \A g \in Covered(first) \cap todo : f <= g
  BY DEF ReclaimNext
<1> HIDE DEF first
<1>6. Covered(first) \cap todo \in SUBSET Nat
  BY <1>1, <1>4
<1>7. \E f \in Covered(first) \cap todo : \A g \in Covered(first) \cap todo : f <= g
  BY <1>4, <1>6, Least
<1> QED  BY <1>5, <1>7

(* alloc_contiguous stops at frames that are all free. *)
LEMMA FirstFreeIsFree ==
    ASSUME map \in Maps, NEW n \in Nat \ {0}, AnyFree(n), FirstFree(n) + n <= FrameCount
    PROVE  /\ <<FirstFree(n), n>> \in Nat \X (Nat \ {0})
           /\ \A f \in FramesOf(<<FirstFree(n), n>>) : ~Set(f)
<1>1. FrameCount \in Nat
  BY FrameCountType
<1> DEFINE S == {i \in Starts(n) : FreeFrom(i, n)}
<1>2. Starts(n) \in SUBSET Nat /\ S \in SUBSET Nat /\ S # {}
  BY <1>1 DEF Starts, AnyFree
<1>3. PICK i \in S : \A k \in S : i <= k
  BY <1>2, Least
<1>4. FirstFree(n) \in Starts(n) /\ FreeFrom(FirstFree(n), n)
  <2>1. \E j \in Starts(n) : FreeFrom(j, n) /\ \A k \in Starts(n) : FreeFrom(k, n) => j <= k
    BY <1>3
  <2> QED  BY <2>1, Zenon DEF FirstFree
<1>5. PICK j \in Nat : j = FirstFree(n)
  BY <1>2, <1>4
<1>6. FramesOf(<<j, n>>) = j .. j + n - 1
  BY DEF FramesOf
<1>7. \A f \in j .. j + n - 1 : ~Set(f)
  BY <1>1, <1>4, <1>5 DEF FreeFrom
<1> QED  BY <1>5, <1>6, <1>7
-----------------------------------------------------------------------------
(* What the operations do to the bits and the blocks *)
Core ==
    /\ blocks \subseteq Nat \X (Nat \ {0})
    /\ OwnedFramesMarked /\ BlocksApart /\ HeldMarked /\ FreeUnlessUsed

LEMMA MapFixed ==
    ASSUME UNCHANGED map
    PROVE  /\ UNCHANGED <<Reclaimable, OfType("Available"), BitsetFrames, Kept>>
           /\ MapSound' = MapSound
<1>1. UNCHANGED <<Entry, FrameCount>> /\ \A e \in Entry : Covered(e)' = Covered(e)
  BY DEF Entry, FrameCount, Covered
<1>2. UNCHANGED <<Reclaimable, OfType("Available"), BucketCount>>
  BY <1>1 DEF Reclaimable, OfType, BucketCount
<1>3. \A n : FindFirstFit(n)' = FindFirstFit(n)
  BY DEF FindFirstFit
<1>4. UNCHANGED BitsetFrames
  BY <1>2, <1>3 DEF BitsetFrames
<1>5. MapSound' = MapSound
  BY <1>2 DEF MapSound
<1> QED  BY <1>2, <1>4, <1>5 DEF Kept

LEMMA BitsetNat ==
    ASSUME map \in Maps
    PROVE  BitsetFrames \in SUBSET Nat
<1> DEFINE k == Cardinality(DOMAIN map)
           pages == DivUp(BucketCount, WordsPerFrame)
           fits == {e \in DOMAIN map \ {0} : map[e].type # "Reserved" /\ map[e].pages >= pages}
           last == CHOOSE e \in fits : \A x \in fits : x <= e
<1>1. k \in Nat /\ DOMAIN map = 0 .. k - 1 /\ \A e \in DOMAIN map : map[e].base \in Nat
  <2>1. /\ IsFiniteSet(DOMAIN map)
        /\ map \in [0 .. k - 1 -> [type : Types, base : Nat, pages : Nat \ {0}]]
    BY FrameAllocatorAssumption
  <2>2. k \in Nat
    BY <2>1, FS_CardinalityType
  <2> HIDE DEF k
  <2> QED  BY <2>1, <2>2
<1>2. pages \in Int
  <2>1. FrameCount \in Nat /\ W \in Nat \ {0} /\ WordsPerFrame \in Nat \ {0}
    BY FrameAllocatorAssumption, FrameCountType
  <2>2. \A x \in Int, y \in Nat \ {0} : x \div y \in Int
    OBVIOUS
  <2>3. BucketCount \in Int
    BY <2>1, <2>2 DEF BucketCount
  <2>4. BucketCount + WordsPerFrame - 1 \in Int
    BY <2>1, <2>3
  <2> QED  BY <2>1, <2>2, <2>4, Zenon DEF DivUp
<1>3. FindFirstFit(pages) = IF fits = {} THEN NoEntry ELSE map[last].base
  BY Zenon DEF FindFirstFit
<1>4. BitsetFrames = IF FindFirstFit(pages) = NoEntry THEN {}
                     ELSE FindFirstFit(pages) .. FindFirstFit(pages) + pages - 1
  BY Zenon DEF BitsetFrames
<1>5. fits \subseteq 0 .. k - 1
  BY <1>1
<1> HIDE DEF k, pages, fits
<1>6. ASSUME fits # {} PROVE map[last].base \in Nat
  <2> DEFINE T == {k - e : e \in fits}
  <2>1. T \in SUBSET Nat /\ T # {}
    BY <1>1, <1>5, <1>6
  <2>2. PICK t \in T : \A y \in T : t <= y
    BY <2>1, Least
  <2>3. PICK e \in fits : t = k - e
    BY <2>2
  <2>4. ASSUME NEW x \in fits PROVE x <= e
    <3>1. k - e <= k - x
      BY <2>2, <2>3
    <3> QED  BY <1>1, <1>5, <3>1
  <2>5. last \in fits
    BY <2>4, Zenon
  <2> HIDE DEF last
  <2> QED  BY <1>1, <1>5, <2>5
<1> HIDE DEF last
<1>7. FindFirstFit(pages) = NoEntry \/ FindFirstFit(pages) \in Nat
  BY <1>3, <1>6
<1> QED  BY <1>2, <1>4, <1>7

(* The frames the invariant speaks of are numbers. *)
LEMMA FrameTypes ==
    ASSUME map \in Maps, blocks \subseteq Nat \X (Nat \ {0}), todo \subseteq Reclaimable
    PROVE  /\ Owned \in SUBSET Nat /\ Given \in SUBSET Nat
           /\ Waiting \cup Kept \in SUBSET Nat
<1>1. Reclaimable \in SUBSET Nat /\ OfType("Available") \in SUBSET Nat
  BY CoveredNat
<1>2. Owned \in SUBSET Nat
  BY OwnedIs, FramesOfBlock
<1>3. BitsetFrames \in SUBSET Nat
  BY BitsetNat
<1>4. Waiting \subseteq Nat
  <2>1. todo \subseteq Nat
    BY <1>1
  <2> QED  BY <1>1, <2>1 DEF Waiting
<1>5. Given \subseteq Nat
  BY <1>1 DEF Given
<1>6. Kept \subseteq Nat
  <2>1. 0 \in Nat
    OBVIOUS
  <2> QED  BY <1>3, <2>1, Zenon DEF Kept
<1> QED  BY <1>2, <1>4, <1>5, <1>6

(* Frames that were free are handed out. *)
LEMMA TakeKeeps ==
    ASSUME Core, map \in Maps, todo \subseteq Reclaimable, UNCHANGED <<map, reclaim, todo>>,
           NEW b \in Nat \X (Nat \ {0}), \A f \in FramesOf(b) : ~Set(f),
           bits' = bits \cup Positions(FramesOf(b)), blocks' = blocks \cup {b}
    PROVE  Core'
<1>1. UNCHANGED <<Reclaimable, OfType("Available"), BitsetFrames, Kept>>
  BY MapFixed
<1>2. UNCHANGED <<Waiting, Given>>
  BY <1>1 DEF Waiting, Given
<1>3. Owned \in SUBSET Nat /\ Given \in SUBSET Nat
  BY FrameTypes DEF Core
<1>4. Owned' = Owned \cup FramesOf(b)
  BY DEF Owned
<1>5. FramesOf(b) \in SUBSET Nat
  BY FramesOfBlock
<1>6. \A f : Set(f) => Set(f)'
  BY DEF Set
<1>7. \A f \in Nat : Set(f)' <=> Set(f) \/ f \in FramesOf(b)
  BY <1>5, BitsOf DEF Set
<1>8. (blocks \subseteq Nat \X (Nat \ {0}))'
  BY DEF Core
<1>9. OwnedFramesMarked'
  BY <1>3, <1>4, <1>5, <1>7 DEF Core, OwnedFramesMarked
<1>10. \A a \in blocks : FramesOf(a) \cap FramesOf(b) = {}
  BY OwnedIs DEF Core, OwnedFramesMarked
<1>11. BlocksApart'
  BY <1>10 DEF Core, BlocksApart
<1>12. HeldMarked'
  BY <1>1, <1>2, <1>4, <1>6 DEF Core, HeldMarked
<1>13. FreeUnlessUsed'
  BY <1>1, <1>2, <1>3, <1>4, <1>7 DEF Core, FreeUnlessUsed
<1> QED  BY <1>8, <1>9, <1>11, <1>12, <1>13 DEF Core

(* A block is given back. *)
LEMMA FreeKeeps ==
    ASSUME Core, map \in Maps, todo \subseteq Reclaimable, UNCHANGED <<map, reclaim, todo>>,
           NEW b \in blocks, bits' = bits \ Positions(FramesOf(b)), blocks' = blocks \ {b}
    PROVE  Core'
<1>1. UNCHANGED <<Reclaimable, OfType("Available"), BitsetFrames, Kept>>
  BY MapFixed
<1>2. UNCHANGED <<Waiting, Given>>
  BY <1>1 DEF Waiting, Given
<1>3. Owned \in SUBSET Nat /\ Given \in SUBSET Nat /\ Waiting \cup Kept \in SUBSET Nat
  BY FrameTypes DEF Core
<1>4. b \in Nat \X (Nat \ {0}) /\ FramesOf(b) \in SUBSET Nat
  BY FramesOfBlock DEF Core
<1>5. \A f \in Nat : Set(f)' <=> Set(f) /\ f \notin FramesOf(b)
  BY <1>4, BitsOf DEF Set
<1>6. FramesOf(b) \subseteq Owned
  BY OwnedIs
<1>7. Owned' = Owned \ FramesOf(b)
  <2>1. \A f : f \in Owned' <=> \E a \in blocks' : f \in FramesOf(a)
    BY DEF Owned
  <2>2. \A a \in blocks \ {b} : FramesOf(a) \cap FramesOf(b) = {}
    BY DEF Core, BlocksApart
  <2>3. ASSUME NEW f PROVE f \in Owned' <=> f \in Owned \ FramesOf(b)
    <3>1. f \in Owned <=> \E a \in blocks : f \in FramesOf(a)
      BY OwnedIs
    <3> QED  BY <2>1, <2>2, <3>1
  <2> QED  BY <2>3
<1>8. (blocks \subseteq Nat \X (Nat \ {0}))' /\ BlocksApart'
  BY DEF Core, BlocksApart
<1>9. OwnedFramesMarked'
  BY <1>3, <1>5, <1>7 DEF Core, OwnedFramesMarked
<1>10. HeldMarked'
  BY <1>1, <1>2, <1>3, <1>5, <1>6, <1>7 DEF Core, HeldMarked
<1>11. FreeUnlessUsed'
  BY <1>1, <1>2, <1>3, <1>5, <1>7 DEF Core, FreeUnlessUsed
<1> QED  BY <1>8, <1>9, <1>10, <1>11 DEF Core

(* reclaim clears one bit, when the word it stores is the one that is      *)
(* there still.                                                            *)
LEMMA StoreKeeps ==
    ASSUME Core, map \in Maps, ReclaimOK, reclaim # "before", ReclaimStore
    PROVE  Core' /\ ReclaimOK'
<1> DEFINE f == ReclaimNext
<1>1. reclaim = "store" /\ UNCHANGED <<map, blocks>>
  BY DEF ReclaimStore
<1>2. f \in todo /\ todo \subseteq Reclaimable
  BY <1>1, NextWaits DEF ReclaimOK
<1>3. UNCHANGED <<Reclaimable, OfType("Available"), BitsetFrames, Kept>>
  BY <1>1, MapFixed
<1>4. /\ todo' = todo \ {f} /\ Waiting = todo
      /\ reclaim' = IF todo' = {} THEN "after" ELSE "load"
  BY <1>1 DEF ReclaimStore, Waiting
<1>5. bits' = bits \ {Position(f)}
  <2>1. loaded = bits \cap Bucket(f)
    BY <1>1 DEF ReclaimOK
  <2>2. bits' = (bits \ Bucket(f)) \cup (loaded \ {Position(f)})
    BY DEF ReclaimStore
  <2>3. f \in Nat
    BY <1>2, CoveredNat
  <2>4. Position(f) \in Bucket(f)
    BY <2>3, PositionInBucket
  <2> HIDE DEF f
  <2> QED  BY <2>1, <2>2, <2>4
<1> HIDE DEF f
<1>6. Waiting' = todo \ {f} /\ Given' = Given \cup {f}
  <2>1. Waiting' = todo'
    BY <1>4 DEF Waiting
  <2> QED  BY <1>2, <1>3, <1>4, <2>1 DEF Given
<1>7. Owned \in SUBSET Nat /\ Given \in SUBSET Nat /\ Waiting \cup Kept \in SUBSET Nat
  BY <1>2, FrameTypes DEF Core
<1>8. f \in Nat /\ f \in Waiting /\ f \notin Kept
  BY <1>2, <1>4, <1>7 DEF Kept
<1>9. \A g \in Nat : Set(g)' <=> Set(g) /\ g # f
  BY <1>5, <1>8, FrameAllocatorAssumption DEF Set, Position
<1>10. f \notin Owned
  BY <1>8 DEF Core, HeldMarked
<1>11. Owned' = Owned
  BY <1>1 DEF Owned
<1>12. (blocks \subseteq Nat \X (Nat \ {0}))' /\ BlocksApart'
  BY <1>1 DEF Core, BlocksApart
<1>13. OwnedFramesMarked'
  BY <1>7, <1>9, <1>10, <1>11 DEF Core, OwnedFramesMarked
<1>14. HeldMarked'
  <2>1. ASSUME NEW g \in (Waiting \cup Kept)' PROVE Set(g)' /\ g \notin Owned'
    <3>1. g \in Waiting \cup Kept /\ g # f
      BY <1>3, <1>4, <1>6, <1>8
    <3> QED  BY <1>7, <1>9, <1>11, <3>1 DEF Core, HeldMarked
  <2> QED  BY <2>1 DEF HeldMarked
<1>15. FreeUnlessUsed'
  BY <1>3, <1>6, <1>7, <1>8, <1>9, <1>11 DEF Core, FreeUnlessUsed
<1>16. ReclaimOK'
  BY <1>2, <1>3, <1>4 DEF ReclaimOK
<1> QED  BY <1>12, <1>13, <1>14, <1>15, <1>16 DEF Core

(* A step that hands out or frees nothing *)
LEMMA NothingMoved ==
    ASSUME Core, UNCHANGED <<map, bits, blocks, Waiting>>
    PROVE  Core'
<1>1. UNCHANGED <<Reclaimable, OfType("Available"), BitsetFrames, Kept>>
  BY MapFixed
<1>2. UNCHANGED <<Given, Owned>> /\ \A f : Set(f)' = Set(f)
  BY <1>1 DEF Given, Owned, Set
<1> QED
  BY <1>1, <1>2 DEF Core, OwnedFramesMarked, BlocksApart, HeldMarked, FreeUnlessUsed
-----------------------------------------------------------------------------
(* parse_memory_map: nothing is owned yet, the bits of the available       *)
(* frames are clear and those of the reclaimable ones are set.             *)
LEMMA ParseKeeps ==
    ASSUME FrameInv, ParseMemoryMap
    PROVE  FrameInv'
<1>1. /\ phase = "parse" /\ reclaim = "before" /\ blocks = {} /\ phase' # "parse"
      /\ UNCHANGED <<map, blocks, reclaim, todo, loaded>>
  BY DEF FrameInv, ParseMemoryMap
<1>2. UNCHANGED <<Reclaimable, OfType("Available"), BitsetFrames, Kept>> /\ MapSound'
  BY <1>1, MapFixed DEF FrameInv
<1>3. Owned' = {}
  BY <1>1 DEF Owned
<1>4. Waiting' = Reclaimable /\ Given' = OfType("Available")
  BY <1>1, <1>2 DEF Waiting, Given
<1>5. PICK reserved :
        /\ 0 .. BucketCount * W - 1 \subseteq reserved
        /\ bits' = (reserved \ Positions(OfType("Available"))) \cup Positions({0} \cup BitsetFrames)
  BY DEF ParseMemoryMap
<1>6. /\ Reclaimable \in SUBSET Nat /\ OfType("Available") \in SUBSET Nat
      /\ {0} \cup BitsetFrames \in SUBSET Nat
  <2>1. 0 \in Nat /\ BitsetFrames \in SUBSET Nat
    BY BitsetNat DEF FrameInv
  <2> QED  BY <2>1, CoveredNat, Zenon DEF FrameInv
<1>7. HeldMarked'
  <2>1. ASSUME NEW f \in Reclaimable PROVE Set(f)'
    <3>1. Position(f) < BucketCount * W /\ f \notin OfType("Available") /\ f \in Nat
      BY <1>6 DEF FrameInv, MapSound
    <3>2. Position(f) \in 0 .. BucketCount * W - 1
      <4>1. BucketCount \in Int /\ W \in Nat \ {0}
        BY FrameCountType, FrameAllocatorAssumption DEF BucketCount, FrameInv
      <4>2. PICK t \in Int : t = BucketCount * W
        BY <4>1
      <4> QED  BY <3>1, <4>1, <4>2 DEF Position
    <3>3. Position(f) \notin Positions(OfType("Available"))
      BY <1>6, <3>1, BitsOf
    <3> QED  BY <1>5, <3>2, <3>3 DEF Set
  <2>2. ASSUME NEW f \in Kept PROVE Set(f)'
    <3>1. f \in {0} \cup BitsetFrames
      BY DEF Kept
    <3> QED  BY <1>5, <3>1 DEF Set, Positions
  <2> QED  BY <1>2, <1>3, <1>4, <2>1, <2>2 DEF HeldMarked
<1>8. FreeUnlessUsed'
  <2>1. ASSUME NEW f \in OfType("Available"), f \notin {0} \cup BitsetFrames PROVE ~Set(f)'
    <3>1. f \in Nat
      BY <1>6
    <3>2. /\ Position(f) \in Positions(OfType("Available"))
          /\ Position(f) \notin Positions({0} \cup BitsetFrames)
      BY <1>6, <2>1, <3>1, BitsOf
    <3> QED  BY <1>5, <3>2 DEF Set
  <2> QED  BY <1>2, <1>3, <1>4, <2>1 DEF FreeUnlessUsed
<1>9. OwnedFramesMarked' /\ BlocksApart'
  BY <1>1, <1>3 DEF OwnedFramesMarked, BlocksApart
<1>10. ReclaimOK'
  BY <1>1, <1>2 DEF FrameInv, ReclaimOK
<1> QED  BY <1>1, <1>2, <1>7, <1>8, <1>9, <1>10 DEF FrameInv

(* The parts put together, once the map is parsed *)
LEMMA Together ==
    ASSUME FrameInv, UNCHANGED map, Core', ReclaimOK',
           phase' \notin {"parse", "initialise"}, phase' = "heap" => reclaim' = "before"
    PROVE  FrameInv'
BY MapFixed DEF FrameInv, Core

(* While reclaim holds a word, it is the one in the array. *)
LEMMA ReclaimKept ==
    ASSUME FrameInv, WordKept, UNCHANGED <<map, reclaim, todo, loaded>>
    PROVE  ReclaimOK' /\ UNCHANGED Waiting
<1>1. UNCHANGED Reclaimable
  BY MapFixed
<1>2. UNCHANGED ReclaimNext
  BY DEF ReclaimNext, Entry, Covered
<1>3. ASSUME reclaim = "store" PROVE loaded = bits' \cap Bucket(ReclaimNext)
  <2>1. loaded = bits \cap Bucket(ReclaimNext)
    BY <1>3 DEF FrameInv, ReclaimOK
  <2>2. bits' \cap Bucket(ReclaimNext) = bits \cap Bucket(ReclaimNext)
    BY <1>3 DEF WordKept
  <2> QED  BY <2>1, <2>2
<1>4. Bucket(ReclaimNext)' = Bucket(ReclaimNext)
  BY <1>2 DEF Bucket, Position
<1>5. ReclaimOK'
  BY <1>1, <1>3, <1>4 DEF FrameInv, ReclaimOK
<1> QED  BY <1>1, <1>5 DEF Waiting

LEMMA TakeStep ==
    ASSUME FrameInv, WordKept, phase # "parse", NEW n \in Nat \ {0}, Take(n),
           UNCHANGED <<map, reclaim, todo, loaded>>
    PROVE  FrameInv'
<1>1. ReclaimOK' /\ UNCHANGED Waiting
  BY ReclaimKept
<1>2. Core /\ map \in Maps /\ todo \subseteq Reclaimable
  BY DEF FrameInv, Core, ReclaimOK
<1>3. phase' \notin {"parse", "initialise", "heap"}
  BY DEF Take
<1>4. CASE AnyFree(n) /\ FirstFree(n) + n <= FrameCount
  <2> DEFINE b == <<FirstFree(n), n>>
  <2>1. b \in Nat \X (Nat \ {0}) /\ \A f \in FramesOf(b) : ~Set(f)
    BY <1>2, <1>4, FirstFreeIsFree
  <2>2. FirstFree(n) + n \in Nat /\ FrameCount \in Nat
    BY <1>2, <2>1, FrameCountType
  <2>3. ~(FirstFree(n) + n > FrameCount)
    BY <1>4, <2>2
  <2>4. bits' = bits \cup Positions(FramesOf(b)) /\ blocks' = blocks \cup {b}
    BY <1>4, <2>3 DEF Take
  <2> HIDE DEF b
  <2>5. Core'
    BY <1>2, <2>1, <2>4, TakeKeeps
  <2> QED  BY <1>1, <1>3, <2>5, Together
<1>5. CASE UNCHANGED <<bits, blocks>>
  <2>1. Core'
    BY <1>1, <1>2, <1>5, NothingMoved
  <2> QED  BY <1>1, <1>3, <2>1, Together
<1> QED  BY <1>4, <1>5 DEF Take

LEMMA FreeStep ==
    ASSUME FrameInv, WordKept, NEW c, NEW b \in blocks, Free(c, b)
    PROVE  FrameInv'
<1>1. phase = "run" /\ UNCHANGED <<map, reclaim, todo, loaded>>
  BY DEF Free, Ready
<1>2. Core /\ map \in Maps /\ todo \subseteq Reclaimable
  BY <1>1 DEF FrameInv, Core, ReclaimOK
<1>3. ReclaimOK' /\ UNCHANGED Waiting
  BY <1>1, ReclaimKept
<1>4. phase' \notin {"parse", "initialise", "heap"}
  BY <1>1 DEF Free
<1>5. CASE bits' = bits \ Positions(FramesOf(b)) /\ blocks' = blocks \ {b}
  <2>1. Core'
    BY <1>1, <1>2, <1>5, FreeKeeps
  <2> QED  BY <1>1, <1>3, <1>4, <2>1, Together
<1>6. CASE UNCHANGED <<bits, blocks>>
  <2>1. Core'
    BY <1>1, <1>2, <1>3, <1>6, NothingMoved
  <2> QED  BY <1>1, <1>3, <1>4, <2>1, Together
<1> QED  BY <1>5, <1>6 DEF Free

(* MemoryManager::initialise takes the trampoline's frame, if it is free. *)
LEMMA InitialiseStep ==
    ASSUME FrameInv, WordKept, Initialise
    PROVE  FrameInv'
<1>1. phase = "initialise" /\ blocks = {} /\ UNCHANGED <<map, reclaim, todo, loaded>>
  BY DEF Initialise, FrameInv
<1>2. Core /\ map \in Maps /\ todo \subseteq Reclaimable
  BY <1>1 DEF FrameInv, Core, ReclaimOK
<1>3. ReclaimOK' /\ UNCHANGED Waiting
  BY <1>1, ReclaimKept
<1>4. phase' \notin {"parse", "initialise"} /\ reclaim' = "before"
  BY <1>1 DEF Initialise, FrameInv
<1>5. CASE Set(Trampoline)
  <2>1. Core'
    BY <1>1, <1>2, <1>3, <1>5, NothingMoved DEF Initialise
  <2> QED  BY <1>1, <1>3, <1>4, <2>1, Together
<1>6. CASE ~Set(Trampoline)
  <2> DEFINE b == <<Trampoline, 1>>
  <2>1. b \in Nat \X (Nat \ {0}) /\ FramesOf(b) = {Trampoline}
    BY FrameAllocatorAssumption DEF FramesOf
  <2>2. bits' = bits \cup Positions(FramesOf(b))
    BY <1>6, <2>1 DEF Initialise, Positions
  <2>3. blocks' = blocks \cup {b}
    BY <1>1, <1>6 DEF Initialise
  <2>4. \A f \in FramesOf(b) : ~Set(f)
    BY <1>6, <2>1
  <2> HIDE DEF b
  <2>5. Core'
    BY <1>1, <1>2, <2>1, <2>2, <2>3, <2>4, TakeKeeps
  <2> QED  BY <1>1, <1>3, <1>4, <2>5, Together
<1> QED  BY <1>5, <1>6

LEMMA ReclaimStep ==
    ASSUME FrameInv, ReclaimStart \/ ReclaimLoad \/ ReclaimStore
    PROVE  FrameInv'
<1>1. phase = "run" /\ UNCHANGED <<map, phase, blocks>>
  BY DEF ReclaimStart, ReclaimLoad, ReclaimStore
<1>2. Core /\ map \in Maps /\ ReclaimOK
  BY <1>1 DEF FrameInv, Core
<1>3. UNCHANGED Reclaimable
  BY <1>1, MapFixed
<1>4. CASE ReclaimStart
  <2>1. UNCHANGED <<bits, Waiting>> /\ ReclaimOK'
    BY <1>2, <1>3, <1>4 DEF ReclaimStart, ReclaimOK, Waiting
  <2>2. Core'
    BY <1>1, <1>2, <2>1, NothingMoved
  <2> QED  BY <1>1, <2>1, <2>2, Together
<1>5. CASE ReclaimLoad
  <2>1. UNCHANGED ReclaimNext
    BY <1>1, <1>5 DEF ReclaimLoad, ReclaimNext, Entry, Covered
  <2>2. UNCHANGED <<bits, Waiting>>
    BY <1>5 DEF ReclaimLoad, Waiting
  <2>3. Bucket(ReclaimNext)' = Bucket(ReclaimNext)
    BY <2>1 DEF Bucket, Position
  <2>4. ReclaimOK'
    BY <1>2, <1>3, <1>5, <2>3 DEF ReclaimLoad, ReclaimOK
  <2>5. Core'
    BY <1>1, <1>2, <2>2, NothingMoved
  <2> QED  BY <1>1, <2>4, <2>5, Together
<1>6. CASE ReclaimStore
  <2>1. Core' /\ ReclaimOK'
    BY <1>2, <1>6, StoreKeeps DEF ReclaimStore
  <2> QED  BY <1>1, <2>1, Together
<1> QED  BY <1>4, <1>5, <1>6
-----------------------------------------------------------------------------
LEMMA FrameInvInit == FrameInit /\ MapSound => FrameInv
BY DEF FrameInit, FrameInv, OwnedFramesMarked, BlocksApart, Owned, ReclaimOK

LEMMA FrameInvNext == FrameInv /\ [FrameNext]_frameVars /\ [WordKept]_frameVars => FrameInv'
<1> SUFFICES ASSUME FrameInv, [FrameNext]_frameVars, [WordKept]_frameVars
             PROVE  FrameInv'
  OBVIOUS
<1>1. CASE UNCHANGED frameVars
  <2>1. UNCHANGED <<map, phase, bits, blocks, reclaim, todo, loaded>>
    BY <1>1 DEF frameVars
  <2>2. WordKept
    BY <2>1 DEF WordKept
  <2>3. ReclaimOK' /\ UNCHANGED Waiting
    BY <2>1, <2>2, ReclaimKept
  <2>4. MapSound'
    BY <2>1, MapFixed DEF FrameInv
  <2>5. OwnedFramesMarked' /\ BlocksApart'
    BY <2>1 DEF FrameInv, OwnedFramesMarked, BlocksApart, Owned, Set
  <2>6. phase # "parse" => Core'
    BY <2>1, <2>3, NothingMoved DEF FrameInv, Core
  <2> QED  BY <2>1, <2>3, <2>4, <2>5, <2>6 DEF FrameInv, Core
<1>2. CASE FrameNext /\ WordKept
  <2>1. CASE ParseMemoryMap
    BY <2>1, ParseKeeps
  <2>2. CASE Initialise
    BY <1>2, <2>2, InitialiseStep
  <2>3. CASE CreateHeap
    BY <1>2, <2>3, TakeStep, FrameAllocatorAssumption DEF CreateHeap
  <2>4. ASSUME NEW c \in FrameCpu, NEW n \in Sizes \cup {1}, Alloc(c, n)
        PROVE  FrameInv'
    <3>1. n \in Nat \ {0}
      BY FrameAllocatorAssumption
    <3> QED  BY <1>2, <2>4, <3>1, TakeStep DEF Alloc, Ready
  <2>5. ASSUME NEW c \in FrameCpu, NEW b \in blocks, Free(c, b)
        PROVE  FrameInv'
    BY <1>2, <2>5, FreeStep
  <2>6. CASE ReclaimStart \/ ReclaimLoad \/ ReclaimStore
    BY <2>6, ReclaimStep
  <2> QED  BY <1>2, <2>1, <2>2, <2>3, <2>4, <2>5, <2>6 DEF FrameNext
<1>3. WordKept \/ UNCHANGED frameVars
  OBVIOUS
<1> QED  BY <1>1, <1>2, <1>3

(* On one CPU nothing comes between the load and the store. *)
LEMMA OneCpuAlone ==
    ASSUME FrameCpu = {BootCpu}, FrameInv, [FrameNext]_frameVars
    PROVE  [WordKept]_frameVars
<1> SUFFICES ASSUME FrameNext, reclaim = "store", reclaim' = "store" PROVE FALSE
  BY DEF WordKept
<1>1. ~ParseMemoryMap /\ ~Initialise /\ ~CreateHeap
  BY DEF FrameInv, ParseMemoryMap, Initialise, CreateHeap
<1>2. ~ReclaimStart /\ ~ReclaimLoad /\ ~ReclaimStore
  BY DEF ReclaimStart, ReclaimLoad, ReclaimStore
<1>3. ASSUME NEW c \in FrameCpu PROVE ~Ready(c)
  BY DEF Ready
<1> QED  BY <1>1, <1>2, <1>3 DEF FrameNext, Alloc, Free
-----------------------------------------------------------------------------
(* The inductive invariant, for any number of CPUs whose alloc_frame and   *)
(* free_frame stay off the word that reclaim is about to store.            *)
THEOREM FrameInvariant == FrameSpec /\ MapSound /\ WordUndisturbed => []FrameInv
BY FrameInvInit, FrameInvNext, PTL DEF FrameSpec, WordUndisturbed

(* A frame that alloc_frame or alloc_contiguous has handed out stays       *)
(* marked: the store of reclaim that overwrites another CPU's bit is the   *)
(* only thing that can unmark it.                                          *)
THEOREM FramesMarked == FrameSpec /\ MapSound /\ WordUndisturbed => []OwnedFramesMarked
<1>1. FrameInv => OwnedFramesMarked
  BY DEF FrameInv
<1> QED  BY <1>1, FrameInvariant, PTL

(* And every available or reclaimed frame that nobody owns is free again. *)
THEOREM FramesReturn == FrameSpec /\ MapSound /\ WordUndisturbed => []NoFrameLost
<1>1. FrameInv => NoFrameLost
  <2>1. ASSUME FrameInv, phase = "run",
               NEW f \in OfType("Available")
                            \cup (IF reclaim = "after" THEN Reclaimable ELSE {})
        PROVE  f \in Given
    <3>1. reclaim = "after" => Waiting = {}
      BY <2>1 DEF FrameInv, ReclaimOK, Waiting
    <3> QED  BY <2>1, <3>1 DEF Given
  <2> QED  BY <2>1 DEF NoFrameLost, FrameInv, FreeUnlessUsed
<1> QED  BY <1>1, FrameInvariant, PTL

(* The allocator never hands out its own bitset or frame 0. *)
THEOREM BitsetKept == FrameSpec /\ MapSound /\ WordUndisturbed => []BitsetNeverOwned
<1>1. FrameInv => BitsetNeverOwned
  BY DEF FrameInv, HeldMarked, BitsetNeverOwned
<1> QED  BY <1>1, FrameInvariant, PTL

(* On one CPU, which the run checks, all of it holds without more ado. *)
THEOREM OneCpu ==
    ASSUME FrameCpu = {BootCpu}
    PROVE  FrameSpec /\ MapSound => [](OwnedFramesMarked /\ NoFrameLost /\ BitsetNeverOwned)
<1>1. FrameInv /\ [FrameNext]_frameVars => [WordKept]_frameVars
  BY OneCpuAlone
<1>2. FrameSpec /\ MapSound => WordUndisturbed
  BY <1>1, FrameInvInit, FrameInvNext, PTL DEF FrameSpec, WordUndisturbed
<1> QED  BY <1>2, FramesMarked, FramesReturn, BitsetKept, PTL
=============================================================================
