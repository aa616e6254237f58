----------------------------- MODULE SplayTree ------------------------------
(***************************************************************************)
(* ustd/splay_tree.hh as operators on a tree.  A node is its key; a tree   *)
(* has a root, the cached minimum and three functions on the nodes.  The   *)
(* links of a node that is in no tree are Null.  Loops that follow links   *)
(* are recursive functions on how far they have come.                      *)
(***************************************************************************)
EXTENDS Integers, Sequences, FiniteSets

CONSTANTS Nodes,    \* keys that can be in a tree
          TreeSize, \* bound: nodes in a tree, and so turns of a loop
          Null      \* nullptr

EmptyTree == [root |-> Null, min |-> Null, up |-> [n \in Nodes |-> Null],
              left |-> [n \in Nodes |-> Null], right |-> [n \in Nodes |-> Null], ok |-> TRUE]

(* The leftmost, or the rightmost, node below n; children is left or right *)
Descend(children, n) ==
    LET d[i \in 0 .. TreeSize] ==
            IF i = 0 THEN n
            ELSE LET c == d[i - 1] IN IF children[c] = Null THEN c ELSE children[c]
    IN  d[TreeSize]

Successor(t, n) ==
    LET Climb[i \in 0 .. TreeSize] ==
            IF i = 0 THEN <<n, t.up[n]>>
            ELSE LET c == Climb[i - 1]
                 IN  IF c[2] # Null /\ t.right[c[2]] = c[1] THEN <<c[2], t.up[c[2]]>> ELSE c
    IN  IF t.right[n] # Null THEN Descend(t.left, t.right[n]) ELSE Climb[TreeSize][2]

(* rotate<L> and rotate<R>: the child on the other side takes n's place *)
Rotate(t, dir, n) ==
    LET near  == IF dir = "L" THEN t.left ELSE t.right
        far   == IF dir = "L" THEN t.right ELSE t.left
        pivot == far[n]
        child == near[pivot]
        above == t.up[n]
        nearN == [near EXCEPT ![pivot] = n]
        farN  == [far EXCEPT ![n] = child]
        l     == IF dir = "L" THEN nearN ELSE farN
        r     == IF dir = "L" THEN farN ELSE nearN
        onL   == above # Null /\ t.left[above] = n
        onR   == above # Null /\ t.left[above] # n
    IN  [t EXCEPT !.up = [x \in Nodes |-> IF x = pivot THEN above
                                          ELSE IF x = n THEN pivot
                                          ELSE IF x = child THEN n ELSE t.up[x]],
                  !.left = [x \in Nodes |-> IF onL /\ x = above THEN pivot ELSE l[x]],
                  !.right = [x \in Nodes |-> IF onR /\ x = above THEN pivot ELSE r[x]],
                  !.root = IF above = Null THEN pivot ELSE t.root]

(* One turn of splay's loop *)
SplayTurn(t, n) ==
    LET p == t.up[n]
        g == t.up[p]
        pOnLeft == t.left[g] = p
    IN  IF p = Null THEN t
        ELSE IF g = Null THEN Rotate(t, IF t.left[p] = n THEN "R" ELSE "L", p)
        ELSE IF t.left[p] = n /\ pOnLeft THEN Rotate(Rotate(t, "R", g), "R", p)
        ELSE IF t.right[p] = n /\ ~pOnLeft THEN Rotate(Rotate(t, "L", g), "L", p)
        ELSE IF t.left[p] = n THEN Rotate(Rotate(t, "R", p), "L", g)
        ELSE Rotate(Rotate(t, "L", p), "R", g)

Splay(t, n) ==
    LET s[i \in 0 .. TreeSize] == IF i = 0 THEN t ELSE SplayTurn(s[i - 1], n)
        end == s[TreeSize]
    IN  [end EXCEPT !.ok = @ /\ end.root = n]

FindNoSplay(t, key) ==
    LET f[i \in 0 .. TreeSize] ==
            IF i = 0 THEN t.root
            ELSE LET c == f[i - 1]
                 IN  IF c \in {Null, key} THEN c ELSE IF key < c THEN t.left[c] ELSE t.right[c]
    IN  f[TreeSize]

(* The node under which insert's walk ends *)
InsertParent(t, n) ==
    LET w[i \in 0 .. TreeSize] ==
            IF i = 0 THEN t.root
            ELSE LET c    == w[i - 1]
                     next == IF n < c THEN t.left[c] ELSE t.right[c]
                 IN  IF next = Null THEN c ELSE next
    IN  w[TreeSize]

TreeInsert(t, n) ==
    IF t.root = Null THEN [t EXCEPT !.root = n, !.min = n]
    ELSE LET p == InsertParent(t, n)
             hung == [t EXCEPT !.up[n] = p,
                               !.left = IF n < p THEN [@ EXCEPT ![p] = n] ELSE @,
                               !.right = IF n < p THEN @ ELSE [@ EXCEPT ![p] = n],
                               !.ok = @ /\ (IF n < p THEN t.left[p] ELSE t.right[p]) = Null]
             s == Splay(hung, n)
         IN  [s EXCEPT !.min = IF s.left[@] = n THEN n ELSE @]

(* Fault: the right subtree is not hung below the left one's largest node. *)
TreeRemoveDrops(t, n) ==
    LET s == Splay(t, n)
        root == IF s.left[n] # Null THEN s.left[n] ELSE s.right[n]
    IN  [s EXCEPT !.root = root,
                  !.min = IF @ = n THEN Successor(s, n) ELSE @,
                  !.up = [x \in Nodes |-> IF x \in {root, n} THEN Null ELSE s.up[x]],
                  !.left[n] = Null, !.right[n] = Null]

(* remove; the node's own links are forgotten with the node. *)
TreeRemove(t, n) ==
    LET s     == Splay(t, n)
        min   == IF s.min = n THEN Successor(s, n) ELSE s.min
        root  == IF s.left[n] # Null THEN s.left[n] ELSE s.right[n]
        below == s.left[n] # Null /\ s.right[n] # Null
        last  == Descend(s.right, s.left[n])
    IN  [s EXCEPT !.root = root, !.min = min,
                  !.up = [x \in Nodes |-> IF x \in {root, n} THEN Null
                                          ELSE IF below /\ x = s.right[n] THEN last ELSE s.up[x]],
                  !.right = [x \in Nodes |-> IF x = n THEN Null
                                             ELSE IF below /\ x = last THEN s.right[n] ELSE s.right[x]],
                  !.left[n] = Null,
                  !.ok = @ /\ (s.min = n => s.left[n] = Null) /\ (root = Null => min = Null)]
-----------------------------------------------------------------------------
(* What is reached from minimum_node with successor, in that order *)
TreeWalk(t) ==
    LET w[i \in 0 .. TreeSize] ==
            IF i = 0 THEN IF t.min = Null THEN <<>> ELSE <<t.min>>
            ELSE LET seen == w[i - 1]
                     next == Successor(t, seen[i])
                 IN  IF Len(seen) < i THEN seen ELSE IF next = Null THEN seen ELSE Append(seen, next)
    IN  w[TreeSize]

(* The tree holds the keys S: the walk from minimum_node meets them in     *)
(* increasing order, find_no_splay finds these keys and no other, and no   *)
(* ASSERT has failed.                                                      *)
Holds(t, S) ==
    /\ t.ok
    /\ \A k \in Nodes : FindNoSplay(t, k) = IF k \in S THEN k ELSE Null
    /\ LET w == TreeWalk(t)
       IN  /\ Len(w) = Cardinality(S)
           /\ \A i \in DOMAIN w : w[i] \in S /\ (i > 1 => w[i - 1] < w[i])
=============================================================================
