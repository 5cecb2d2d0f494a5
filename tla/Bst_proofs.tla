----------------------------- MODULE Bst_proofs -----------------------------
(***************************************************************************)
(* Proofs about the AVL tree, for every set of keys, every number of nodes *)
(* and every order of calls.                                               *)
(*                                                                         *)
(* The first sections are about trees as mathematics: functions l, r and k *)
(* for the links and the keys, and d[n] for what is below n.  Then comes   *)
(* the inductive invariant, and the steps of the program one by one.       *)
(***************************************************************************)
EXTENDS Bst, ListFacts, WellFoundedInduction

-----------------------------------------------------------------------------
(* Search trees.                                                           *)

\* d[n] is what is below n, n included; every link leads to a node of U.
Linked(l, r, d, U, root) ==
    /\ d[NULL] = {} /\ d[root] = U /\ root \in U \cup {NULL}
    /\ \A n \in U : /\ n \in d[n] /\ d[n] \subseteq U
                    /\ l[n] \in U \cup {NULL} /\ r[n] \in U \cup {NULL}

\* Below n are n, on its left the smaller keys, on its right the larger ones.
Parted(l, r, k, d, U) ==
    \A m, n \in U :
        /\ m \in d[l[n]] <=> m \in d[n] /\ k[m] < k[n]
        /\ m \in d[r[n]] <=> m \in d[n] /\ k[m] > k[n]
        /\ m \in d[n] => (k[m] = k[n] => m = n) /\ d[m] \subseteq d[n]

\* Two nodes are below one whose key is theirs or between.
Joined(k, d, U) ==
    \A m, n \in U : k[m] <= k[n] =>
        \E e \in U : k[m] <= k[e] /\ k[e] <= k[n] /\ m \in d[e] /\ n \in d[e]

Tree(l, r, k, d, U, root) ==
    /\ U \in SUBSET Node
    /\ l \in [Node -> Pointer] /\ r \in [Node -> Pointer] /\ k \in [Node -> Int]
    /\ d \in [Pointer -> SUBSET Node]
    /\ Linked(l, r, d, U, root)
    /\ Parted(l, r, k, d, U)
    /\ Joined(k, d, U)

\* Left and right are the same, with the keys the other way round.
Mirror(k) == [n \in Node |-> -k[n]]

\* Left and right may be swapped if the keys are turned round: half of the
\* cases of every operation are the mirror image of the other half.
LEMMA MirrorTree ==
    ASSUME NEW l, NEW r, NEW k, NEW d, NEW U, NEW root, Tree(l, r, k, d, U, root)
    PROVE  Tree(r, l, Mirror(k), d, U, root)
<1> DEFINE j == Mirror(k)
<1>1. k \in [Node -> Int] /\ U \subseteq Node
  BY DEF Tree
<1>2. j \in [Node -> Int] /\ \A n \in U : j[n] = -k[n]
  BY <1>1 DEF Mirror
<1> HIDE DEF j
<1>3. \A m, n \in U : /\ j[m] < j[n] <=> k[m] > k[n]
                      /\ j[m] > j[n] <=> k[m] < k[n]
                      /\ j[m] <= j[n] <=> k[n] <= k[m]
                      /\ j[m] = j[n] <=> k[m] = k[n]
  BY <1>1, <1>2
<1>4. Linked(r, l, d, U, root)
  BY DEF Tree, Linked
<1>5. Parted(r, l, j, d, U)
  BY <1>3 DEF Tree, Parted
<1>6. Joined(j, d, U)
  BY <1>3 DEF Tree, Joined
<1> QED BY <1>2, <1>4, <1>5, <1>6 DEF Tree, j

\* No node is below one that is below it.
LEMMA BelowAntisymmetric ==
    ASSUME NEW l, NEW r, NEW k, NEW d, NEW U, NEW root, Tree(l, r, k, d, U, root),
           NEW m \in U, NEW n \in U, m \in d[n], n \in d[m]
    PROVE  m = n
<1>1. k[m] \in Int /\ k[n] \in Int
  BY DEF Tree
<1>2. k[m] < k[n] => FALSE
  <2>1. k[m] < k[n] => m \in d[l[n]] /\ l[n] \in U
    BY DEF Tree, Linked, Parted
  <2>2. k[m] < k[n] => n \in d[l[n]]
    BY <2>1 DEF Tree, Linked, Parted
  <2> QED BY <1>1, <2>2 DEF Tree, Parted
<1>3. k[m] > k[n] => FALSE
  <2>1. k[m] > k[n] => m \in d[r[n]] /\ r[n] \in U
    BY DEF Tree, Linked, Parted
  <2>2. k[m] > k[n] => n \in d[r[n]]
    BY <2>1 DEF Tree, Linked, Parted
  <2> QED BY <1>1, <2>2 DEF Tree, Parted
<1> QED BY <1>1, <1>2, <1>3 DEF Tree, Parted

\* What is below a node goes with it to one side of those above it.
LEMMA SameSide ==
    ASSUME NEW l, NEW r, NEW k, NEW d, NEW U, NEW root, Tree(l, r, k, d, U, root),
           NEW m \in U, NEW n \in U, m \in d[n], m # n
    PROVE  /\ k[m] < k[n] \/ k[m] > k[n]
           /\ k[m] < k[n] => l[n] \in U /\ d[m] \subseteq d[l[n]] /\ \A x \in d[m] : k[x] < k[n]
           /\ k[m] > k[n] => r[n] \in U /\ d[m] \subseteq d[r[n]] /\ \A x \in d[m] : k[x] > k[n]
<1>1. /\ k[m] \in Int /\ k[n] \in Int /\ d[m] \subseteq U
  BY DEF Tree, Linked
<1>2. k[m] < k[n] \/ k[m] > k[n]
  BY <1>1 DEF Tree, Parted
<1>3. ASSUME k[m] < k[n]
      PROVE  l[n] \in U /\ d[m] \subseteq d[l[n]] /\ \A x \in d[m] : k[x] < k[n]
  <2>1. m \in d[l[n]] /\ l[n] \in U
    BY <1>3 DEF Tree, Linked, Parted
  <2>2. d[m] \subseteq d[l[n]]
    BY <2>1 DEF Tree, Parted
  <2> QED BY <1>1, <2>1, <2>2 DEF Tree, Parted
<1>4. ASSUME k[m] > k[n]
      PROVE  r[n] \in U /\ d[m] \subseteq d[r[n]] /\ \A x \in d[m] : k[x] > k[n]
  <2>1. m \in d[r[n]] /\ r[n] \in U
    BY <1>4 DEF Tree, Linked, Parted
  <2>2. d[m] \subseteq d[r[n]]
    BY <2>1 DEF Tree, Parted
  <2> QED BY <1>1, <2>1, <2>2 DEF Tree, Parted
<1> QED BY <1>2, <1>3, <1>4

\* No two nodes have the same key.
LEMMA KeysDiffer ==
    ASSUME NEW l, NEW r, NEW k, NEW d, NEW U, NEW root, Tree(l, r, k, d, U, root),
           NEW m \in U, NEW n \in U, k[m] = k[n]
    PROVE  m = n
<1>1. \A x \in U : k[x] \in Int
  BY DEF Tree
<1>2. PICK e \in U : k[m] <= k[e] /\ k[e] <= k[n] /\ m \in d[e] /\ n \in d[e]
  <2>1. k[m] <= k[n]
    BY <1>1
  <2> QED BY <2>1, Zenon DEF Tree, Joined
<1>3. k[m] = k[e] /\ k[n] = k[e]
  BY <1>1, <1>2
<1> QED BY <1>2, <1>3 DEF Tree, Parted

\* What is below two nodes: one of them is below the other.
LEMMA Nested ==
    ASSUME NEW l, NEW r, NEW k, NEW d, NEW U, NEW root, Tree(l, r, k, d, U, root),
           NEW m \in U, NEW n \in U, NEW x \in d[m], x \in d[n]
    PROVE  m \in d[n] \/ n \in d[m]
<1>1. \A y \in U : k[y] \in Int
  BY DEF Tree
<1>2. ASSUME NEW a \in U, NEW b \in U, k[a] <= k[b], x \in d[a], x \in d[b]
      PROVE  a \in d[b] \/ b \in d[a]
  <2>1. PICK e \in U : k[a] <= k[e] /\ k[e] <= k[b] /\ a \in d[e] /\ b \in d[e]
    BY <1>2 DEF Tree, Joined
  <2>2. CASE a # e /\ b # e
    <3>1. k[a] < k[e] /\ k[b] > k[e]
      BY <1>1, <2>1, <2>2, SameSide
    <3>2. k[x] < k[e] /\ k[x] > k[e]
      BY <3>1, <1>2, <2>1, <2>2, SameSide
    <3>3. x \in U
      BY <1>2 DEF Tree, Linked
    <3> QED BY <1>1, <3>2, <3>3
  <2> QED BY <2>1, <2>2
<1>3. k[m] <= k[n] \/ k[n] <= k[m]
  BY <1>1
<1> QED BY <1>2, <1>3

\* What has the child of a node below it has the node below it.
LEMMA AboveChild ==
    ASSUME NEW l, NEW r, NEW k, NEW d, NEW U, NEW root, Tree(l, r, k, d, U, root),
           NEW a \in U, NEW c \in U, c = l[a] \/ c = r[a]
    PROVE  /\ c \in d[a] /\ c # a
           /\ \A m \in U : c \in d[m] /\ m # c => a \in d[m]
<1>1. c \in d[c] /\ \A x \in U : k[x] \in Int
  BY DEF Tree, Linked
<1>2. c \in d[a] /\ c # a
  BY <1>1 DEF Tree, Parted
<1>3. ASSUME NEW m \in U, c \in d[m], m # c PROVE a \in d[m]
  <2>1. CASE m \in d[a]
    <3>1. m # a => m \in d[c]
      <4>1. k[c] < k[m] \/ k[c] > k[m]
        BY <1>3, SameSide
      <4>2. ASSUME m # a, c = l[a] PROVE m \in d[c]
        <5>1. k[c] < k[a]
          BY <1>1, <4>2 DEF Tree, Parted
        <5>2. ~(k[m] > k[a])
          BY <5>1, <1>1, <1>3, <2>1, <4>2, SameSide
        <5> QED BY <5>2, <2>1, <4>2, SameSide DEF Tree, Parted
      <4>3. ASSUME m # a, c = r[a] PROVE m \in d[c]
        <5>1. k[c] > k[a]
          BY <1>1, <4>3 DEF Tree, Parted
        <5>2. ~(k[m] < k[a])
          BY <5>1, <1>1, <1>3, <2>1, <4>3, SameSide
        <5> QED BY <5>2, <2>1, <4>3, SameSide DEF Tree, Parted
      <4> QED BY <4>2, <4>3
    <3>2. m = a
      BY <3>1, <1>3, BelowAntisymmetric
    <3> QED BY <3>2, <1>1 DEF Tree, Linked
  <2>2. CASE a \in d[m]
    BY <2>2
  <2> QED BY <2>1, <2>2, <1>2, <1>3, Nested
<1> QED BY <1>2, <1>3

\* The nearest node above another one has it for a child.
LEMMA NearestAbove ==
    ASSUME NEW l, NEW r, NEW k, NEW d, NEW U, NEW root, Tree(l, r, k, d, U, root),
           NEW a \in U, NEW c \in U, c \in d[a], c # a,
           \A m \in U : c \in d[m] /\ m # c /\ m \in d[a] => m = a
    PROVE  c = l[a] \/ c = r[a]
<1>1. \A x \in U : k[x] \in Int /\ x \in d[x]
  BY DEF Tree, Linked
<1>2. CASE k[c] < k[a]
  <2>1. l[a] \in U /\ c \in d[l[a]]
    BY <1>2 DEF Tree, Parted, Linked
  <2>2. l[a] \in d[a] /\ l[a] # a
    BY <2>1, AboveChild
  <2> QED BY <2>1, <2>2
<1>3. CASE k[c] > k[a]
  <2>1. r[a] \in U /\ c \in d[r[a]]
    BY <1>3 DEF Tree, Parted, Linked
  <2>2. r[a] \in d[a] /\ r[a] # a
    BY <2>1, AboveChild
  <2> QED BY <2>1, <2>2
<1> QED BY <1>2, <1>3, SameSide

\* Among any nodes there is one that is below no other of them.
LEMMA SomeHighest ==
    ASSUME NEW l, NEW r, NEW k, NEW d, NEW U, NEW root, Tree(l, r, k, d, U, root),
           NEW S \in SUBSET U, S # {}
    PROVE  \E a \in S : \A b \in S : a \in d[b] => b = a
<1> DEFINE Rest(a) == U \ d[a]
           F == {Rest(a) : a \in S}
<1>1. U \subseteq Node /\ IsFiniteSet(U)
  BY FS_Subset, NodeAssumption DEF Tree
<1>2. \A a \in S : Rest(a) \in SUBSET U /\ IsFiniteSet(Rest(a))
  BY <1>1, FS_Subset
<1>3. F \subseteq FiniteSubsetsOf(U) /\ F # {}
  BY <1>2 DEF FiniteSubsetsOf
<1>4. PICK x \in F : \A y \in F : ~(<<y, x>> \in StrictSubsetOrdering(U))
  <2> HIDE DEF F
  <2> QED BY <1>3, FS_StrictSubsetOrderingWellFounded, WFMin
<1>5. PICK a \in S : x = Rest(a)
  OBVIOUS
<1>6. ASSUME NEW b \in S, a \in d[b], b # a PROVE FALSE
  <2>1. d[a] \subseteq d[b] /\ b \in d[b]
    BY <1>6 DEF Tree, Linked, Parted
  <2>2. b \notin d[a]
    BY <1>6, BelowAntisymmetric
  <2>3. Rest(b) \subseteq Rest(a) /\ Rest(b) # Rest(a)
    BY <2>2, <2>1
  <2>4. <<Rest(b), Rest(a)>> \in StrictSubsetOrdering(U)
    BY <1>2, <2>3 DEF StrictSubsetOrdering
  <2> QED BY <1>4, <1>5, <2>4
<1> QED BY <1>6

\* Among any nodes there is one that has none of the others below it.
LEMMA SomeLowest ==
    ASSUME NEW l, NEW r, NEW k, NEW d, NEW U, NEW root, Tree(l, r, k, d, U, root),
           NEW S \in SUBSET U, S # {}
    PROVE  \E a \in S : \A b \in S : b \in d[a] => b = a
<1> DEFINE F == {d[a] : a \in S}
<1>1. U \subseteq Node /\ IsFiniteSet(U)
  BY FS_Subset, NodeAssumption DEF Tree
<1>2. \A a \in S : d[a] \in SUBSET U /\ IsFiniteSet(d[a])
  <2>1. \A a \in S : d[a] \in SUBSET U
    BY DEF Tree, Linked
  <2> QED BY <1>1, <2>1, FS_Subset
<1>3. F \subseteq FiniteSubsetsOf(U) /\ F # {}
  BY <1>2 DEF FiniteSubsetsOf
<1>4. PICK x \in F : \A y \in F : ~(<<y, x>> \in StrictSubsetOrdering(U))
  <2> HIDE DEF F
  <2> QED BY <1>3, FS_StrictSubsetOrderingWellFounded, WFMin
<1>5. PICK a \in S : x = d[a]
  OBVIOUS
<1>6. ASSUME NEW b \in S, b \in d[a], b # a PROVE FALSE
  <2>1. d[b] \subseteq d[a] /\ a \in d[a]
    BY <1>6 DEF Tree, Linked, Parted
  <2>2. a \notin d[b]
    BY <1>6, BelowAntisymmetric
  <2>3. d[b] \subseteq d[a] /\ d[b] # d[a]
    BY <2>2, <2>1
  <2>4. <<d[b], d[a]>> \in StrictSubsetOrdering(U)
    BY <1>2, <2>3 DEF StrictSubsetOrdering
  <2> QED BY <1>4, <1>5, <2>4
<1> QED BY <1>6

\* Every node of the tree is reached from the root along the links.
LEMMA AllReached ==
    ASSUME NEW l, NEW r, NEW k, NEW d, NEW U, NEW root, Tree(l, r, k, d, U, root),
           NEW S, root \in S \cup {NULL},
           \A n \in S \cap U : {l[n], r[n]} \ {NULL} \subseteq S
    PROVE  U \subseteq S
<1> SUFFICES ASSUME ~(U \subseteq S) PROVE FALSE
  OBVIOUS
<1> DEFINE X == U \ S
<1>1. X \in SUBSET U /\ X # {}
  OBVIOUS
<1>2. PICK c \in X : \A b \in X : c \in d[b] => b = c
  <2> HIDE DEF X
  <2> QED BY <1>1, SomeHighest
<1>3. NULL \notin U /\ root \in U /\ root \in S /\ c \in d[root] /\ c # root /\ c \in U
  BY NodeAssumption DEF Tree, Linked
<1> DEFINE Y == {m \in U : c \in d[m] /\ m # c}
<1>4. Y \in SUBSET U /\ Y # {}
  BY <1>3
<1>5. PICK a \in Y : \A b \in Y : b \in d[a] => b = a
  <2> HIDE DEF Y
  <2> QED BY <1>4, SomeLowest
<1>6. a \in S /\ a \in U
  BY <1>2, <1>5
<1>7. c = l[a] \/ c = r[a]
  <2>1. \A m \in U : c \in d[m] /\ m # c /\ m \in d[a] => m = a
    BY <1>5
  <2>2. c \in d[a] /\ c # a
    BY <1>5
  <2> QED BY <1>3, <1>6, <2>1, <2>2, NearestAbove
<1>8. c \in S
  BY <1>3, <1>6, <1>7
<1> QED BY <1>8

-----------------------------------------------------------------------------
(* A new leaf.                                                             *)

\* The place below a is the one for key x.
Fits(k, d, U, a, x) ==
    \A m \in U : a \in d[m] =>
        x # k[m] /\ (m # a => (x < k[m] <=> k[a] < k[m]))

\* What is below each node when n hangs below a.
Grown(d, U, a, n) ==
    [b \in Pointer |-> IF b = n THEN {n}
                       ELSE IF b \in U /\ a \in d[b] THEN d[b] \cup {n}
                       ELSE d[b]]

\* A search tree stays one when n with key x is hung where a search for x ends.
LEMMA LeafOnTheLeft ==
    ASSUME NEW l, NEW r, NEW k, NEW d, NEW U, NEW root, Tree(l, r, k, d, U, root),
           NEW a \in U, l[a] = NULL, NEW n \in Node \ U, NEW x \in Int,
           x < k[a], Fits(k, d, U, a, x)
    PROVE  Tree([[l EXCEPT ![n] = NULL] EXCEPT ![a] = n], [r EXCEPT ![n] = NULL],
                [k EXCEPT ![n] = x], Grown(d, U, a, n), U \cup {n}, root)
<1> DEFINE l2 == [[l EXCEPT ![n] = NULL] EXCEPT ![a] = n]
           r2 == [r EXCEPT ![n] = NULL]
           k2 == [k EXCEPT ![n] = x]
           d2 == [b \in Pointer |-> IF b = n THEN {n}
                                    ELSE IF b \in U /\ a \in d[b] THEN d[b] \cup {n}
                                    ELSE d[b]]
           V == U \cup {n}
<1>1. /\ U \subseteq Node /\ a \in Node /\ n \in Node /\ n # a /\ NULL \notin V
      /\ NULL \in Pointer /\ V \subseteq Pointer /\ V \subseteq Node
  BY NodeAssumption DEF Tree, Pointer
<1>2. /\ l2 \in [Node -> Pointer] /\ r2 \in [Node -> Pointer] /\ k2 \in [Node -> Int]
      /\ d2 \in [Pointer -> SUBSET Node]
  BY <1>1 DEF Tree, Pointer
<1>3. l2[a] = n /\ l2[n] = NULL /\ \A m \in U \ {a} : l2[m] = l[m]
  BY <1>1 DEF Tree
<1>4. r2[n] = NULL /\ \A m \in U : r2[m] = r[m]
  BY <1>1 DEF Tree
<1>5. k2[n] = x /\ \A m \in U : k2[m] = k[m]
  BY <1>1 DEF Tree
<1>6. /\ d2[n] = {n} /\ d2[NULL] = {}
      /\ \A m \in U : d2[m] = IF a \in d[m] THEN d[m] \cup {n} ELSE d[m]
      /\ \A m \in U : \A b : b \in d2[m] <=> b \in d[m] \/ (b = n /\ a \in d[m])
  BY <1>1 DEF Tree, Linked
<1> HIDE DEF l2, r2, k2, d2
<1>7. /\ \A m \in U : k[m] \in Int
      /\ \A m \in U : m \in d[m] /\ d[m] \subseteq U /\ n \notin d[m]
      /\ \A m \in U : l[m] \in U \cup {NULL} /\ r[m] \in U \cup {NULL}
      /\ d[NULL] = {} /\ d[root] = U /\ root \in U
  BY DEF Tree, Linked
<1>8. Linked(l2, r2, d2, V, root)
  <2>1. \A m \in U : m \in d2[m] /\ d2[m] \subseteq V
    BY <1>6, <1>7
  <2>2. \A m \in U : l2[m] \in V \cup {NULL} /\ r2[m] \in V \cup {NULL}
    BY <1>3, <1>4, <1>7
  <2>3. d2[root] = V
    BY <1>6, <1>7
  <2> QED BY <2>1, <2>3, <2>2, <1>3, <1>4, <1>6, <1>7 DEF Linked
\* Below the nodes of U: those of U as before, and n where a is.
<1>9. \A m \in U \cup {NULL} : \A b \in U : b \in d2[m] <=> b \in d[m]
  BY <1>6, <1>7
<1>10. \A m \in U \cup {NULL} : n \in d2[m] <=> a \in d[m]
  BY <1>6, <1>7
<1>11. \A m \in U : \A b \in U : b \in d2[l2[m]] <=> b \in d[l[m]]
  BY <1>3, <1>6, <1>7, <1>9
<1>12. \A m \in U : \A b \in U : b \in d2[r2[m]] <=> b \in d[r[m]]
  BY <1>4, <1>7, <1>9
<1>13. \A m \in U : n \in d2[r2[m]] <=> a \in d[r[m]]
  BY <1>4, <1>7, <1>10
<1>14. \A m \in U : n \in d2[l2[m]] <=> m = a \/ a \in d[l[m]]
  BY <1>3, <1>6, <1>7, <1>10
<1>15. \A m \in U : a \in d[m] =>
         x # k[m] /\ (m # a => (x < k[m] <=> k[a] < k[m]))
  BY DEF Fits
<1>16. \A b, m \in U :
        /\ b \in d[l[m]] <=> b \in d[m] /\ k[b] < k[m]
        /\ b \in d[r[m]] <=> b \in d[m] /\ k[b] > k[m]
        /\ b \in d[m] => (k[b] = k[m] => b = m) /\ d[b] \subseteq d[m]
  BY DEF Tree, Parted
<1>17. ASSUME NEW b \in V, NEW m \in V
       PROVE  /\ b \in d2[l2[m]] <=> b \in d2[m] /\ k2[b] < k2[m]
              /\ b \in d2[r2[m]] <=> b \in d2[m] /\ k2[b] > k2[m]
              /\ b \in d2[m] => (k2[b] = k2[m] => b = m) /\ d2[b] \subseteq d2[m]
  <2>1. CASE m = n
    BY <2>1, <1>1, <1>3, <1>4, <1>5, <1>6
  <2>2. CASE m \in U /\ b \in U
    <3>1. b \in d[m] => d2[b] \subseteq d2[m]
      <4>1. b \in d[m] => d[b] \subseteq d[m]
        BY <2>2, <1>16
      <4> QED BY <4>1, <2>2, <1>6
    <3> QED BY <3>1, <2>2, <1>5, <1>9, <1>11, <1>12, <1>16
  <2>3. CASE m \in U /\ b = n
    <3>1. k2[b] = x /\ k2[m] = k[m] /\ k[m] \in Int /\ k[a] \in Int
      BY <2>3, <1>5, <1>7
    <3>2. n \in d2[m] <=> a \in d[m]
      BY <2>3, <1>10
    <3>3. n \in d2[l2[m]] <=> a \in d[m] /\ x < k[m]
      BY <2>3, <3>1, <1>7, <1>14, <1>15, <1>16
    <3>4. n \in d2[r2[m]] <=> a \in d[m] /\ x > k[m]
      <4>1. CASE m = a
        BY <4>1, <2>3, <3>1, <1>13, <1>16
      <4>2. CASE m # a
        BY <4>2, <2>3, <3>1, <1>13, <1>15, <1>16
      <4> QED BY <4>1, <4>2
    <3>5. a \in d[m] => d2[n] \subseteq d2[m] /\ x # k[m]
      BY <2>3, <3>2, <1>6, <1>15
    <3> QED BY <2>3, <3>1, <3>2, <3>3, <3>4, <3>5
  <2> QED BY <2>1, <2>2, <2>3
<1>18. Parted(l2, r2, k2, d2, V)
  BY <1>17 DEF Parted
<1>19. \A y, z \in U : k[y] <= k[z] =>
          \E e \in U : k[y] <= k[e] /\ k[e] <= k[z] /\ y \in d[e] /\ z \in d[e]
  BY DEF Tree, Joined
\* What is below a and below x is not next to x.
<1>20. ASSUME NEW b \in U, NEW e \in U, k[b] <= k[e], k[e] <= k[a], k[b] < k[a],
              b \in d[e], a \in d[e]
       PROVE  k[e] < x
  <2>1. e # a
    BY <1>7, <1>16, <1>20
  <2>2. k[e] < k[a]
    <3>1. k[a] # k[e]
      BY <2>1, <1>16, <1>20
    <3> QED BY <3>1, <1>7, <1>20
  <2> QED BY <2>1, <2>2, <1>7, <1>15, <1>20
<1>21. ASSUME NEW b \in V, NEW m \in V, k2[b] <= k2[m]
       PROVE  \E e \in V : k2[b] <= k2[e] /\ k2[e] <= k2[m] /\ b \in d2[e] /\ m \in d2[e]
  <2>1. CASE b \in U /\ m \in U
    <3>1. PICK e \in U : k[b] <= k[e] /\ k[e] <= k[m] /\ b \in d[e] /\ m \in d[e]
      BY <2>1, <1>5, <1>19, <1>21
    <3> QED BY <3>1, <2>1, <1>5, <1>9
  <2>2. CASE b = n /\ m = n
    BY <2>2, <1>5, <1>6
  <2>3. CASE b \in U /\ m = n
    <3>1. k[b] <= x /\ k[b] < k[a] /\ k[b] <= k[a]
      BY <2>3, <1>5, <1>7, <1>21
    <3>2. PICK e \in U : k[b] <= k[e] /\ k[e] <= k[a] /\ b \in d[e] /\ a \in d[e]
      BY <2>3, <3>1, <1>19
    <3>3. k[e] < x
      BY <2>3, <3>1, <3>2, <1>20
    <3>4. k[e] <= x /\ b \in d2[e] /\ n \in d2[e]
      BY <2>3, <3>2, <3>3, <1>7, <1>9, <1>10
    <3> QED BY <2>3, <3>2, <3>4, <1>5
  <2>4. CASE b = n /\ m \in U
    <3>1. x <= k[m]
      BY <2>4, <1>5, <1>21
    <3>2. k[a] <= k[m]
      <4> SUFFICES ASSUME k[m] < k[a] PROVE FALSE
        BY <2>4, <1>7
      <4>1. PICK e \in U : k[m] <= k[e] /\ k[e] <= k[a] /\ m \in d[e] /\ a \in d[e]
        BY <2>4, <1>7, <1>19
      <4>2. k[e] < x
        BY <4>1, <2>4, <1>20
      <4> QED BY <4>1, <4>2, <3>1, <2>4, <1>7
    <3>3. PICK e \in U : k[a] <= k[e] /\ k[e] <= k[m] /\ a \in d[e] /\ m \in d[e]
      BY <3>2, <2>4, <1>19
    <3>4. x <= k[e] /\ m \in d2[e] /\ n \in d2[e]
      BY <2>4, <3>3, <1>7, <1>9, <1>10
    <3> QED BY <2>4, <3>3, <3>4, <1>5
  <2> QED BY <2>1, <2>2, <2>3, <2>4
<1>22. Joined(k2, d2, V)
  BY <1>21 DEF Joined
<1>23. Tree(l2, r2, k2, d2, V, root)
  BY <1>1, <1>2, <1>8, <1>18, <1>22 DEF Tree
<1> QED BY <1>23 DEF l2, r2, k2, d2, Grown

\* What the links and the order say, in one place.
LEMMA TreeFacts ==
    ASSUME NEW l, NEW r, NEW k, NEW d, NEW U, NEW root, Tree(l, r, k, d, U, root)
    PROVE  /\ U \subseteq Node /\ NULL \notin U /\ root \in U \cup {NULL}
           /\ d[NULL] = {} /\ d[root] = U
           /\ \A m \in U : k[m] \in Int
           /\ \A m \in U : m \in d[m] /\ d[m] \subseteq U
           /\ \A m \in U : l[m] \in U \cup {NULL} /\ r[m] \in U \cup {NULL}
           /\ \A b, m \in U : b \in d[l[m]] <=> b \in d[m] /\ k[b] < k[m]
           /\ \A b, m \in U : b \in d[r[m]] <=> b \in d[m] /\ k[b] > k[m]
           /\ \A b, m \in U : b \in d[m] /\ k[b] = k[m] => b = m
           /\ \A b, m \in U : b \in d[m] => d[b] \subseteq d[m]
BY NodeAssumption DEF Tree, Linked, Parted

\* Every child has one parent and is on one side of it.
LEMMA OneParent ==
    ASSUME NEW l, NEW r, NEW k, NEW d, NEW U, NEW root, Tree(l, r, k, d, U, root),
           NEW a \in U, NEW c \in U, c = l[a] \/ c = r[a]
    PROVE  /\ \A m \in U : c = l[m] \/ c = r[m] => m = a
           /\ l[a] # r[a]
           /\ c # root
<1>1. /\ \A m \in U : k[m] \in Int /\ m \in d[m]
      /\ \A b, m \in U : b \in d[l[m]] <=> b \in d[m] /\ k[b] < k[m]
      /\ \A b, m \in U : b \in d[r[m]] <=> b \in d[m] /\ k[b] > k[m]
      /\ d[root] = U
  BY TreeFacts
<1>2. ASSUME NEW m \in U, c = l[m] \/ c = r[m] PROVE m = a
  <2>1. c \in d[m] /\ c # m /\ m \in d[a]
    BY <1>2, AboveChild
  <2>2. a \in d[m]
    BY <2>1, AboveChild
  <2> QED BY <2>1, <2>2, BelowAntisymmetric
<1>3. l[a] # r[a]
  <2> SUFFICES ASSUME l[a] = r[a] PROVE FALSE
    OBVIOUS
  <2>1. c \in d[c] /\ c \in d[l[a]] /\ c \in d[r[a]]
    BY <1>1
  <2>2. k[c] < k[a] /\ k[c] > k[a]
    BY <2>1, <1>1
  <2> QED BY <2>2, <1>1
<1>4. c # root
  <2>1. c \in d[a] /\ c # a
    BY AboveChild
  <2>2. c = root => a \in d[c]
    BY <1>1
  <2> QED BY <2>1, <2>2, BelowAntisymmetric
<1> QED BY <1>2, <1>3, <1>4

-----------------------------------------------------------------------------
(* A node with at most one child is taken out.                             *)

\* y is replaced by its left child, or by nothing.
LEMMA OutWithoutRight ==
    ASSUME NEW l, NEW r, NEW k, NEW d, NEW U, NEW root, Tree(l, r, k, d, U, root),
           NEW y \in U, r[y] = NULL,
           NEW l2 \in [Node -> Pointer], NEW r2 \in [Node -> Pointer],
           \A m \in U \ {y} : /\ l2[m] = IF l[m] = y THEN l[y] ELSE l[m]
                              /\ r2[m] = IF r[m] = y THEN l[y] ELSE r[m]
    PROVE  Tree(l2, r2, k, [b \in Pointer |-> d[b] \ {y}], U \ {y},
                IF root = y THEN l[y] ELSE root)
<1> DEFINE d2 == [b \in Pointer |-> d[b] \ {y}]
           V == U \ {y}
           top == IF root = y THEN l[y] ELSE root
<1>1. /\ U \subseteq Node /\ NULL \notin U /\ root \in U \cup {NULL}
      /\ d[NULL] = {} /\ d[root] = U
      /\ \A m \in U : k[m] \in Int
      /\ \A m \in U : m \in d[m] /\ d[m] \subseteq U
      /\ \A m \in U : l[m] \in U \cup {NULL} /\ r[m] \in U \cup {NULL}
  BY TreeFacts
<1>2. /\ \A b, m \in U : b \in d[l[m]] <=> b \in d[m] /\ k[b] < k[m]
      /\ \A b, m \in U : b \in d[r[m]] <=> b \in d[m] /\ k[b] > k[m]
      /\ \A b, m \in U : b \in d[m] /\ k[b] = k[m] => b = m
      /\ \A b, m \in U : b \in d[m] => d[b] \subseteq d[m]
  BY TreeFacts
<1>3. d2 \in [Pointer -> SUBSET Node] /\ k \in [Node -> Int]
  BY DEF Tree
<1>4. \A m \in U \cup {NULL} : d2[m] = d[m] \ {y}
  BY <1>1 DEF Pointer
<1> HIDE DEF d2
<1>5. /\ l[y] # y
      /\ \A b \in U \ {y} : b \in d[y] <=> b \in d[l[y]]
      /\ \A b \in U \ {y} : b \in d[y] => k[b] < k[y]
  <2>1. l[y] # y
    BY <1>1, <1>2
  <2>2. \A b \in U \ {y} : b \in d[y] => k[b] < k[y]
    BY <1>1, <1>2
  <2> QED BY <2>1, <2>2, <1>2
<1>6. \A m \in V : l2[m] \in V \cup {NULL} /\ r2[m] \in V \cup {NULL}
  BY <1>1, <1>5
<1>7. \A b, m \in V : /\ b \in d2[l2[m]] <=> b \in d[l[m]]
                      /\ b \in d2[r2[m]] <=> b \in d[r[m]]
  BY <1>1, <1>4, <1>5
<1>8. Linked(l2, r2, d2, V, top)
  <2>1. \A m \in V : m \in d2[m] /\ d2[m] \subseteq V
    BY <1>1, <1>4
  <2>2. d2[NULL] = {}
    BY <1>1, <1>4
  <2>3. top \in V \cup {NULL}
    BY <1>1, <1>5
  <2>4. d2[top] = V
    <3>1. CASE root = y
      <4>1. \A b : b \in d2[l[y]] <=> b \in V
        BY <3>1, <1>1, <1>4, <1>5
      <4> QED BY <3>1, <4>1
    <3>2. CASE root # y
      BY <3>2, <1>1, <1>4
    <3> QED BY <3>1, <3>2
  <2> HIDE DEF top, V
  <2> QED BY <2>1, <2>2, <2>3, <2>4, <1>6 DEF Linked
<1>9. Parted(l2, r2, k, d2, V)
  <2> SUFFICES ASSUME NEW b \in V, NEW m \in V
               PROVE  /\ b \in d2[l2[m]] <=> b \in d2[m] /\ k[b] < k[m]
                      /\ b \in d2[r2[m]] <=> b \in d2[m] /\ k[b] > k[m]
                      /\ b \in d2[m] => (k[b] = k[m] => b = m) /\ d2[b] \subseteq d2[m]
    BY DEF Parted
  <2>1. d2[m] = d[m] \ {y} /\ d2[b] = d[b] \ {y}
    BY <1>4
  <2> QED BY <2>1, <1>2, <1>7
<1>10. Joined(k, d2, V)
  <2> SUFFICES ASSUME NEW b \in V, NEW m \in V, k[b] <= k[m]
               PROVE  \E e \in V : k[b] <= k[e] /\ k[e] <= k[m] /\ b \in d2[e] /\ m \in d2[e]
    BY DEF Joined
  <2>1. PICK e \in U : k[b] <= k[e] /\ k[e] <= k[m] /\ b \in d[e] /\ m \in d[e]
    BY DEF Tree, Joined
  <2>2. e # y
    BY <2>1, <1>1, <1>5
  <2> QED BY <2>1, <2>2, <1>4
<1>11. V \in SUBSET Node
  BY <1>1
<1>12. Tree(l2, r2, k, d2, V, top)
  BY <1>3, <1>8, <1>9, <1>10, <1>11 DEF Tree
<1> QED BY <1>12 DEF d2

\* Only the order of the keys matters.
LEMMA Rekeyed ==
    ASSUME NEW l, NEW r, NEW k, NEW d, NEW U, NEW root, Tree(l, r, k, d, U, root),
           NEW j \in [Node -> Int], \A m, n \in U : j[m] < j[n] <=> k[m] < k[n]
    PROVE  Tree(l, r, j, d, U, root)
<1>1. U \subseteq Node /\ k \in [Node -> Int]
  BY DEF Tree
<1>2. \A m, n \in U : /\ j[m] > j[n] <=> k[m] > k[n]
                      /\ j[m] <= j[n] <=> k[m] <= k[n]
                      /\ j[m] = j[n] <=> k[m] = k[n]
  <2> SUFFICES ASSUME NEW m \in U, NEW n \in U
               PROVE  /\ j[m] > j[n] <=> k[m] > k[n]
                      /\ j[m] <= j[n] <=> k[m] <= k[n]
                      /\ j[m] = j[n] <=> k[m] = k[n]
    OBVIOUS
  <2>1. j[m] \in Int /\ j[n] \in Int /\ k[m] \in Int /\ k[n] \in Int
    BY <1>1
  <2>2. (j[m] < j[n] <=> k[m] < k[n]) /\ (j[n] < j[m] <=> k[n] < k[m])
    OBVIOUS
  <2> QED BY <2>1, <2>2
<1>3. Parted(l, r, j, d, U)
  BY <1>2 DEF Tree, Parted
<1>4. Joined(j, d, U)
  BY <1>2 DEF Tree, Joined
<1> QED BY <1>3, <1>4 DEF Tree

-----------------------------------------------------------------------------
(* Rotation: y, the left child of x, takes its place.                      *)

\* What is below x stays together, with y on top of it.
LEMMA Rotated ==
    ASSUME NEW l, NEW r, NEW k, NEW d, NEW U, NEW root, Tree(l, r, k, d, U, root),
           NEW x \in U, NEW y \in U, y = l[x],
           NEW l2 \in [Node -> Pointer], NEW r2 \in [Node -> Pointer],
           l2[x] = r[y], r2[x] = r[x], l2[y] = l[y], r2[y] = x,
           \A m \in U \ {x, y} : /\ l2[m] = IF l[m] = x THEN y ELSE l[m]
                                 /\ r2[m] = IF r[m] = x THEN y ELSE r[m]
    PROVE  Tree(l2, r2, k,
                [d EXCEPT ![y] = d[x], ![x] = {b \in d[x] : k[b] > k[y]}],
                U, IF root = x THEN y ELSE root)
<1> DEFINE d2 == [d EXCEPT ![y] = d[x], ![x] = {b \in d[x] : k[b] > k[y]}]
           top == IF root = x THEN y ELSE root
<1>1. /\ U \subseteq Node /\ NULL \notin U /\ root \in U \cup {NULL}
      /\ d[NULL] = {} /\ d[root] = U
      /\ \A m \in U : k[m] \in Int
      /\ \A m \in U : m \in d[m] /\ d[m] \subseteq U
      /\ \A m \in U : l[m] \in U \cup {NULL} /\ r[m] \in U \cup {NULL}
  BY TreeFacts
<1>2. /\ \A b, m \in U : b \in d[l[m]] <=> b \in d[m] /\ k[b] < k[m]
      /\ \A b, m \in U : b \in d[r[m]] <=> b \in d[m] /\ k[b] > k[m]
      /\ \A b, m \in U : b \in d[m] /\ k[b] = k[m] => b = m
      /\ \A b, m \in U : b \in d[m] => d[b] \subseteq d[m]
  BY TreeFacts
<1>3. /\ x # y /\ y \in d[x] /\ y # root
      /\ \A m \in U : y \in d[m] /\ m # y => x \in d[m]
      /\ \A m \in U : y = l[m] \/ y = r[m] => m = x
      /\ y # r[x] /\ k[y] < k[x]
  <2>1. x # y /\ y \in d[x] /\ \A m \in U : y \in d[m] /\ m # y => x \in d[m]
    BY AboveChild
  <2>2. /\ y # root /\ y # r[x] /\ \A m \in U : y = l[m] \/ y = r[m] => m = x
    BY OneParent
  <2>3. k[y] < k[x]
    BY <1>1, <1>2
  <2> QED BY <2>1, <2>2, <2>3
<1>4. /\ d2 \in [Pointer -> SUBSET Node] /\ k \in [Node -> Int]
      /\ d2[y] = d[x] /\ d2[x] = {b \in d[x] : k[b] > k[y]}
      /\ \A m \in (U \cup {NULL}) \ {x, y} : d2[m] = d[m]
  <2>1. d \in [Pointer -> SUBSET Node] /\ k \in [Node -> Int] /\ U \cup {NULL} \subseteq Pointer
    BY <1>1 DEF Tree, Pointer
  <2> QED BY <2>1, <1>1, <1>3
<1> HIDE DEF d2
<1>5. /\ \A m \in U : l2[m] \in U \cup {NULL} /\ r2[m] \in U \cup {NULL}
  BY <1>1
<1>6. Linked(l2, r2, d2, U, top)
  <2>1. \A m \in U : m \in d2[m] /\ d2[m] \subseteq U
    <3>1. x \in d2[x] /\ d2[x] \subseteq U
      BY <1>1, <1>3, <1>4
    <3>2. y \in d2[y] /\ d2[y] \subseteq U
      BY <1>1, <1>3, <1>4
    <3> QED BY <3>1, <3>2, <1>1, <1>4
  <2>2. d2[NULL] = {} /\ d2[top] = U /\ top \in U \cup {NULL}
    BY <1>1, <1>3, <1>4
  <2> HIDE DEF top
  <2> QED BY <2>1, <2>2, <1>5 DEF Linked
<1>7. \A b \in U : b \in d2[y] <=> b \in d[x]
  BY <1>4
<1>8. \A b \in U : b \in d2[x] <=> b \in d[x] /\ k[b] > k[y]
  BY <1>4
<1>9. \A b \in U : b \in d[x] /\ k[b] <= k[y] => b \in d[y]
  BY <1>1, <1>2, <1>3
<1>10. ASSUME NEW b \in U, NEW m \in U
       PROVE  /\ b \in d2[l2[m]] <=> b \in d2[m] /\ k[b] < k[m]
              /\ b \in d2[r2[m]] <=> b \in d2[m] /\ k[b] > k[m]
  <2>1. CASE m = x
    <3>1. r[y] # x /\ r[y] # y /\ r[x] # x /\ r[x] # y
      BY <1>1, <1>2, <1>3
    <3>2. d2[l2[x]] = d[r[y]] /\ d2[r2[x]] = d[r[x]]
      BY <3>1, <1>1, <1>4
    <3>3. b \in d[r[y]] <=> b \in d[y] /\ k[b] > k[y]
      BY <1>2
    <3>4. b \in d[y] <=> b \in d[x] /\ k[b] < k[x]
      BY <1>2
    <3>5. b \in d[r[x]] <=> b \in d[x] /\ k[b] > k[x]
      BY <1>2
    <3>6. k[b] \in Int /\ k[x] \in Int /\ k[y] \in Int
      BY <1>1
    <3> QED BY <2>1, <3>2, <3>3, <3>4, <3>5, <3>6, <1>3, <1>8
  <2>2. CASE m = y
    <3>1. l[y] # x /\ l[y] # y
      <4>1. l[y] # y
        BY <1>1, <1>2
      <4>2. l[y] = x => x \in d[y]
        BY <1>1, <1>2
      <4> QED BY <4>1, <4>2, <1>3, BelowAntisymmetric
    <3>2. d2[l2[y]] = d[l[y]] /\ d2[r2[y]] = d2[x]
      BY <3>1, <1>1, <1>4
    <3>3. b \in d[l[y]] <=> b \in d[y] /\ k[b] < k[y]
      BY <1>2
    <3>4. b \in d[y] <=> b \in d[x] /\ k[b] < k[x]
      BY <1>2
    <3>5. k[b] \in Int /\ k[x] \in Int /\ k[y] \in Int
      BY <1>1
    <3> QED BY <2>2, <3>2, <3>3, <3>4, <3>5, <1>3, <1>7, <1>8
  <2>3. CASE m # x /\ m # y
    <3>1. l[m] # y /\ r[m] # y
      BY <2>3, <1>3
    <3>2. d2[l2[m]] = d[l[m]]
      BY <2>3, <3>1, <1>1, <1>4
    <3>3. d2[r2[m]] = d[r[m]]
      BY <2>3, <3>1, <1>1, <1>4
    <3>4. d2[m] = d[m]
      BY <2>3, <1>4
    <3> QED BY <3>2, <3>3, <3>4, <1>2
  <2> QED BY <2>1, <2>2, <2>3
<1>11. ASSUME NEW b \in U, NEW m \in U, b \in d2[m]
       PROVE  (k[b] = k[m] => b = m) /\ d2[b] \subseteq d2[m]
  <2>1. k[b] = k[m] => b = m
    BY KeysDiffer
  <2>2. d2[x] \subseteq d[x] /\ \A c \in U : c # y => d2[c] \subseteq d[c]
    BY <1>4
  <2>3. CASE m = x
    <3>1. b \in d[x] /\ k[b] > k[y]
      BY <2>3, <1>8, <1>11
    <3>2. b # y /\ d[b] \subseteq d[x] /\ d[b] \subseteq U
      BY <3>1, <1>1, <1>2
    <3>3. b # x => \A c \in d[b] : k[c] > k[y]
      <4>1. CASE k[b] < k[x]
        <5>1. b \in d[y]
          BY <4>1, <3>1, <1>2
        <5> QED BY <5>1, <3>1, <3>2, SameSide
      <4>2. CASE k[b] > k[x] /\ b # x
        <5>1. \A c \in d[b] : k[c] > k[x]
          BY <4>2, <3>1, SameSide
        <5> QED BY <5>1, <3>2, <1>1, <1>3
      <4>3. k[b] = k[x] => b = x
        BY KeysDiffer
      <4> QED BY <4>1, <4>2, <4>3, <1>1
    <3>4. b # x => d2[b] \subseteq d2[x]
      <4> SUFFICES ASSUME b # x, NEW c \in d2[b] PROVE c \in d2[x]
        OBVIOUS
      <4>1. c \in d[b]
        BY <3>2, <1>4
      <4> QED BY <4>1, <3>2, <3>3, <1>4
    <3> QED BY <2>1, <2>3, <3>4
  <2>4. CASE m = y
    <3>1. b \in d[x]
      BY <2>4, <1>7, <1>11
    <3>2. d[b] \subseteq d[x]
      BY <3>1, <1>2
    <3> QED BY <2>1, <2>2, <2>4, <3>2, <1>4
  <2>5. CASE m # x /\ m # y
    <3>1. b \in d[m] /\ d[b] \subseteq d[m] /\ d2[m] = d[m]
      BY <2>5, <1>2, <1>4, <1>11
    <3>2. b = y => d[x] \subseteq d[m]
      BY <2>5, <3>1, <1>2, <1>3
    <3> QED BY <2>1, <2>2, <3>1, <3>2, <1>4
  <2> QED BY <2>3, <2>4, <2>5
<1>12. Parted(l2, r2, k, d2, U)
  BY <1>10, <1>11 DEF Parted
<1>13. Joined(k, d2, U)
  <2> SUFFICES ASSUME NEW b \in U, NEW m \in U, k[b] <= k[m]
               PROVE  \E e \in U : k[b] <= k[e] /\ k[e] <= k[m] /\ b \in d2[e] /\ m \in d2[e]
    BY DEF Joined
  <2>1. PICK e \in U : k[b] <= k[e] /\ k[e] <= k[m] /\ b \in d[e] /\ m \in d[e]
    BY DEF Tree, Joined
  <2>2. CASE e # x /\ e # y
    BY <2>1, <2>2, <1>4
  <2>3. CASE e = y
    <3>1. b \in d[x] /\ m \in d[x]
      BY <2>1, <2>3, <1>2
    <3> QED BY <2>1, <2>3, <3>1, <1>7
  <2>4. CASE e = x
    <3>1. CASE k[b] <= k[y]
      <4>1. k[y] <= k[m]
        BY <2>1, <2>4, <1>1, <1>3
      <4> QED BY <2>1, <2>4, <3>1, <4>1, <1>7
    <3>2. CASE k[b] > k[y]
      <4>1. k[m] > k[y]
        BY <2>1, <2>4, <1>1, <1>3
      <4> QED BY <2>1, <2>4, <3>2, <4>1, <1>8
    <3> QED BY <3>1, <3>2, <1>1
  <2> QED BY <2>2, <2>3, <2>4
<1>14. Tree(l2, r2, k, d2, U, top)
  BY <1>1, <1>4, <1>6, <1>12, <1>13 DEF Tree
<1> QED BY <1>14 DEF d2

-----------------------------------------------------------------------------
(* The inductive invariant.                                                *)

Lefts(h) == [n \in Node |-> h[n].left]
Rights(h, H) == [n \in Node |-> IF n \in H THEN NULL ELSE h[n].right]
Keys(h) == [n \in Node |-> h[n].key]

\* The heap is a search tree, but for the right links of H, which are threads.
HeapTree(h, H, d, U, root) == Tree(Lefts(h), Rights(h, H), Keys(h), d, U, root)

\* What each place of a call knows of the locals.
Control ==
    /\ pc = "idle" => /\ op = "none" /\ arg = NULL /\ p = NULL /\ q = NULL
                      /\ s = <<>> /\ s2 = <<>> /\ out = <<>>
    /\ pc = "down" => op \in Calls /\ arg \in Key
    /\ pc \in {"pred", "unlink"} => op = "delete"
    /\ pc = "update" => op \in {"insert", "delete"}
    /\ pc = "visit" => op \in Order
    /\ pc \in {"visit", "seek"} => arg = NULL
    /\ pc = "seek" => op \in Morris /\ p # NULL /\ q # NULL
    /\ pc = "visit" /\ op # "preorder" => s \in Seq(Node)
    /\ pc \in {"visit", "seek"} => s2 \in Seq(Node)
    /\ pc \in {"visit", "seek"} /\ op \in Morris => s = <<>>

\* c and the nodes of U above it; and a stack as the way down through S.
Upward(d, U, c) == {m \in U : c \in d[m]}
Way(d, stack, S) ==
    /\ ToSet(stack) = S
    /\ \A i, j \in DOMAIN stack : i < j => /\ stack[j] \in d[stack[i]]
                                          /\ stack[j] # stack[i]

\* The key is below p or nowhere; insert and delete know how they came to p.
Searching(d) ==
    pc = "down" =>
        /\ p \in used \cup {NULL}
        /\ \A m \in used : node[m].key = arg => m \in d[p]
        /\ op # "search" =>
             IF s = <<>> THEN p = t
             ELSE LET a == Last(s)
                  IN  /\ a \in used /\ Way(d, s, Upward(d, used, a))
                      /\ Fits(Keys(node), d, used, a, arg)
                      /\ p = IF arg > node[a].key THEN node[a].right ELSE node[a].left

\* y is below the left child of x, and the largest key there is below y.
Rightmost(d, x, y) ==
    /\ y \in d[node[x].left]
    /\ \A m \in d[node[x].left] : m \in d[y] \/ node[m].key < node[y].key

\* bst_delete() has found the key at p and looks for the node to take out.
Replacing(d) ==
    pc \in {"pred", "unlink"} =>
        /\ p \in used /\ node[p].key = arg /\ q \in used
        /\ Way(d, s, Upward(d, used, q) \ {q})
        /\ IF node[p].left = NULL THEN q = p /\ pc = "unlink"
           ELSE Rightmost(d, p, q) /\ (pc = "unlink" => node[q].right = NULL)

GoingBack(d) ==
    pc = "update" => p \in used /\ Way(d, s, Upward(d, used, p) \ {p})

\* The nodes of H have threads along g, exactly to the nodes that have x on their
\* left and perhaps to x; each comes from the predecessor.
Hung(l, g, k, d, U, H, x) ==
    /\ \A m \in H : /\ g[m] \in U /\ m \in d[l[g[m]]]
                    /\ \A b \in d[l[g[m]]] : k[b] <= k[m]
                    /\ x = g[m] \/ x \in d[l[g[m]]]
    /\ \A a \in U : x \in d[l[a]] => \E m \in H : g[m] = a

Threaded == op \in Morris /\ pc \in {"visit", "seek"}
Threads(d, H) ==
    /\ H \subseteq used
    /\ ~Threaded => H = {}
    /\ Threaded =>
         /\ p \in used \cup {NULL}
         /\ Hung(Lefts(node), Rights(node, {}), Keys(node), d, used, H, p)
         /\ pc = "seek" => q \in used /\ Rightmost(d, p, q)

Shape(d, H) ==
    /\ HeapTree(node, H, d, used, t)
    /\ Searching(d) /\ Replacing(d) /\ GoingBack(d) /\ Threads(d, H)

IInv ==
    /\ TypeOK /\ Control
    /\ pc \notin {"crashed", "destroyed"} =>
         \E d \in [Pointer -> SUBSET Node], H \in SUBSET Node : Shape(d, H)

-----------------------------------------------------------------------------
(* What the steps have in common.                                          *)

\* What a proof about one step needs of the types.
LEMMA NodeTypes ==
    ASSUME TypeOK
    PROVE  /\ NULL \notin Node /\ Node \subseteq Pointer /\ NULL \in Pointer
           /\ used \subseteq Node /\ t \in Pointer
           /\ \A n \in Node : /\ node[n].key \in Key /\ node[n].key \in Int
                              /\ node[n].bf \in -1..1
                              /\ node[n].left \in Pointer /\ node[n].right \in Pointer
BY NodeAssumption, KeyAssumption DEF TypeOK, Pointer

\* The heap as three functions.
LEMMA HeapLinks ==
    ASSUME TypeOK, NEW H
    PROVE  /\ Lefts(node) \in [Node -> Pointer]
           /\ Rights(node, H) \in [Node -> Pointer]
           /\ Keys(node) \in [Node -> Int]
           /\ \A n \in Node : /\ Lefts(node)[n] = node[n].left
                              /\ n \notin H => Rights(node, H)[n] = node[n].right
                              /\ n \in H => Rights(node, H)[n] = NULL
                              /\ Keys(node)[n] = node[n].key
BY NodeTypes DEF Lefts, Rights, Keys

\* At the end of a traversal no thread is left.
LEMMA NoneHung ==
    ASSUME NEW l, NEW r, NEW k, NEW d, NEW U, NEW root, Tree(l, r, k, d, U, root),
           NEW g, NEW H, Hung(l, g, k, d, U, H, NULL)
    PROVE  H = {}
<1>1. /\ NULL \notin U /\ d[NULL] = {} /\ \A m \in U : d[m] \subseteq U
      /\ \A m \in U : l[m] \in U \cup {NULL}
  BY TreeFacts
<1>2. \A m \in H : g[m] \in U /\ (NULL = g[m] \/ NULL \in d[l[g[m]]])
  BY DEF Hung
<1> QED BY <1>1, <1>2

\* A call that is over leaves nothing to say but of the heap.
LEMMA DoneKeeps ==
    ASSUME TypeOK, Done, NEW d \in [Pointer -> SUBSET Node],
           TypeOK', HeapTree(node', {}, d, used', t')
    PROVE  IInv'
<1>1. pc' = "idle"
  BY DEF Done
<1>2. Control'
  BY DEF Done, Control
<1>3. ~Threaded'
  BY <1>1 DEF Threaded
<1>4. Searching(d)' /\ Replacing(d)' /\ GoingBack(d)'
  BY <1>1 DEF Searching, Replacing, GoingBack
<1>5. Threads(d, {})'
  BY <1>3 DEF Threads
<1>6. Shape(d, {})'
  BY <1>4, <1>5 DEF Shape
<1>7. {} \in SUBSET Node
  OBVIOUS
<1> QED BY <1>2, <1>6, <1>7, Zenon DEF IInv

\* TypeOK after a step that leaves the tree as it is.
LEMMA DoneTypes ==
    ASSUME TypeOK, Done, UNCHANGED <<node, used, t>>, answer' \in BOOLEAN
    PROVE  TypeOK'
BY DEF TypeOK, Done, Pointer

\* A call that is over without having changed the tree.
LEMMA DoneStill ==
    ASSUME IInv, Done, UNCHANGED <<node, used, t>>, answer' \in BOOLEAN,
           pc \in {"down", "visit"}, pc = "visit" => p = NULL
    PROVE  IInv'
<1>1. TypeOK /\ TypeOK'
  BY DoneTypes DEF IInv
<1>2. PICK d \in [Pointer -> SUBSET Node], H \in SUBSET Node : Shape(d, H)
  BY DEF IInv
<1>3. H = {}
  <2>1. CASE ~Threaded
    BY <2>1, <1>2 DEF Shape, Threads
  <2>2. CASE Threaded
    <3>1. pc = "visit"
      BY <2>2 DEF Threaded
    <3>2. Hung(Lefts(node), Rights(node, {}), Keys(node), d, used, H, NULL)
      BY <2>2, <3>1, <1>2 DEF Shape, Threads
    <3>3. Tree(Lefts(node), Rights(node, H), Keys(node), d, used, t)
      BY <1>2 DEF Shape, HeapTree
    <3> QED BY <3>2, <3>3, NoneHung
  <2> QED BY <2>1, <2>2
<1>4. HeapTree(node, {}, d, used, t)
  BY <1>2, <1>3 DEF Shape
<1>5. HeapTree(node', {}, d, used', t')
  BY <1>4
<1> QED BY <1>1, <1>5, DoneKeeps

\* The shape of the heap after a step of a traversal that hangs no threads.
LEMMA OtherShape ==
    ASSUME NEW d, NEW H, Shape(d, H), UNCHANGED <<node, used, t>>,
           pc \in {"idle", "visit"}, pc = "visit" => op \notin Morris,
           pc' = "crashed" \/ (pc' = "visit" /\ op' \notin Morris)
    PROVE  H = {} /\ Shape(d, {})'
<1>1. ~Threaded /\ ~Threaded'
  BY DEF Threaded
<1>2. H = {}
  BY <1>1 DEF Shape, Threads
<1>3. HeapTree(node', {}, d, used', t')
  BY <1>2 DEF Shape
<1>4. Searching(d)' /\ Replacing(d)' /\ GoingBack(d)'
  BY DEF Searching, Replacing, GoingBack
<1>5. Threads(d, {})'
  BY <1>1 DEF Threads
<1>6. Shape(d, {})'
  BY <1>3, <1>4, <1>5 DEF Shape
<1> QED BY <1>2, <1>6

\* A step of a traversal that does not hang threads.
LEMMA OtherTraversal ==
    ASSUME IInv, TypeOK', Control', UNCHANGED <<node, used, t>>,
           pc \in {"idle", "visit"}, pc = "visit" => op \notin Morris,
           pc' = "crashed" \/ (pc' = "visit" /\ op' \notin Morris)
    PROVE  IInv'
<1>1. PICK d \in [Pointer -> SUBSET Node], H \in SUBSET Node : Shape(d, H)
  BY DEF IInv
<1>2. Shape(d, {})' /\ {} \in SUBSET Node
  BY <1>1, OtherShape
<1> QED BY <1>2, Zenon DEF IInv

-----------------------------------------------------------------------------
(* The traversals that leave the tree alone.                               *)

\* Stacks keep their types when a child that is not NULL is pushed.
LEMMA PushedType ==
    ASSUME NEW S, NEW stack \in Seq(S), NEW n \in S \cup {NULL}
    PROVE  Pushed(stack, n) \in Seq(S)
BY DEF Pushed

LEMMA MorePointers ==
    ASSUME NEW stack \in Seq(Node)
    PROVE  stack \in Seq(Pointer)
BY DEF Pointer

\* Each of these steps changes only stacks, p, q and out.
LEMMA PreorderKeeps == ASSUME IInv, PreorderStep PROVE IInv'
<1> USE DEF PreorderStep, Traverses
<1>1. TypeOK /\ Control /\ s \in Seq(Pointer) /\ s # <<>> /\ op = "preorder" /\ pc = "visit"
  BY DEF IInv, TypeOK
<1>2. Last(s) \in Pointer /\ Front(s) \in Seq(Pointer)
  BY <1>1, PopFacts
<1>3. CASE Last(s) = NULL
  <2>1. /\ pc' = "crashed"
        /\ UNCHANGED <<node, used, t, op, arg, p, q, s, s2, out, answer>>
    BY <1>3 DEF Crash
  <2>2. TypeOK' /\ Control'
    BY <1>1, <2>1 DEF TypeOK, Control
  <2> QED BY <1>1, <2>1, <2>2, OtherTraversal DEF Morris
<1>4. CASE Last(s) # NULL
  <2> DEFINE n == Last(s)
  <2>1. n \in Node /\ node[n].key \in Key /\ node[n].left \in Pointer /\ node[n].right \in Pointer
    BY <1>1, <1>2, <1>4, NodeTypes DEF Pointer
  <2>2. /\ out' = Append(out, node[n].key)
        /\ s' = Pushed(Pushed(Front(s), node[n].right), node[n].left)
        /\ UNCHANGED <<node, used, t, pc, op, arg, p, q, s2, answer>>
    BY <1>4 DEF PrintNode
  <2> HIDE DEF n
  <2>3. s' \in Seq(Pointer)
    <3>1. Pushed(Front(s), node[n].right) \in Seq(Pointer)
      BY <1>2, <2>1, PushedType
    <3> QED BY <2>1, <2>2, <3>1, PushedType
  <2>4. TypeOK'
    BY <1>1, <2>1, <2>2, <2>3 DEF TypeOK
  <2>5. Control'
    BY <1>1, <2>2 DEF Control, Morris
  <2> QED BY <1>1, <2>2, <2>4, <2>5, OtherTraversal DEF Morris
<1> QED BY <1>3, <1>4

LEMMA LevelorderKeeps == ASSUME IInv, LevelorderStep PROVE IInv'
<1> USE DEF LevelorderStep, Traverses
<1>1. TypeOK /\ Control /\ s \in Seq(Node) /\ s # <<>> /\ op = "levelorder" /\ pc = "visit"
  BY DEF IInv, Control
<1>2. Head(s) \in Node /\ Tail(s) \in Seq(Node)
  BY <1>1, HeadElements
<1> DEFINE n == Head(s)
<1>3. n \in Node /\ node[n].key \in Key /\ node[n].left \in Pointer /\ node[n].right \in Pointer
  BY <1>1, <1>2, NodeTypes DEF Pointer
<1>4. /\ out' = Append(out, node[n].key)
      /\ s' = Pushed(Pushed(Tail(s), node[n].left), node[n].right)
      /\ UNCHANGED <<node, used, t, pc, op, arg, p, q, s2, answer>>
  BY DEF PrintNode
<1> HIDE DEF n
<1>5. s' \in Seq(Node) /\ s' \in Seq(Pointer)
  <2>1. Pushed(Tail(s), node[n].left) \in Seq(Node)
    BY <1>2, <1>3, PushedType DEF Pointer
  <2>2. s' \in Seq(Node)
    BY <1>3, <1>4, <2>1, PushedType DEF Pointer
  <2> QED BY <2>2 DEF Pointer
<1>6. TypeOK'
  BY <1>1, <1>3, <1>4, <1>5 DEF TypeOK
<1>7. Control'
  BY <1>1, <1>4, <1>5 DEF Control, Morris
<1> QED BY <1>1, <1>4, <1>6, <1>7, OtherTraversal DEF Morris

\* On the way of the other traversals the stacks hold nodes.
LEMMA StackTypes ==
    ASSUME IInv, pc = "visit", op # "preorder"
    PROVE  TypeOK /\ Control /\ s \in Seq(Node) /\ s2 \in Seq(Node)
BY DEF IInv, Control

LEMMA DescendLeftKeeps == ASSUME IInv, DescendLeft PROVE IInv'
<1> USE DEF DescendLeft, Traverses
<1>1. /\ pc = "visit" /\ p # NULL
      /\ op \in {"inorder", "postorder", "stack2 inorder", "stack2 postorder"}
      /\ p' = node[p].left
      /\ UNCHANGED <<node, used, t, pc, op, arg, q, out, answer>>
  OBVIOUS
<1>2. TypeOK /\ Control /\ s \in Seq(Node) /\ s2 \in Seq(Node)
  BY <1>1, StackTypes
<1>3. p \in Node /\ node[p].left \in Pointer /\ node[p].right \in Node \cup {NULL}
  BY <1>1, <1>2, NodeTypes DEF TypeOK, Pointer
<1>4. Pushed(s, node[p].right) \in Seq(Node) /\ Pushed(s2, node[p].right) \in Seq(Node)
  BY <1>2, <1>3, PushedType
<1> DEFINE stack == IF op = "postorder" THEN Pushed(s, node[p].right) ELSE s
<1>5. s' \in Seq(Node) /\ s2' \in Seq(Node)
  <2>1. stack \in Seq(Node) /\ s' = Append(stack, p)
    BY <1>2, <1>4
  <2>2. Append(stack, p) \in Seq(Node)
    <3> HIDE DEF stack, DescendLeft
    <3> QED BY <2>1, <1>3, PushFacts
  <2>3. s2' \in Seq(Node)
    BY <1>2, <1>4
  <2> QED BY <2>1, <2>2, <2>3
<1>6. s' \in Seq(Pointer) /\ s2' \in Seq(Pointer)
  BY <1>5, MorePointers
<1>7. TypeOK'
  BY <1>1, <1>2, <1>3, <1>6 DEF TypeOK
<1>8. Control'
  BY <1>1, <1>2, <1>5 DEF Control, Morris
<1> QED BY <1>1, <1>7, <1>8, OtherTraversal DEF Morris

LEMMA InorderKeeps == ASSUME IInv, InorderStep PROVE IInv'
<1> USE DEF InorderStep, Traverses
<1>1. /\ pc = "visit" /\ s # <<>> /\ op = "inorder"
      /\ out' = Append(out, node[Last(s)].key)
      /\ s' = Front(s) /\ p' = node[Last(s)].right
      /\ UNCHANGED <<node, used, t, pc, op, arg, q, s2, answer>>
  BY DEF PrintNode
<1>2. TypeOK /\ Control /\ s \in Seq(Node)
  BY <1>1, StackTypes
<1>3. Last(s) \in Node /\ Front(s) \in Seq(Node) /\ Front(s) \in Seq(Pointer)
  <2>1. Last(s) \in Node /\ Front(s) \in Seq(Node)
    BY <1>1, <1>2, PopFacts
  <2> QED BY <2>1 DEF Pointer
<1>4. node[Last(s)].key \in Key /\ node[Last(s)].right \in Pointer
  BY <1>2, <1>3, NodeTypes
<1>5. TypeOK'
  BY <1>1, <1>2, <1>3, <1>4 DEF TypeOK
<1>6. Control'
  BY <1>1, <1>2, <1>3 DEF Control, Morris
<1> QED BY <1>1, <1>5, <1>6, OtherTraversal DEF Morris

LEMMA PostorderKeeps == ASSUME IInv, PostorderStep PROVE IInv'
<1> USE DEF PostorderStep, Traverses
<1> DEFINE n == Last(s)
           rest == Front(s)
<1>1. /\ pc = "visit" /\ s # <<>> /\ op = "postorder"
      /\ UNCHANGED <<node, used, t, pc, op, arg, q, s2, answer>>
      /\ \/ /\ IsPutOff(n, rest)
            /\ s' = Append(Front(rest), n) /\ p' = node[n].right /\ out' = out
         \/ s' = rest /\ p' = NULL /\ out' = Append(out, node[n].key)
  BY DEF PrintNode
<1>2. TypeOK /\ Control /\ s \in Seq(Node)
  BY <1>1, StackTypes
<1>3. n \in Node /\ rest \in Seq(Node)
  BY <1>1, <1>2, PopFacts
<1>4. node[n].key \in Key /\ node[n].right \in Pointer /\ NULL \in Pointer
  BY <1>2, <1>3, NodeTypes
<1> HIDE DEF n, rest
<1>5. s' \in Seq(Node) /\ p' \in Pointer /\ out' \in Seq(Key)
  <2>1. CASE /\ IsPutOff(n, rest)
             /\ s' = Append(Front(rest), n) /\ p' = node[n].right /\ out' = out
    <3>1. Front(rest) \in Seq(Node)
      BY <2>1, <1>3, PopFacts DEF IsPutOff
    <3>2. s' \in Seq(Node)
      BY <2>1, <3>1, <1>3
    <3> QED BY <2>1, <3>2, <1>2, <1>4 DEF TypeOK
  <2>2. CASE s' = rest /\ p' = NULL /\ out' = Append(out, node[n].key)
    BY <2>2, <1>2, <1>3, <1>4 DEF TypeOK
  <2> QED BY <1>1, <2>1, <2>2
<1>6. s' \in Seq(Pointer)
  BY <1>5 DEF Pointer
<1>7. TypeOK'
  BY <1>1, <1>2, <1>5, <1>6 DEF TypeOK
<1>8. Control'
  BY <1>1, <1>2, <1>5 DEF Control, Morris
<1> QED BY <1>1, <1>7, <1>8, OtherTraversal DEF Morris

LEMMA Stack2Keeps == ASSUME IInv, Stack2Step PROVE IInv'
<1> USE DEF Stack2Step, Traverses
<1> DEFINE n == Last(s)
<1>1. /\ pc = "visit" /\ s # <<>> /\ op \in {"stack2 inorder", "stack2 postorder"}
      /\ UNCHANGED <<node, used, t, pc, op, arg, q, answer>>
      /\ \/ IsPutOff(n, s2) /\ s2' = Front(s2) /\ p' = node[n].right
         \/ s2' = s2 /\ p' = NULL
      /\ \/ s' = s /\ out' = out
         \/ s' = Front(s) /\ out' = Append(out, node[n].key)
  BY DEF PrintNode
<1>2. TypeOK /\ Control /\ s \in Seq(Node) /\ s2 \in Seq(Node)
  BY <1>1, StackTypes
<1>3. n \in Node /\ Front(s) \in Seq(Node)
  BY <1>1, <1>2, PopFacts
<1>4. node[n].key \in Key /\ node[n].right \in Pointer /\ NULL \in Pointer
  BY <1>2, <1>3, NodeTypes
<1> HIDE DEF n
<1>5. s2' \in Seq(Node) /\ p' \in Pointer
  <2>1. IsPutOff(n, s2) => Front(s2) \in Seq(Node)
    BY <1>2, PopFacts DEF IsPutOff
  <2> QED BY <2>1, <1>1, <1>2, <1>4
<1>6. s' \in Seq(Node) /\ out' \in Seq(Key)
  <2>1. out \in Seq(Key)
    BY <1>2 DEF TypeOK
  <2>2. s' \in Seq(Node)
    BY <1>1, <1>2, <1>3
  <2>3. Append(out, node[n].key) \in Seq(Key)
    BY <2>1, <1>4, PushFacts
  <2>4. out' = out \/ out' = Append(out, node[n].key)
    BY <1>1
  <2> QED BY <2>1, <2>2, <2>3, <2>4
<1>7. s' \in Seq(Pointer) /\ s2' \in Seq(Pointer)
  BY <1>5, <1>6, MorePointers
<1>8. TypeOK'
  BY <1>1, <1>2, <1>5, <1>6, <1>7 DEF TypeOK
<1>9. Control'
  BY <1>1, <1>2, <1>5, <1>6 DEF Control, Morris
<1> QED BY <1>1, <1>8, <1>9, OtherTraversal DEF Morris

-----------------------------------------------------------------------------
(* Steps between two states without threads.                               *)

\* Without threads H is empty.
LEMMA ShapeOf ==
    ASSUME IInv, pc \notin {"crashed", "destroyed"}, ~Threaded
    PROVE  \E d \in [Pointer -> SUBSET Node] : Shape(d, {})
<1>1. PICK d \in [Pointer -> SUBSET Node], H \in SUBSET Node : Shape(d, H)
  BY DEF IInv
<1>2. H = {}
  BY <1>1 DEF Shape, Threads
<1> QED BY <1>1, <1>2

\* The invariant from its parts, when no thread hangs.
LEMMA ShapeGives ==
    ASSUME TypeOK', Control', ~Threaded', NEW d \in [Pointer -> SUBSET Node],
           HeapTree(node', {}, d, used', t'),
           Searching(d)', Replacing(d)', GoingBack(d)'
    PROVE  IInv'
<1>1. Threads(d, {})'
  BY DEF Threads
<1>2. Shape(d, {})'
  BY <1>1 DEF Shape
<1>3. {} \in SUBSET Node
  OBVIOUS
<1> QED BY <1>2, <1>3, Zenon DEF IInv

\* After a NULL pointer was followed nothing is promised but the types.
LEMMA CrashKeeps == ASSUME IInv, Crash PROVE IInv'
<1>1. TypeOK'
  BY DEF IInv, TypeOK, Crash
<1> QED BY <1>1 DEF IInv, Control, Crash

LEMMA DestroyKeeps == ASSUME IInv, Destroy PROVE IInv'
<1>1. TypeOK'
  BY DEF IInv, TypeOK, Destroy
<1> QED BY <1>1 DEF IInv, Control, Destroy

\* What a tree in the heap says, link by link.
LEMMA HeapFacts ==
    ASSUME TypeOK, NEW d, NEW H \in SUBSET Node, HeapTree(node, H, d, used, t)
    PROVE  /\ t \in used \cup {NULL} /\ d[NULL] = {} /\ d[t] = used
           /\ \A m \in used : m \in d[m] /\ d[m] \subseteq used
           /\ \A m \in used : node[m].left \in used \cup {NULL}
           /\ \A m \in used \ H : node[m].right \in used \cup {NULL}
           /\ \A b, m \in used : b \in d[node[m].left] <=> b \in d[m] /\ node[b].key < node[m].key
           /\ \A b \in used, m \in used \ H :
                b \in d[node[m].right] <=> b \in d[m] /\ node[b].key > node[m].key
           /\ \A b \in used, m \in used \cap H : b \in d[m] => node[b].key <= node[m].key
           /\ \A b, m \in used : node[b].key = node[m].key => b = m
           /\ \A b, m \in used : b \in d[m] => d[b] \subseteq d[m]
<1> DEFINE l == Lefts(node)
           r == Rights(node, H)
           k == Keys(node)
<1>1. Tree(l, r, k, d, used, t)
  BY DEF HeapTree
<1>2. \A n \in used : /\ l[n] = node[n].left /\ k[n] = node[n].key /\ k[n] \in Int
                      /\ n \notin H => r[n] = node[n].right
                      /\ n \in H => r[n] = NULL
  BY HeapLinks, NodeTypes
<1> HIDE DEF l, r, k
<1>3. /\ t \in used \cup {NULL} /\ d[NULL] = {} /\ d[t] = used
      /\ \A m \in used : m \in d[m] /\ d[m] \subseteq used
      /\ \A m \in used : l[m] \in used \cup {NULL} /\ r[m] \in used \cup {NULL}
      /\ \A b, m \in used : b \in d[m] => d[b] \subseteq d[m]
  BY <1>1, TreeFacts
<1>4. /\ \A b, m \in used : b \in d[l[m]] <=> b \in d[m] /\ k[b] < k[m]
      /\ \A b, m \in used : b \in d[r[m]] <=> b \in d[m] /\ k[b] > k[m]
  BY <1>1, TreeFacts
<1>5. \A b, m \in used : k[b] = k[m] => b = m
  BY <1>1, KeysDiffer
<1>6. \A b, m \in used : node[b].key = node[m].key => b = m
  BY <1>2, <1>5
<1>7. \A b, m \in used : b \in d[node[m].left] <=> b \in d[m] /\ node[b].key < node[m].key
  BY <1>2, <1>4
<1>8. \A b \in used, m \in used \ H :
        b \in d[node[m].right] <=> b \in d[m] /\ node[b].key > node[m].key
  BY <1>2, <1>4
<1>9. \A b \in used, m \in used \cap H : b \in d[m] => node[b].key <= node[m].key
  <2> SUFFICES ASSUME NEW b \in used, NEW m \in used \cap H, b \in d[m]
               PROVE  node[b].key <= node[m].key
    OBVIOUS
  <2>1. ~(k[b] > k[m])
    BY <1>2, <1>3, <1>4
  <2> QED BY <2>1, <1>2
<1>10. /\ \A m \in used : node[m].left \in used \cup {NULL}
       /\ \A m \in used \ H : node[m].right \in used \cup {NULL}
  BY <1>2, <1>3
<1> QED BY <1>3, <1>6, <1>7, <1>8, <1>9, <1>10

-----------------------------------------------------------------------------
(* Stacks that hold the way to a node.                                     *)

\* A stack that holds the way to a node is extended by a node below it,
LEMMA WayPushed ==
    ASSUME NEW d, NEW S, NEW stack \in Seq(Pointer), Way(d, stack, S),
           NEW c \in Pointer, \A m \in S : c \in d[m] /\ c # m
    PROVE  Way(d, Append(stack, c), S \cup {c})
<1> DEFINE n == Len(stack)
           st == Append(stack, c)
<1>1. /\ n \in Nat /\ DOMAIN stack = 1..n /\ DOMAIN st = 1..(n + 1)
      /\ st[n + 1] = c /\ \A i \in 1..n : st[i] = stack[i]
  BY PushFacts
<1>2. ToSet(st) = S \cup {c}
  BY PushElements DEF Way
<1>3. \A i \in 1..n : stack[i] \in S
  BY <1>1 DEF Way, ToSet
<1>4. \A i, j \in 1..n : i < j => stack[j] \in d[stack[i]] /\ stack[j] # stack[i]
  BY <1>1 DEF Way
<1> HIDE DEF st, n
<1>5. ASSUME NEW i \in 1..(n + 1), NEW j \in 1..(n + 1), i < j
      PROVE  st[j] \in d[st[i]] /\ st[j] # st[i]
  <2>1. i \in 1..n
    BY <1>1, <1>5
  <2>2. CASE j = n + 1
    <3>1. stack[i] \in S /\ st[i] = stack[i] /\ st[j] = c
      BY <2>1, <2>2, <1>1, <1>3
    <3> QED BY <3>1
  <2>3. CASE j # n + 1
    <3>1. j \in 1..n
      BY <2>3, <1>1
    <3>2. stack[j] \in d[stack[i]] /\ stack[j] # stack[i]
      BY <3>1, <2>1, <1>4, <1>5
    <3> QED BY <3>1, <3>2, <2>1, <1>1
  <2> QED BY <2>2, <2>3
<1>6. Way(d, st, S \cup {c})
  BY <1>1, <1>2, <1>5 DEF Way
<1> QED BY <1>6 DEF st

\* and loses its last node, which is below all others.
LEMMA WayPopped ==
    ASSUME NEW d, NEW S, NEW stack \in Seq(Pointer), stack # <<>>, Way(d, stack, S)
    PROVE  /\ Last(stack) \in S
           /\ \A m \in S : m # Last(stack) => Last(stack) \in d[m]
           /\ Way(d, Front(stack), S \ {Last(stack)})
<1> DEFINE n == Len(stack)
           f == Front(stack)
           a == Last(stack)
<1>1. n \in Nat \ {0} /\ a = stack[n] /\ DOMAIN stack = 1..n /\ DOMAIN f = 1..(n - 1)
  BY PopFacts
<1>2. \A i \in 1..(n - 1) : f[i] = stack[i]
  BY PopFacts
<1>3. ToSet(stack) = S /\ ToSet(stack) = ToSet(f) \cup {a}
  BY PopElements DEF Way
<1>4. \A i, j \in 1..n : i < j => stack[j] \in d[stack[i]] /\ stack[j] # stack[i]
  BY <1>1 DEF Way
<1> HIDE DEF n, f, a
<1>5. ASSUME NEW i \in 1..(n - 1) PROVE stack[i] # a /\ a \in d[stack[i]] /\ f[i] = stack[i]
  <2>1. i \in 1..n /\ n \in 1..n /\ i < n
    BY <1>1
  <2>2. stack[n] \in d[stack[i]] /\ stack[n] # stack[i]
    BY <2>1, <1>4
  <2> QED BY <2>2, <1>1, <1>2
<1>6. \A m \in ToSet(f) : \E i \in 1..(n - 1) : m = f[i]
  BY <1>1 DEF ToSet
<1>7. a \notin ToSet(f) /\ \A m \in ToSet(f) : a \in d[m]
  BY <1>5, <1>6
<1>8. ToSet(f) = S \ {a}
  BY <1>3, <1>7
<1>9. ASSUME NEW i \in 1..(n - 1), NEW j \in 1..(n - 1), i < j
      PROVE  f[j] \in d[f[i]] /\ f[j] # f[i]
  <2>1. i \in 1..n /\ j \in 1..n
    BY <1>1
  <2>2. stack[j] \in d[stack[i]] /\ stack[j] # stack[i]
    BY <2>1, <1>4, <1>9
  <2> QED BY <2>2, <1>2
<1>10. Way(d, f, S \ {a})
  BY <1>1, <1>8, <1>9 DEF Way
<1>11. a \in S /\ \A m \in S : m # a => a \in d[m]
  BY <1>3, <1>7
<1> QED BY <1>10, <1>11 DEF f, a

\* The stack is empty exactly if there is nothing above.
LEMMA WayOfNone ==
    ASSUME NEW d, NEW stack \in Seq(Pointer)
    PROVE  /\ Way(d, <<>>, {})
           /\ \A S : Way(d, stack, S) => (stack = <<>> <=> S = {})
<1>1. Way(d, <<>>, {})
  BY DEF Way, ToSet
<1>2. ASSUME NEW S, Way(d, stack, S), stack # <<>> PROVE S # {}
  BY <1>2, WayPopped
<1>3. ASSUME NEW S, Way(d, stack, S), stack = <<>> PROVE S = {}
  BY <1>3 DEF Way, ToSet
<1> QED BY <1>1, <1>2, <1>3

\* The way stays one when what is below its nodes grows.
LEMMA WayKept ==
    ASSUME NEW d, NEW d2, NEW S, NEW stack, Way(d, stack, S),
           \A m \in S : \A b \in S : b \in d[m] => b \in d2[m]
    PROVE  Way(d2, stack, S)
<1>1. \A i \in DOMAIN stack : stack[i] \in S
  BY DEF Way, ToSet
<1> QED BY <1>1 DEF Way

\* Above the child is what is above the parent, and the parent.
LEMMA UpwardChild ==
    ASSUME NEW l, NEW r, NEW k, NEW d, NEW U, NEW root, Tree(l, r, k, d, U, root),
           NEW a \in U, NEW c \in U, c = l[a] \/ c = r[a]
    PROVE  /\ Upward(d, U, c) = Upward(d, U, a) \cup {c}
           /\ \A m \in Upward(d, U, a) : c \in d[m] /\ c # m
<1>1. /\ \A m \in U : m \in d[m]
      /\ \A b, m \in U : b \in d[m] => d[b] \subseteq d[m]
  BY TreeFacts
<1>2. /\ c \in d[a] /\ c # a
      /\ \A m \in U : c \in d[m] /\ m # c => a \in d[m]
  BY AboveChild
<1>3. ASSUME NEW m \in U, a \in d[m] PROVE c \in d[m] /\ c # m
  <2>1. c \in d[m]
    BY <1>1, <1>2, <1>3
  <2>2. c # m
    BY <1>2, <1>3, BelowAntisymmetric
  <2> QED BY <2>1, <2>2
<1> QED BY <1>1, <1>2, <1>3 DEF Upward

\* Above the root there is nothing but the root.
LEMMA UpwardRoot ==
    ASSUME NEW l, NEW r, NEW k, NEW d, NEW U, NEW root, Tree(l, r, k, d, U, root),
           NEW c \in U
    PROVE  Upward(d, U, c) = {c} <=> c = root
<1>1. /\ \A m \in U : m \in d[m]
      /\ root \in U /\ d[root] = U
  BY TreeFacts
<1>2. c = root => \A m \in U : c \in d[m] => m = c
  BY <1>1, BelowAntisymmetric
<1>3. c # root => root \in Upward(d, U, c)
  BY <1>1 DEF Upward
<1> QED BY <1>1, <1>2, <1>3 DEF Upward

\* The lowest node strictly above another one is its parent.
LEMMA LastAbove ==
    ASSUME NEW l, NEW r, NEW k, NEW d, NEW U, NEW root, Tree(l, r, k, d, U, root),
           NEW c \in U, NEW stack \in Seq(Pointer), stack # <<>>,
           Way(d, stack, Upward(d, U, c) \ {c})
    PROVE  /\ Last(stack) \in U /\ Last(stack) # c /\ c # root
           /\ c = l[Last(stack)] \/ c = r[Last(stack)]
           /\ Upward(d, U, c) \ {c} = Upward(d, U, Last(stack))
           /\ Way(d, Front(stack), Upward(d, U, Last(stack)) \ {Last(stack)})
<1> DEFINE a == Last(stack)
           S == Upward(d, U, c) \ {c}
<1>1. Way(d, stack, S)
  OBVIOUS
<1>2. /\ a \in S /\ \A m \in S : m # a => a \in d[m]
      /\ Way(d, Front(stack), S \ {a})
  <2> HIDE DEF S
  <2> QED BY <1>1, WayPopped
<1> HIDE DEF a
<1>3. a \in U /\ a # c /\ c \in d[a]
  BY <1>2 DEF Upward
<1>4. \A m \in U : c \in d[m] /\ m # c /\ m \in d[a] => m = a
  <2> SUFFICES ASSUME NEW m \in U, c \in d[m], m # c, m \in d[a], m # a PROVE FALSE
    OBVIOUS
  <2>1. a \in d[m]
    BY <1>2 DEF Upward
  <2> QED BY <2>1, <1>3, BelowAntisymmetric
<1>5. c = l[a] \/ c = r[a]
  BY <1>3, <1>4, NearestAbove
<1>6. Upward(d, U, c) = Upward(d, U, a) \cup {c} /\ c \notin Upward(d, U, a)
  BY <1>3, <1>5, UpwardChild
<1>7. S = Upward(d, U, a)
  BY <1>6
<1>8. c # root
  BY <1>3, <1>5, OneParent
<1> QED BY <1>2, <1>3, <1>5, <1>7, <1>8 DEF a

\* The top of a stack is what was pushed last.
LEMMA PushLast ==
    ASSUME NEW S, NEW stack \in Seq(S), NEW c \in S
    PROVE  Append(stack, c) # <<>> /\ Last(Append(stack, c)) = c
<1>1. Append(stack, c) \in Seq(S) /\ DOMAIN Append(stack, c) = 1..(Len(stack) + 1)
      /\ Len(stack) \in Nat /\ Append(stack, c)[Len(stack) + 1] = c
  BY PushFacts
<1>2. Append(stack, c) # <<>> /\ Len(Append(stack, c)) = Len(stack) + 1
  BY <1>1
<1> QED BY <1>1, <1>2 DEF Last

-----------------------------------------------------------------------------
(* Calls that begin and calls that end.                                    *)

\* A call begins at the root, with an empty stack.
LEMMA StartKeeps ==
    ASSUME IInv, NEW k \in Key, Insert(k) \/ Search(k) \/ Delete(k)
    PROVE  IInv'
<1>1. /\ pc = "idle" /\ pc' = "down" /\ op' \in Calls
      /\ arg' = k /\ p' = t
      /\ UNCHANGED <<node, used, t, q, s, s2, out, answer>>
  BY DEF Insert, Search, Delete, Start, Calls
<1>2. TypeOK /\ Control /\ s = <<>>
  BY <1>1 DEF IInv, Control
<1>3. TypeOK'
  BY <1>1, <1>2 DEF TypeOK, Calls
<1>4. Control'
  BY <1>1, <1>2 DEF Control
<1>5. PICK d \in [Pointer -> SUBSET Node] : Shape(d, {})
  BY <1>1, ShapeOf DEF Threaded
<1>6. HeapTree(node, {}, d, used, t)
  BY <1>5 DEF Shape
<1>7. t \in used \cup {NULL} /\ d[t] = used
  BY <1>2, <1>6, HeapFacts
<1>8. Searching(d)'
  BY <1>1, <1>2, <1>7 DEF Searching
<1>9. Replacing(d)' /\ GoingBack(d)' /\ ~Threaded'
  BY <1>1 DEF Replacing, GoingBack, Threaded
<1>10. HeapTree(node', {}, d, used', t')
  BY <1>1, <1>6
<1> QED BY <1>3, <1>4, <1>8, <1>9, <1>10, ShapeGives

\* A call that returns leaves nothing behind but the tree.
LEMMA ReturnKeeps ==
    ASSUME IInv, \/ SearchDone \/ InsertIntoNothing \/ InsertCollides
                 \/ DeleteMissing \/ TraversalDone
    PROVE  IInv'
<1>1. /\ Done /\ UNCHANGED <<node, used, t>>
      /\ pc = "down" \/ (pc = "visit" /\ p = NULL)
  <2>1. SearchDone => pc = "down" /\ Done /\ UNCHANGED <<node, used, t>>
    BY DEF SearchDone, Arrived
  <2>2. InsertCollides => pc = "down" /\ Done /\ UNCHANGED <<node, used, t>>
    BY DEF InsertCollides, Arrived
  <2>3. DeleteMissing => pc = "down" /\ Done /\ UNCHANGED <<node, used, t>>
    BY DEF DeleteMissing, Arrived
  <2>4. InsertIntoNothing => pc = "down" /\ Done /\ UNCHANGED <<node, used, t>>
    BY DEF InsertIntoNothing, Arrived
  <2>5. TraversalDone => pc = "visit" /\ p = NULL /\ Done /\ UNCHANGED <<node, used, t>>
    BY DEF TraversalDone, TraversalOver
  <2> QED BY <2>1, <2>2, <2>3, <2>4, <2>5, Zenon
<1>2. answer' \in BOOLEAN
  <2>1. answer \in BOOLEAN
    BY DEF IInv, TypeOK
  <2> QED BY <2>1 DEF SearchDone, InsertIntoNothing, InsertCollides, DeleteMissing,
                      TraversalDone
<1> QED BY <1>1, <1>2, DoneStill

-----------------------------------------------------------------------------
(* The way down.                                                           *)

\* When insert or delete are at a node, the stack is the way to it.
LEMMA WayToPlace ==
    ASSUME TypeOK, NEW d, HeapTree(node, {}, d, used, t), Searching(d),
           pc = "down", op # "search", p # NULL
    PROVE  /\ p \in used
           /\ Way(d, s, Upward(d, used, p) \ {p})
           /\ s # <<>> => /\ Last(s) \in used /\ p \in d[Last(s)] /\ p # Last(s)
                          /\ \A m \in used : p \in d[m] /\ m # p => Last(s) \in d[m]
<1>1. p \in used /\ s \in Seq(Pointer)
  BY DEF Searching, TypeOK
<1>2. Tree(Lefts(node), Rights(node, {}), Keys(node), d, used, t)
  BY DEF HeapTree
<1>3. CASE s = <<>>
  <2>1. p = t
    BY <1>3 DEF Searching
  <2>2. Upward(d, used, p) = {p}
    BY <1>1, <1>2, <2>1, UpwardRoot
  <2>3. Upward(d, used, p) \ {p} = {}
    BY <2>2
  <2>4. Way(d, s, {})
    BY <1>1, <1>3, WayOfNone
  <2> QED BY <1>1, <1>3, <2>3, <2>4
<1>4. CASE s # <<>>
  <2> DEFINE a == Last(s)
  <2>1. /\ a \in used /\ Way(d, s, Upward(d, used, a))
        /\ p = IF arg > node[a].key THEN node[a].right ELSE node[a].left
    BY <1>4 DEF Searching
  <2> HIDE DEF a
  <2>2. p = Lefts(node)[a] \/ p = Rights(node, {})[a]
    BY <2>1, HeapLinks, NodeTypes
  <2>3. /\ Upward(d, used, p) = Upward(d, used, a) \cup {p}
        /\ \A m \in Upward(d, used, a) : p # m
    BY <1>1, <1>2, <2>1, <2>2, UpwardChild
  <2>4. Upward(d, used, p) \ {p} = Upward(d, used, a)
    BY <2>3
  <2>5. p \in d[a] /\ p # a /\ \A m \in used : p \in d[m] /\ m # p => a \in d[m]
    BY <1>1, <1>2, <2>1, <2>2, AboveChild
  <2> QED BY <1>1, <2>1, <2>4, <2>5 DEF a
<1> QED BY <1>3, <1>4

\* One turn of the search: the key, if it is anywhere, is on the side taken.
LEMMA DownKeeps == ASSUME IInv, Down PROVE IInv'
<1>1. /\ pc = "down" /\ p # NULL /\ node[p].key # arg
      /\ p' = IF arg > node[p].key THEN node[p].right ELSE node[p].left
      /\ s' = IF op = "search" THEN s ELSE Append(s, p)
      /\ UNCHANGED <<node, used, t, pc, op, arg, q, s2, out, answer>>
  BY DEF Down
<1>2. TypeOK /\ Control /\ s \in Seq(Pointer) /\ p \in Pointer /\ arg \in Int /\ arg \in Key
  BY <1>1, KeyAssumption DEF IInv, TypeOK, Control
<1>3. PICK d \in [Pointer -> SUBSET Node] : Shape(d, {})
  BY <1>1, ShapeOf DEF Threaded
<1>4. HeapTree(node, {}, d, used, t) /\ Searching(d)
  BY <1>3 DEF Shape
<1>5. p \in used /\ \A m \in used : node[m].key = arg => m \in d[p]
  BY <1>1, <1>4 DEF Searching
<1>6. /\ used \subseteq Node /\ \A m \in used : node[m].key \in Int
      /\ node[p].left \in Pointer /\ node[p].right \in Pointer
  BY <1>2, <1>5, NodeTypes
<1>7. /\ node[p].left \in used \cup {NULL} /\ node[p].right \in used \cup {NULL}
      /\ \A b, m \in used : b \in d[node[m].left] <=> b \in d[m] /\ node[b].key < node[m].key
      /\ \A b, m \in used : b \in d[node[m].right] <=> b \in d[m] /\ node[b].key > node[m].key
  BY <1>2, <1>4, <1>5, HeapFacts
<1>8. s' \in Seq(Pointer)
  BY <1>1, <1>2, PushFacts
<1>9. TypeOK'
  BY <1>1, <1>2, <1>6, <1>8 DEF TypeOK
<1>10. Control'
  BY <1>1, <1>2 DEF Control
<1>11. p' \in used \cup {NULL}
  BY <1>1, <1>7
<1>12. \A m \in used : node[m].key = arg => m \in d[p']
  BY <1>1, <1>2, <1>5, <1>6, <1>7
<1>13. ASSUME op # "search"
       PROVE  /\ Way(d, Append(s, p), Upward(d, used, p))
              /\ Fits(Keys(node), d, used, p, arg)
  <2>1. /\ Way(d, s, Upward(d, used, p) \ {p})
        /\ s # <<>> => /\ Last(s) \in used /\ p \in d[Last(s)] /\ p # Last(s)
                       /\ \A m \in used : p \in d[m] /\ m # p => Last(s) \in d[m]
    BY <1>1, <1>2, <1>4, <1>13, WayToPlace
  <2>2. p \in Upward(d, used, p)
    BY <1>2, <1>4, <1>5, HeapFacts DEF Upward
  <2>3. Way(d, Append(s, p), (Upward(d, used, p) \ {p}) \cup {p})
    <3>1. \A m \in Upward(d, used, p) \ {p} : p \in d[m] /\ p # m
      BY DEF Upward
    <3> QED BY <1>2, <2>1, <3>1, WayPushed
  <2>4. (Upward(d, used, p) \ {p}) \cup {p} = Upward(d, used, p)
    BY <2>2
  <2>5. ASSUME NEW m \in used, p \in d[m]
        PROVE  arg # node[m].key /\ (m # p => (arg < node[m].key <=> node[p].key < node[m].key))
    <3>1. CASE m = p
      BY <3>1, <1>1
    <3>2. CASE m # p
      <4>1. s # <<>>
        <5> SUFFICES ASSUME s = <<>> PROVE FALSE
          OBVIOUS
        <5>1. Upward(d, used, p) \ {p} = {}
          BY <1>2, <2>1, WayOfNone
        <5> QED BY <5>1, <3>2, <2>5 DEF Upward
      <4> DEFINE a == Last(s)
      <4>2. /\ a \in used /\ p \in d[a] /\ p # a /\ a \in d[m]
            /\ Fits(Keys(node), d, used, a, arg)
            /\ p = IF arg > node[a].key THEN node[a].right ELSE node[a].left
        BY <4>1, <1>1, <1>4, <1>13, <2>1, <2>5, <3>2 DEF Searching
      <4> HIDE DEF a
      <4>3. \A x \in used : Keys(node)[x] = node[x].key
        BY <1>2, NodeTypes, HeapLinks
      <4>4. arg # node[m].key /\ (m # a => (arg < node[m].key <=> node[a].key < node[m].key))
        BY <4>2, <4>3 DEF Fits
      <4>5. CASE m = a
        <5>1. p \in d[p]
          BY <1>2, <1>4, <1>5, HeapFacts
        <5>2. arg > node[a].key => node[p].key > node[a].key
          BY <5>1, <4>2, <1>5, <1>7
        <5>3. ~(arg > node[a].key) => node[p].key < node[a].key
          BY <5>1, <4>2, <1>5, <1>7
        <5> QED BY <5>2, <5>3, <4>2, <4>4, <4>5, <1>2, <1>5, <1>6
      <4>6. CASE m # a
        <5>1. node[p].key < node[m].key <=> node[a].key < node[m].key
          BY <4>2, <4>3, <4>6, <1>4, <1>5, <1>6, SameSide DEF HeapTree
        <5> QED BY <5>1, <4>4, <4>6
      <4> QED BY <4>5, <4>6
    <3> QED BY <3>1, <3>2
  <2>6. Fits(Keys(node), d, used, p, arg)
    <3>1. \A x \in used : Keys(node)[x] = node[x].key
      BY <1>2, NodeTypes, HeapLinks
    <3> QED BY <2>5, <3>1, <1>5 DEF Fits
  <2> QED BY <2>3, <2>4, <2>6
<1>14. Searching(d)'
  <2>1. CASE op = "search"
    BY <2>1, <1>1, <1>11, <1>12 DEF Searching
  <2>2. CASE op # "search"
    <3>1. s' = Append(s, p) /\ s' # <<>> /\ Last(s') = p
      <4>1. s' = Append(s, p)
        BY <2>2, <1>1
      <4> QED BY <4>1, <1>2, PushLast
    <3>2. Way(d, s', Upward(d, used', p)) /\ Fits(Keys(node'), d, used', p, arg')
      BY <2>2, <3>1, <1>1, <1>13
    <3> QED BY <2>2, <3>1, <3>2, <1>1, <1>5, <1>11, <1>12 DEF Searching
  <2> QED BY <2>1, <2>2
<1>15. Replacing(d)' /\ GoingBack(d)' /\ ~Threaded'
  BY <1>1 DEF Replacing, GoingBack, Threaded
<1>16. HeapTree(node', {}, d, used', t')
  BY <1>1, <1>4
<1> QED BY <1>9, <1>10, <1>14, <1>15, <1>16, ShapeGives

-----------------------------------------------------------------------------
(* bst_delete() looks for the node to take out.                            *)

\* A child is below its parent, and above it is what is above the parent.
LEMMA HeapChild ==
    ASSUME TypeOK, NEW d, HeapTree(node, {}, d, used, t), NEW a \in used, NEW c \in used,
           c = node[a].left \/ c = node[a].right
    PROVE  /\ Upward(d, used, c) \ {c} = Upward(d, used, a)
           /\ c \in d[a] /\ c # a
<1>1. Tree(Lefts(node), Rights(node, {}), Keys(node), d, used, t)
  BY DEF HeapTree
<1>2. c = Lefts(node)[a] \/ c = Rights(node, {})[a]
  BY HeapLinks, NodeTypes
<1>3. /\ Upward(d, used, c) = Upward(d, used, a) \cup {c}
      /\ \A m \in Upward(d, used, a) : c \in d[m] /\ c # m
  BY <1>1, <1>2, UpwardChild
<1>4. c \in d[a] /\ c # a
  BY <1>1, <1>2, AboveChild
<1> QED BY <1>3, <1>4

\* The way to a node and the node.
LEMMA WayThrough ==
    ASSUME TypeOK, NEW d, HeapTree(node, {}, d, used, t), NEW a \in used,
           Way(d, s, Upward(d, used, a) \ {a})
    PROVE  Way(d, Append(s, a), Upward(d, used, a)) /\ Append(s, a) \in Seq(Pointer)
<1>1. s \in Seq(Pointer) /\ a \in Pointer
  BY NodeTypes DEF TypeOK
<1>2. \A m \in Upward(d, used, a) \ {a} : a \in d[m] /\ a # m
  BY DEF Upward
<1>3. a \in Upward(d, used, a)
  BY HeapFacts DEF Upward
<1>4. (Upward(d, used, a) \ {a}) \cup {a} = Upward(d, used, a)
  BY <1>3
<1>5. Way(d, Append(s, a), (Upward(d, used, a) \ {a}) \cup {a})
  BY <1>1, <1>2, WayPushed
<1> QED BY <1>1, <1>4, <1>5, PushFacts

\* The search of bst_delete() becomes the search for a node to take out.
LEMMA DeleteFoundKeeps == ASSUME IInv, DeleteFound PROVE IInv'
<1>1. /\ pc = "down" /\ op = "delete" /\ p # NULL /\ node[p].key = arg
      /\ \/ node[p].left = NULL /\ q' = p /\ s' = s /\ pc' = "unlink"
         \/ node[p].left # NULL /\ q' = node[p].left /\ s' = Append(s, p) /\ pc' = "pred"
      /\ UNCHANGED <<node, used, t, op, arg, p, s2, out, answer>>
  BY DEF DeleteFound, Arrived
<1>2. TypeOK /\ Control
  BY DEF IInv
<1>3. PICK d \in [Pointer -> SUBSET Node] : Shape(d, {})
  BY <1>1, ShapeOf DEF Threaded
<1>4. HeapTree(node, {}, d, used, t) /\ Searching(d)
  BY <1>3 DEF Shape
<1>5. p \in used /\ Way(d, s, Upward(d, used, p) \ {p})
  BY <1>1, <1>2, <1>4, WayToPlace
<1>6. Way(d, Append(s, p), Upward(d, used, p)) /\ Append(s, p) \in Seq(Pointer)
  BY <1>2, <1>4, <1>5, WayThrough
<1>7. /\ node[p].left \in Pointer /\ s \in Seq(Pointer) /\ p \in Pointer
  BY <1>2, <1>5, NodeTypes DEF TypeOK
<1>8. TypeOK'
  <2>1. s' \in Seq(Pointer) /\ q' \in Pointer /\ pc' \in {"unlink", "pred"}
    BY <1>1, <1>6, <1>7
  <2> QED BY <1>1, <1>2, <2>1 DEF TypeOK
<1>9. Control'
  BY <1>1, <1>2 DEF Control
<1>10. Replacing(d)'
  <2>1. CASE node[p].left = NULL
    BY <2>1, <1>1, <1>5 DEF Replacing
  <2>2. CASE node[p].left # NULL
    <3> DEFINE y == node[p].left
    <3>1. y \in used /\ \A m \in used : m \in d[m]
      BY <2>2, <1>2, <1>4, <1>5, HeapFacts
    <3>2. Upward(d, used, y) \ {y} = Upward(d, used, p)
      BY <1>2, <1>4, <1>5, <3>1, HeapChild
    <3>3. Way(d, s', Upward(d, used', q') \ {q'})
      BY <2>2, <3>2, <1>1, <1>6
    <3>4. Rightmost(d, p, y)
      BY <3>1 DEF Rightmost
    <3>5. Rightmost(d, p, q)'
      BY <2>2, <3>4, <1>1 DEF Rightmost
    <3> QED BY <2>2, <3>1, <3>3, <3>5, <1>1, <1>5 DEF Replacing
  <2> QED BY <2>1, <2>2
<1>11. Searching(d)' /\ GoingBack(d)' /\ ~Threaded'
  BY <1>1 DEF Searching, GoingBack, Threaded
<1>12. HeapTree(node', {}, d, used', t')
  BY <1>1, <1>4
<1> QED BY <1>8, <1>9, <1>10, <1>11, <1>12, ShapeGives

\* One step to the right below the left child of x.
LEMMA RightmostStep ==
    ASSUME TypeOK, NEW H \in SUBSET Node, NEW d, HeapTree(node, H, d, used, t),
           NEW x \in used, NEW y \in used \ H, Rightmost(d, x, y), node[y].right # NULL
    PROVE  node[y].right \in used /\ Rightmost(d, x, node[y].right)
<1> DEFINE z == node[y].right
           c == node[x].left
<1>1. /\ \A m \in used : m \in d[m] /\ d[m] \subseteq used
      /\ d[NULL] = {} /\ c \in used \cup {NULL} /\ z \in used
      /\ \A b \in used : b \in d[z] <=> b \in d[y] /\ node[b].key > node[y].key
      /\ \A b, m \in used : node[b].key = node[m].key => b = m
      /\ \A b, m \in used : b \in d[m] => d[b] \subseteq d[m]
  BY HeapFacts
<1>2. \A m \in used : node[m].key \in Int
  BY NodeTypes
<1>3. /\ y \in d[c]
      /\ \A m \in d[c] : m \in d[y] \/ node[m].key < node[y].key
  BY DEF Rightmost
<1>4. c \in used /\ z \in d[y] /\ node[z].key > node[y].key
  BY <1>1, <1>3
<1>5. z \in d[c]
  BY <1>1, <1>3, <1>4
<1>6. ASSUME NEW m \in d[c] PROVE m \in d[z] \/ node[m].key < node[z].key
  <2>1. m \in used
    BY <1>1, <1>4
  <2>2. CASE node[m].key > node[y].key
    BY <2>1, <2>2, <1>1, <1>2, <1>3
  <2>3. CASE ~(node[m].key > node[y].key)
    BY <2>1, <2>3, <1>1, <1>2, <1>4
  <2> QED BY <2>2, <2>3
<1> QED BY <1>1, <1>5, <1>6 DEF Rightmost

\* One turn to the right, on the way to the largest key on the left.
LEMMA PredecessorKeeps == ASSUME IInv, Predecessor PROVE IInv'
<1>1. /\ pc = "pred"
      /\ \/ node[q].right = NULL /\ pc' = "unlink" /\ q' = q /\ s' = s
         \/ node[q].right # NULL /\ s' = Append(s, q) /\ q' = node[q].right /\ pc' = pc
      /\ UNCHANGED <<node, used, t, op, arg, p, s2, out, answer>>
  BY DEF Predecessor
<1>2. TypeOK /\ Control
  BY DEF IInv
<1>3. PICK d \in [Pointer -> SUBSET Node] : Shape(d, {})
  BY <1>1, ShapeOf DEF Threaded
<1>4. HeapTree(node, {}, d, used, t) /\ Replacing(d)
  BY <1>3 DEF Shape
<1>5. /\ p \in used /\ node[p].key = arg /\ q \in used
      /\ Way(d, s, Upward(d, used, q) \ {q})
      /\ node[p].left # NULL /\ Rightmost(d, p, q)
  BY <1>1, <1>4 DEF Replacing
<1>6. Way(d, Append(s, q), Upward(d, used, q)) /\ Append(s, q) \in Seq(Pointer)
  BY <1>2, <1>4, <1>5, WayThrough
<1>7. node[q].right \in Pointer /\ s \in Seq(Pointer) /\ q \in Pointer
  BY <1>2, <1>5, NodeTypes DEF TypeOK
<1>8. TypeOK'
  <2>1. s' \in Seq(Pointer) /\ q' \in Pointer /\ pc' \in {"unlink", "pred"}
    BY <1>1, <1>6, <1>7
  <2> QED BY <1>1, <1>2, <2>1 DEF TypeOK
<1>9. Control'
  BY <1>1, <1>2 DEF Control
<1>10. Replacing(d)'
  <2>1. CASE node[q].right = NULL
    <3>1. Rightmost(d, p, q)'
      BY <2>1, <1>1, <1>5 DEF Rightmost
    <3> QED BY <2>1, <3>1, <1>1, <1>5 DEF Replacing
  <2>2. CASE node[q].right # NULL
    <3> DEFINE z == node[q].right
    <3>1. z \in used /\ Rightmost(d, p, z)
      BY <2>2, <1>2, <1>4, <1>5, RightmostStep
    <3>2. Upward(d, used, z) \ {z} = Upward(d, used, q)
      BY <1>2, <1>4, <1>5, <3>1, HeapChild
    <3>3. Way(d, s', Upward(d, used', q') \ {q'})
      BY <2>2, <3>2, <1>1, <1>6
    <3>4. Rightmost(d, p, q)'
      BY <2>2, <3>1, <1>1 DEF Rightmost
    <3> QED BY <2>2, <3>1, <3>3, <3>4, <1>1, <1>5 DEF Replacing
  <2> QED BY <2>1, <2>2
<1>11. Searching(d)' /\ GoingBack(d)' /\ ~Threaded'
  BY <1>1, <1>2 DEF Searching, GoingBack, Threaded, Control
<1>12. HeapTree(node', {}, d, used', t')
  BY <1>1, <1>4
<1> QED BY <1>8, <1>9, <1>10, <1>11, <1>12, ShapeGives

-----------------------------------------------------------------------------
(* bst_insert() hangs the new node.                                        *)

\* The mirror image of a mirror image.
LEMMA MirrorTwice ==
    ASSUME NEW k \in [Node -> Int], NEW n \in Node, NEW x \in Int
    PROVE  Mirror([Mirror(k) EXCEPT ![n] = -x]) = [k EXCEPT ![n] = x]
<1> DEFINE j == [Mirror(k) EXCEPT ![n] = -x]
           f == Mirror(j)
           g == [k EXCEPT ![n] = x]
<1>1. \A m \in Node : j[m] = IF m = n THEN -x ELSE -k[m]
  BY DEF Mirror
<1>2. f \in [Node -> Int] /\ \A m \in Node : f[m] = -j[m]
  <2>1. \A m \in Node : -j[m] \in Int
    BY <1>1
  <2> HIDE DEF j
  <2> QED BY <2>1 DEF Mirror
<1>3. g \in [Node -> Int] /\ \A m \in Node : g[m] = IF m = n THEN x ELSE k[m]
  OBVIOUS
<1> HIDE DEF f, g, j
<1>4. ASSUME NEW m \in Node PROVE f[m] = g[m]
  <2>1. k[m] \in Int
    OBVIOUS
  <2> QED BY <2>1, <1>1, <1>2, <1>3
<1>5. f = g
  BY <1>2, <1>3, <1>4
<1> QED BY <1>5 DEF f, g, j

LEMMA MirrorTreeBack ==
    ASSUME NEW l, NEW r, NEW k \in [Node -> Int], NEW d, NEW U, NEW root,
           Tree(r, l, Mirror(k), d, U, root)
    PROVE  Tree(l, r, k, d, U, root)
<1>1. Tree(l, r, Mirror(Mirror(k)), d, U, root)
  BY MirrorTree
<1>2. Mirror(Mirror(k)) = k
  <2>1. \A m \in Node : -(-k[m]) = k[m] /\ Mirror(k)[m] = -k[m]
    BY DEF Mirror
  <2>2. Mirror(Mirror(k)) = [m \in Node |-> k[m]]
    BY <2>1 DEF Mirror
  <2> QED BY <2>2
<1> QED BY <1>1, <1>2

\* The mirror image of LeafOnTheLeft.
LEMMA LeafOnTheRight ==
    ASSUME NEW l, NEW r, NEW k, NEW d, NEW U, NEW root, Tree(l, r, k, d, U, root),
           NEW a \in U, r[a] = NULL, NEW n \in Node \ U, NEW x \in Int,
           x > k[a], Fits(k, d, U, a, x)
    PROVE  Tree([l EXCEPT ![n] = NULL], [[r EXCEPT ![n] = NULL] EXCEPT ![a] = n],
                [k EXCEPT ![n] = x], Grown(d, U, a, n), U \cup {n}, root)
<1> DEFINE j == Mirror(k)
           l2 == [l EXCEPT ![n] = NULL]
           r2 == [[r EXCEPT ![n] = NULL] EXCEPT ![a] = n]
<1>1. k \in [Node -> Int] /\ U \subseteq Node
  BY DEF Tree
<1>2. \A m \in U : j[m] = -k[m] /\ k[m] \in Int
  BY <1>1 DEF Mirror
<1>3. Tree(r, l, j, d, U, root)
  BY MirrorTree
<1>4. -x \in Int /\ -x < j[a]
  BY <1>2
<1>5. Fits(j, d, U, a, -x)
  <2> SUFFICES ASSUME NEW m \in U, a \in d[m]
               PROVE  -x # j[m] /\ (m # a => (-x < j[m] <=> j[a] < j[m]))
    BY DEF Fits
  <2>1. x # k[m] /\ (m # a => (x < k[m] <=> k[a] < k[m]))
    BY DEF Fits
  <2>2. m # a => k[a] # k[m]
    BY KeysDiffer
  <2> QED BY <2>1, <2>2, <1>2
<1> HIDE DEF j
<1>6. Tree(r2, l2, [j EXCEPT ![n] = -x], Grown(d, U, a, n), U \cup {n}, root)
  BY <1>3, <1>4, <1>5, LeafOnTheLeft DEF l2, r2
<1> HIDE DEF l2, r2
<1>7. Tree(l2, r2, Mirror([j EXCEPT ![n] = -x]), Grown(d, U, a, n), U \cup {n}, root)
  BY <1>6, MirrorTree
<1>8. Mirror([j EXCEPT ![n] = -x]) = [k EXCEPT ![n] = x]
  BY <1>1, MirrorTwice DEF j
<1>9. Tree(l2, r2, [k EXCEPT ![n] = x], Grown(d, U, a, n), U \cup {n}, root)
  BY <1>7, <1>8
<1> QED BY <1>9 DEF l2, r2

\* The way to a is what it was.
LEMMA GrownUpward ==
    ASSUME NEW l, NEW r, NEW k, NEW d, NEW U, NEW root, Tree(l, r, k, d, U, root),
           NEW a \in U, NEW n \in Node \ U
    PROVE  /\ Upward(Grown(d, U, a, n), U \cup {n}, a) = Upward(d, U, a)
           /\ \A m \in U : \A b \in d[m] : b \in Grown(d, U, a, n)[m]
           /\ Grown(d, U, a, n) \in [Pointer -> SUBSET Node]
<1> DEFINE e == Grown(d, U, a, n)
<1>1. U \subseteq Node /\ U \subseteq Pointer /\ n \in Pointer /\ d \in [Pointer -> SUBSET Node]
  BY DEF Tree, Pointer
<1>2. e[n] = {n} /\ \A m \in U : e[m] = IF a \in d[m] THEN d[m] \cup {n} ELSE d[m]
  BY <1>1 DEF Grown
<1>3. e \in [Pointer -> SUBSET Node]
  BY <1>1 DEF Grown
<1> HIDE DEF e
<1>4. Upward(e, U \cup {n}, a) = Upward(d, U, a)
  BY <1>2 DEF Upward
<1>5. \A m \in U : \A b \in d[m] : b \in e[m]
  BY <1>2
<1> QED BY <1>3, <1>4, <1>5 DEF e

\* The new node is hung below the last node of the stack.
LEMMA InsertNodeKeeps == ASSUME IInv, InsertNode PROVE IInv'
<1> DEFINE above == Last(s)
<1>1. /\ pc = "down" /\ op = "insert" /\ p = NULL /\ t # NULL
      /\ s' = Front(s) /\ pc' = "update" /\ answer' = TRUE
      /\ UNCHANGED <<t, op, arg, s2, out>>
  BY DEF InsertNode, Arrived
<1>2. PICK n \in Node \ used :
        /\ used' = used \cup {n} /\ p' = above /\ q' = n
        /\ node' = IF arg < node[above].key
                   THEN [[node EXCEPT ![n] = Fresh(arg)] EXCEPT ![above].left = n]
                   ELSE [[node EXCEPT ![n] = Fresh(arg)] EXCEPT ![above].right = n]
  BY DEF InsertNode
<1>3. TypeOK /\ Control /\ s \in Seq(Pointer) /\ arg \in Key /\ arg \in Int
  BY <1>1, KeyAssumption DEF IInv, TypeOK, Control
<1>4. PICK d \in [Pointer -> SUBSET Node] : Shape(d, {})
  BY <1>1, ShapeOf DEF Threaded
<1>5. HeapTree(node, {}, d, used, t) /\ Searching(d)
  BY <1>4 DEF Shape
<1>6. s # <<>>
  BY <1>1, <1>5 DEF Searching
<1>7. /\ above \in used /\ Way(d, s, Upward(d, used, above))
      /\ Fits(Keys(node), d, used, above, arg)
      /\ p = IF arg > node[above].key THEN node[above].right ELSE node[above].left
  BY <1>1, <1>5, <1>6 DEF Searching
<1> HIDE DEF above
<1>8. /\ used \subseteq Node /\ above \in Node /\ above # n /\ NULL \in Pointer /\ n \in Pointer
      /\ node[above].key \in Int /\ above \in Pointer
      /\ \A m \in Node : node[m].left \in Pointer /\ node[m].right \in Pointer /\ node[m].key \in Key
                         /\ node[m].bf \in -1..1
      /\ node \in [Node -> [key : Key, bf : -1..1, left : Pointer, right : Pointer]]
  BY <1>2, <1>3, <1>7, NodeTypes DEF TypeOK
<1>9. arg # node[above].key
  <2>1. above \in d[above] /\ Keys(node)[above] = node[above].key
    BY <1>3, <1>5, <1>7, <1>8, HeapFacts, HeapLinks
  <2> QED BY <2>1, <1>7 DEF Fits
\* The new heap, link by link.
<1>10. /\ node' \in [Node -> [key : Key, bf : -1..1, left : Pointer, right : Pointer]]
       /\ node'[n].key = arg /\ \A m \in Node \ {n} : node'[m].key = node[m].key
       /\ node'[n].left = NULL /\ node'[n].right = NULL
       /\ \A m \in Node \ {n, above} : node'[m] = node[m]
       /\ arg < node[above].key => node'[above].left = n /\ node'[above].right = node[above].right
       /\ ~(arg < node[above].key) => node'[above].right = n /\ node'[above].left = node[above].left
  <2>1. Fresh(arg) \in [key : Key, bf : -1..1, left : Pointer, right : Pointer]
    BY <1>3, <1>8 DEF Fresh
  <2> DEFINE hung == [node EXCEPT ![n] = Fresh(arg)]
  <2>2. /\ hung \in [Node -> [key : Key, bf : -1..1, left : Pointer, right : Pointer]]
        /\ hung[n] = Fresh(arg) /\ \A m \in Node \ {n} : hung[m] = node[m]
    BY <2>1, <1>8
  <2>3. node' = IF arg < node[above].key
                THEN [hung EXCEPT ![above].left = n] ELSE [hung EXCEPT ![above].right = n]
    BY <1>2
  <2> HIDE DEF hung
  <2>4. CASE arg < node[above].key
    BY <2>2, <2>3, <2>4, <1>8 DEF Fresh
  <2>5. CASE ~(arg < node[above].key)
    BY <2>2, <2>3, <2>5, <1>8 DEF Fresh
  <2> QED BY <2>4, <2>5
<1> DEFINE l == Lefts(node)
           r == Rights(node, {})
           k == Keys(node)
           l2 == Lefts(node')
           r2 == Rights(node', {})
           k2 == Keys(node')
<1>11. PICK d2 : d2 = Grown(d, used, above, n)
  OBVIOUS
<1>12. /\ \A m \in Node : l[m] = node[m].left /\ r[m] = node[m].right /\ k[m] = node[m].key
       /\ l \in [Node -> Pointer] /\ r \in [Node -> Pointer] /\ k \in [Node -> Int]
  <2>1. \A m \in Node : l[m] = node[m].left /\ r[m] = node[m].right /\ k[m] = node[m].key
    BY DEF Lefts, Rights, Keys
  <2>2. l \in [Node -> Pointer] /\ r \in [Node -> Pointer] /\ k \in [Node -> Int]
    <3> HIDE DEF l, r, k
    <3>1. /\ Lefts(node) \in [Node -> Pointer] /\ Rights(node, {}) \in [Node -> Pointer]
          /\ Keys(node) \in [Node -> Int]
      BY <1>3, HeapLinks
    <3> QED BY <3>1 DEF l, r, k
  <2> QED BY <2>1, <2>2
<1>13. /\ \A m \in Node : l2[m] = node'[m].left /\ r2[m] = node'[m].right /\ k2[m] = node'[m].key
  BY DEF Lefts, Rights, Keys
<1>14. /\ l2 \in [Node -> Pointer] /\ r2 \in [Node -> Pointer] /\ k2 \in [Node -> Int]
  BY <1>10, KeyAssumption DEF Lefts, Rights, Keys
<1>15. Tree(l, r, k, d, used, t)
  BY <1>5 DEF HeapTree
<1>16. Fits(k, d, used, above, arg)
  BY <1>7
<1> HIDE DEF l, r, k, l2, r2, k2
<1>17. k2 = [k EXCEPT ![n] = arg]
  <2> DEFINE g == [k EXCEPT ![n] = arg]
  <2>1. g \in [Node -> Int] /\ \A m \in Node : g[m] = k2[m]
    BY <1>3, <1>8, <1>10, <1>12, <1>13
  <2> HIDE DEF g
  <2>2. k2 = g
    BY <2>1, <1>14
  <2> QED BY <2>2 DEF g
<1>18. ASSUME arg < node[above].key PROVE Tree(l2, r2, k2, d2, used \cup {n}, t)
  <2>1. l[above] = NULL /\ arg < k[above]
    BY <1>1, <1>3, <1>7, <1>8, <1>12, <1>18
  <2> DEFINE g == [[l EXCEPT ![n] = NULL] EXCEPT ![above] = n]
             f == [r EXCEPT ![n] = NULL]
  <2>2. g \in [Node -> Pointer] /\ \A m \in Node : g[m] = l2[m]
    BY <1>8, <1>10, <1>12, <1>13, <1>18
  <2>3. f \in [Node -> Pointer] /\ \A m \in Node : f[m] = r2[m]
    BY <1>8, <1>10, <1>12, <1>13, <1>18
  <2>4. Tree(g, f, [k EXCEPT ![n] = arg], d2, used \cup {n}, t)
    BY <2>1, <1>11, <1>3, <1>7, <1>15, <1>16, LeafOnTheLeft
  <2> HIDE DEF g, f
  <2>5. l2 = g /\ r2 = f
    BY <2>2, <2>3, <1>14
  <2>6. Tree(l2, r2, k2, d2, used \cup {n}, t)
    BY <2>4, <2>5, <1>17
  <2> QED BY <2>6
<1>19. ASSUME ~(arg < node[above].key) PROVE Tree(l2, r2, k2, d2, used \cup {n}, t)
  <2>1. r[above] = NULL /\ arg > k[above]
    BY <1>1, <1>3, <1>7, <1>8, <1>9, <1>12, <1>19
  <2> DEFINE g == [l EXCEPT ![n] = NULL]
             f == [[r EXCEPT ![n] = NULL] EXCEPT ![above] = n]
  <2>2. g \in [Node -> Pointer] /\ \A m \in Node : g[m] = l2[m]
    BY <1>8, <1>10, <1>12, <1>13, <1>19
  <2>3. f \in [Node -> Pointer] /\ \A m \in Node : f[m] = r2[m]
    BY <1>8, <1>10, <1>12, <1>13, <1>19
  <2>4. Tree(g, f, [k EXCEPT ![n] = arg], d2, used \cup {n}, t)
    BY <2>1, <1>11, <1>3, <1>7, <1>15, <1>16, LeafOnTheRight
  <2> HIDE DEF g, f
  <2>5. l2 = g /\ r2 = f
    BY <2>2, <2>3, <1>14
  <2>6. Tree(l2, r2, k2, d2, used \cup {n}, t)
    BY <2>4, <2>5, <1>17
  <2> QED BY <2>6
<1>20. Tree(l2, r2, k2, d2, used \cup {n}, t)
  BY <1>18, <1>19
<1>21. HeapTree(node', {}, d2, used', t')
  BY <1>1, <1>2, <1>20 DEF HeapTree, l2, r2, k2
<1>22. /\ Upward(d2, used \cup {n}, above) = Upward(d, used, above)
       /\ \A m \in used : \A b \in d[m] : b \in d2[m]
       /\ d2 \in [Pointer -> SUBSET Node]
  BY <1>11, <1>7, <1>15, GrownUpward
<1>23. Way(d2, s', Upward(d2, used', p') \ {p'})
  <2>1. Way(d, Front(s), Upward(d, used, above) \ {above})
    BY <1>3, <1>6, <1>7, WayPopped DEF above
  <2>2. \A m \in Upward(d, used, above) \ {above} : m \in used
    BY DEF Upward
  <2>3. Way(d2, Front(s), Upward(d, used, above) \ {above})
    BY <2>1, <2>2, <1>22, WayKept
  <2> QED BY <2>3, <1>1, <1>2, <1>22
<1>24. TypeOK'
  <2>1. s' \in Seq(Pointer)
    BY <1>1, <1>3, <1>6, PopFacts
  <2>2. used' \in SUBSET Node /\ p' \in Pointer /\ q' \in Pointer
    BY <1>2, <1>8
  <2> QED BY <2>1, <2>2, <1>1, <1>3, <1>10 DEF TypeOK
<1>25. Control'
  BY <1>1 DEF Control
<1>26. GoingBack(d2)'
  <2>1. p' \in used'
    BY <1>2, <1>7
  <2> QED BY <2>1, <1>23 DEF GoingBack
<1>27. Searching(d2)' /\ Replacing(d2)' /\ ~Threaded'
  BY <1>1 DEF Searching, Replacing, Threaded
<1> QED BY <1>21, <1>22, <1>24, <1>25, <1>26, <1>27, ShapeGives

-----------------------------------------------------------------------------
(* bst_delete() takes a node out.                                          *)

\* What is below each node when y is gone.
Without(d, y) == [b \in Pointer |-> d[b] \ {y}]

\* The mirror image of OutWithoutRight.
LEMMA OutWithoutLeft ==
    ASSUME NEW l, NEW r, NEW k, NEW d, NEW U, NEW root, Tree(l, r, k, d, U, root),
           NEW y \in U, l[y] = NULL,
           NEW l2 \in [Node -> Pointer], NEW r2 \in [Node -> Pointer],
           \A m \in U \ {y} : /\ l2[m] = IF l[m] = y THEN r[y] ELSE l[m]
                              /\ r2[m] = IF r[m] = y THEN r[y] ELSE r[m]
    PROVE  Tree(l2, r2, k, Without(d, y), U \ {y}, IF root = y THEN r[y] ELSE root)
<1>1. Tree(r, l, Mirror(k), d, U, root)
  BY MirrorTree
<1>2. Tree(r2, l2, Mirror(k), Without(d, y), U \ {y}, IF root = y THEN r[y] ELSE root)
  BY <1>1, OutWithoutRight DEF Without
<1>3. k \in [Node -> Int]
  BY DEF Tree
<1> QED BY <1>2, <1>3, MirrorTreeBack

\* The largest key below the left child of x is next to x's.
LEMMA NextBelow ==
    ASSUME NEW l, NEW r, NEW k, NEW d, NEW U, NEW root, Tree(l, r, k, d, U, root),
           NEW x \in U, NEW y \in U, y \in d[l[x]], \A m \in d[l[x]] : k[m] <= k[y],
           NEW m \in U
    PROVE  k[m] <= k[y] \/ k[m] >= k[x]
<1>1. /\ \A b \in U : k[b] \in Int
      /\ \A b, c \in U : b \in d[l[c]] <=> b \in d[c] /\ k[b] < k[c]
      /\ \A b, c \in U : b \in d[c] => d[b] \subseteq d[c]
      /\ d[NULL] = {} /\ l[x] \in U \cup {NULL}
  BY TreeFacts
<1> SUFFICES ASSUME k[y] < k[m], k[m] < k[x] PROVE FALSE
  BY <1>1
<1>2. PICK e \in U : k[y] <= k[e] /\ k[e] <= k[m] /\ y \in d[e] /\ m \in d[e]
  <2>1. k[y] <= k[m]
    BY <1>1
  <2> QED BY <2>1, Zenon DEF Tree, Joined
<1>3. y \in d[x] /\ k[e] < k[x]
  BY <1>1, <1>2
<1>4. CASE e \in d[x]
  <2>1. e \in d[l[x]] /\ l[x] \in U
    BY <1>1, <1>3, <1>4
  <2>2. m \in d[l[x]]
    BY <1>1, <1>2, <2>1
  <2> QED BY <1>1, <2>2
<1>5. CASE x \in d[e]
  <2>1. x # e /\ k[x] > k[e]
    BY <1>1, <1>3
  <2>2. k[y] > k[e]
    BY <2>1, <1>3, <1>5, SameSide
  <2> QED BY <2>2, <1>1, <1>2
<1> QED BY <1>2, <1>3, <1>4, <1>5, Nested

\* The node that is taken out has at most one child; the node that takes over
\* its key keeps its place in the order.
LEMMA UnlinkedOrder ==
    ASSUME NEW l, NEW r, NEW k, NEW d, NEW U, NEW root, Tree(l, r, k, d, U, root),
           NEW x \in U, NEW y \in U,
           IF l[x] = NULL THEN y = x
           ELSE r[y] = NULL /\ y \in d[l[x]] /\ \A m \in d[l[x]] : m \in d[y] \/ k[m] < k[y],
           NEW j \in [Node -> Int],
           \A m \in U \ {x, y} : j[m] = k[m],
           x # y => j[x] = k[y]
    PROVE  \A m, n \in U \ {y} : j[m] < j[n] <=> k[m] < k[n]
<1>1. /\ \A b \in U : k[b] \in Int /\ b \in d[b]
      /\ \A b, c \in U : b \in d[l[c]] <=> b \in d[c] /\ k[b] < k[c]
      /\ \A b, c \in U : b \in d[r[c]] <=> b \in d[c] /\ k[b] > k[c]
      /\ d[NULL] = {} /\ l[x] \in U \cup {NULL} /\ \A b \in U : d[b] \subseteq U
  BY TreeFacts
<1>2. CASE y = x
  BY <1>2
<1>3. CASE y # x
  <2>1. r[y] = NULL /\ y \in d[l[x]] /\ l[x] \in U
    BY <1>1, <1>3
  <2>2. \A m \in d[l[x]] : m \in d[y] \/ k[m] < k[y]
    BY <1>3
  <2>3. \A m \in d[l[x]] : k[m] <= k[y]
    <3> SUFFICES ASSUME NEW m \in d[l[x]] PROVE k[m] <= k[y]
      OBVIOUS
    <3>1. m \in U
      BY <1>1, <2>1
    <3>2. m \in d[y] => ~(k[m] > k[y])
      BY <3>1, <1>1, <2>1
    <3> QED BY <3>1, <3>2, <1>1, <2>2
  <2>4. \A m \in U : k[m] <= k[y] \/ k[m] >= k[x]
    BY <2>1, <2>3, NextBelow
  <2>5. k[y] < k[x]
    BY <1>1, <2>1
  <2>6. \A m \in U : m # y => k[m] # k[y]
    BY KeysDiffer
  <2>7. \A m \in U : m # x => k[m] # k[x]
    BY KeysDiffer
  <2>8. ASSUME NEW m \in U \ {x, y} PROVE (k[m] < k[y] /\ k[m] < k[x]) \/ (k[m] > k[y] /\ k[m] > k[x])
    BY <1>1, <2>4, <2>5, <2>6, <2>7
  <2>9. j[x] = k[y]
    BY <1>3
  <2>10. ASSUME NEW m \in U \ {y}, NEW n \in U \ {y}
         PROVE  j[m] < j[n] <=> k[m] < k[n]
    <3>1. CASE m = x /\ n = x
      BY <3>1, <1>1, <2>9
    <3>2. CASE m = x /\ n # x
      BY <3>2, <1>1, <2>8, <2>9
    <3>3. CASE m # x /\ n = x
      BY <3>3, <1>1, <2>8, <2>9
    <3>4. CASE m # x /\ n # x
      BY <3>4
    <3> QED BY <3>1, <3>2, <3>3, <3>4
  <2> QED BY <2>10
<1> QED BY <1>2, <1>3

Child(l, r, n) == IF l[n] # NULL THEN l[n] ELSE r[n]

\* The links to y in the nodes of U that stay are links to c now.
LinksMoved(l, l2, U, y, c) ==
    \A m \in U \ {y} : l2[m] = IF l[m] = y THEN c ELSE l[m]

\* Both cases in one, as bst_delete() treats them.
LEMMA OutWithOneChild ==
    ASSUME NEW l, NEW r, NEW k, NEW d, NEW U, NEW root, Tree(l, r, k, d, U, root),
           NEW y \in U, l[y] = NULL \/ r[y] = NULL,
           NEW l2 \in [Node -> Pointer], NEW r2 \in [Node -> Pointer],
           LinksMoved(l, l2, U, y, Child(l, r, y)), LinksMoved(r, r2, U, y, Child(l, r, y))
    PROVE  Tree(l2, r2, k, Without(d, y), U \ {y}, IF root = y THEN Child(l, r, y) ELSE root)
<1> DEFINE c == Child(l, r, y)
<1>1. c = IF l[y] # NULL THEN l[y] ELSE r[y]
  BY DEF Child
<1> HIDE DEF c
<1>2. \A m \in U \ {y} : /\ l2[m] = IF l[m] = y THEN c ELSE l[m]
                         /\ r2[m] = IF r[m] = y THEN c ELSE r[m]
  BY DEF c, LinksMoved
<1>3. ASSUME Tree(l2, r2, k, Without(d, y), U \ {y}, IF root = y THEN c ELSE root)
      PROVE  Tree(l2, r2, k, Without(d, y), U \ {y}, IF root = y THEN Child(l, r, y) ELSE root)
  BY <1>3 DEF c
<1>4. CASE l[y] = NULL
  <2>1. c = r[y]
    BY <1>1, <1>4
  <2>2. \A m \in U \ {y} : /\ l2[m] = IF l[m] = y THEN r[y] ELSE l[m]
                           /\ r2[m] = IF r[m] = y THEN r[y] ELSE r[m]
    BY <1>2, <2>1
  <2>3. Tree(l2, r2, k, Without(d, y), U \ {y}, IF root = y THEN r[y] ELSE root)
    BY <1>4, <2>2, OutWithoutLeft
  <2> QED BY <2>1, <2>3, <1>3
<1>5. CASE l[y] # NULL
  <2>1. r[y] = NULL /\ c = l[y]
    BY <1>1, <1>5
  <2>2. \A m \in U \ {y} : /\ l2[m] = IF l[m] = y THEN l[y] ELSE l[m]
                           /\ r2[m] = IF r[m] = y THEN l[y] ELSE r[m]
    BY <1>2, <2>1
  <2>3. Tree(l2, r2, k, Without(d, y), U \ {y}, IF root = y THEN l[y] ELSE root)
    BY <2>1, <2>2, OutWithoutRight DEF Without
  <2> QED BY <2>1, <2>3, <1>3
<1> QED BY <1>4, <1>5

\* A node above keeps its way from the root when one that is not is taken out.
LEMMA WithoutUpward ==
    ASSUME NEW l, NEW r, NEW k, NEW d, NEW U, NEW root, Tree(l, r, k, d, U, root),
           NEW a \in U, NEW y \in U, y \notin Upward(d, U, a)
    PROVE  /\ Upward(Without(d, y), U \ {y}, a) = Upward(d, U, a)
           /\ \A m \in U : \A b \in d[m] : b # y => b \in Without(d, y)[m]
           /\ Without(d, y) \in [Pointer -> SUBSET Node]
<1> DEFINE e == Without(d, y)
<1>1. U \subseteq Pointer /\ d \in [Pointer -> SUBSET Node] /\ \A m \in U : m \in d[m]
  <2>1. \A m \in U : m \in d[m]
    BY TreeFacts
  <2> QED BY <2>1 DEF Tree, Pointer
<1>2. e \in [Pointer -> SUBSET Node] /\ \A m \in U : e[m] = d[m] \ {y}
  BY <1>1 DEF Without
<1> HIDE DEF e
<1>3. a # y
  BY <1>1 DEF Upward
<1>4. Upward(e, U \ {y}, a) = Upward(d, U, a)
  BY <1>2, <1>3 DEF Upward
<1>5. \A m \in U : \A b \in d[m] : b # y => b \in e[m]
  BY <1>2
<1> QED BY <1>2, <1>4, <1>5 DEF e

\* The stack of delete is the way to the node to take out.
LEMMA UnlinkKeeps == ASSUME IInv, Unlink PROVE IInv'
<1> DEFINE c == OnlyChild(q)
           moved == [node EXCEPT ![p].key = node[q].key, ![q] = Blank]
           above == Last(s)
           Heap == [Node -> [key : Key, bf : -1..1, left : Pointer, right : Pointer]]
<1>1. /\ pc = "unlink" /\ answer' = FALSE /\ used' = used \ {q}
      /\ \/ s = <<>> /\ t' = c /\ node' = moved /\ Done
         \/ /\ s # <<>>
            /\ node' = IF node[above].left = q
                       THEN [moved EXCEPT ![above].left = c]
                       ELSE [moved EXCEPT ![above].right = c]
            /\ p' = above /\ s' = Front(s) /\ pc' = "update"
            /\ UNCHANGED <<t, op, arg, q, s2, out>>
  BY DEF Unlink, TakenOut
<1>2. TypeOK /\ Control /\ s \in Seq(Pointer) /\ node \in Heap /\ op = "delete"
  BY <1>1 DEF IInv, TypeOK, Control
<1>3. PICK d \in [Pointer -> SUBSET Node] : Shape(d, {})
  BY <1>1, ShapeOf DEF Threaded
<1>4. HeapTree(node, {}, d, used, t) /\ Replacing(d)
  BY <1>3 DEF Shape
<1>5. /\ p \in used /\ q \in used
      /\ Way(d, s, Upward(d, used, q) \ {q})
      /\ IF node[p].left = NULL THEN q = p
         ELSE node[q].right = NULL /\ Rightmost(d, p, q)
  BY <1>1, <1>4 DEF Replacing
<1> DEFINE l == Lefts(node)
           r == Rights(node, {})
           k == Keys(node)
           l2 == Lefts(node')
           r2 == Rights(node', {})
           k2 == Keys(node')
<1>6. PICK d2 : d2 = Without(d, q)
  OBVIOUS
<1>7. /\ \A m \in Node : l[m] = node[m].left /\ r[m] = node[m].right /\ k[m] = node[m].key
  BY DEF Lefts, Rights, Keys
<1>8. /\ \A m \in Node : l2[m] = node'[m].left /\ r2[m] = node'[m].right /\ k2[m] = node'[m].key
  BY DEF Lefts, Rights, Keys
<1>9. Tree(l, r, k, d, used, t)
  BY <1>4 DEF HeapTree
<1>10. /\ used \subseteq Node /\ NULL \in Pointer /\ p \in Node /\ q \in Node
       /\ \A m \in Node : node[m].left \in Pointer /\ node[m].right \in Pointer /\ node[m].key \in Key
  BY <1>2, <1>5, NodeTypes
<1>11. c \in Pointer /\ c = IF l[q] # NULL THEN l[q] ELSE r[q]
  BY <1>7, <1>10 DEF OnlyChild
<1>12. /\ moved \in Heap
       /\ \A m \in Node \ {q} : /\ moved[m].left = node[m].left
                                /\ moved[m].right = node[m].right
                                /\ moved[m].key = IF m = p THEN node[q].key ELSE node[m].key
  <2>1. Blank \in [key : Key, bf : -1..1, left : Pointer, right : Pointer]
    <3>1. (CHOOSE x \in Key : TRUE) \in Key
      BY KeyAssumption
    <3> QED BY <3>1, <1>10 DEF Blank, Fresh
  <2> QED BY <2>1, <1>2, <1>10
<1> DEFINE Redirected ==
              \A m \in used \ {q} : /\ node'[m].left = IF l[m] = q THEN c ELSE l[m]
                                    /\ node'[m].right = IF r[m] = q THEN c ELSE r[m]
           KeyMoved == \A m \in used \ {q} : node'[m].key = IF m = p THEN k[q] ELSE k[m]
<1> HIDE DEF moved, c, l, r, k
<1>13. s # <<>> =>
         /\ above \in used /\ above # q /\ q # t
         /\ q = l[above] \/ q = r[above]
         /\ Upward(d, used, q) \ {q} = Upward(d, used, above)
         /\ Way(d, Front(s), Upward(d, used, above) \ {above})
  BY <1>2, <1>5, <1>9, LastAbove
<1>14. s = <<>> => q = t
  <2>1. s = <<>> => Upward(d, used, q) \ {q} = {}
    BY <1>2, <1>5, WayOfNone
  <2>2. q \in Upward(d, used, q)
    BY <1>2, <1>4, <1>5, HeapFacts DEF Upward
  <2>3. s = <<>> => Upward(d, used, q) = {q}
    BY <2>1, <2>2
  <2> QED BY <2>3, <1>5, <1>9, UpwardRoot
\* The new heap, link by link.
<1>15. ASSUME s = <<>> PROVE node' \in Heap /\ Redirected /\ KeyMoved
  <2>1. node' = moved
    BY <1>1, <1>15
  <2>2. \A m \in used \ {q} : l[m] # q /\ r[m] # q
    BY <1>5, <1>9, <1>14, <1>15, OneParent
  <2> QED BY <2>1, <2>2, <1>7, <1>10, <1>12
<1>16. ASSUME s # <<>> PROVE node' \in Heap /\ Redirected /\ KeyMoved
  <2> DEFINE a == above
  <2>1. /\ a \in used /\ a # q /\ a \in Node
        /\ q = l[a] \/ q = r[a]
        /\ node' = IF l[a] = q THEN [moved EXCEPT ![a].left = c] ELSE [moved EXCEPT ![a].right = c]
    BY <1>1, <1>7, <1>10, <1>13, <1>16
  <2> HIDE DEF above
  <2>2. l[a] # r[a] /\ \A m \in used : q = l[m] \/ q = r[m] => m = a
    BY <2>1, <1>5, <1>9, OneParent
  <2>3. CASE l[a] = q
    <3>1. node' = [moved EXCEPT ![a].left = c]
      BY <2>1, <2>3
    <3>2. node' \in Heap
      BY <3>1, <2>1, <1>11, <1>12
    <3>3. /\ node'[a].left = c /\ node'[a].right = moved[a].right /\ node'[a].key = moved[a].key
          /\ \A m \in Node \ {a} : node'[m] = moved[m]
      BY <3>1, <2>1, <1>11, <1>12
    <3>4. Redirected
      BY <3>3, <2>1, <2>2, <2>3, <1>7, <1>10, <1>12
    <3>5. KeyMoved
      BY <3>3, <2>1, <1>7, <1>10, <1>12
    <3> QED BY <3>2, <3>4, <3>5
  <2>4. CASE r[a] = q /\ l[a] # q
    <3>1. node' = [moved EXCEPT ![a].right = c]
      BY <2>1, <2>4
    <3>2. node' \in Heap
      BY <3>1, <2>1, <1>11, <1>12
    <3>3. /\ node'[a].right = c /\ node'[a].left = moved[a].left /\ node'[a].key = moved[a].key
          /\ \A m \in Node \ {a} : node'[m] = moved[m]
      BY <3>1, <2>1, <1>11, <1>12
    <3>4. Redirected
      BY <3>3, <2>1, <2>2, <2>4, <1>7, <1>10, <1>12
    <3>5. KeyMoved
      BY <3>3, <2>1, <1>7, <1>10, <1>12
    <3> QED BY <3>2, <3>4, <3>5
  <2> QED BY <2>1, <2>3, <2>4
<1>17. node' \in Heap /\ Redirected /\ KeyMoved
  BY <1>15, <1>16
<1>18. /\ l2 \in [Node -> Pointer] /\ r2 \in [Node -> Pointer] /\ k2 \in [Node -> Int]
  BY <1>17, KeyAssumption DEF Lefts, Rights, Keys
<1> HIDE DEF l2, r2, k2
<1>19. \A m \in used \ {q} : /\ l2[m] = IF l[m] = q THEN c ELSE l[m]
                             /\ r2[m] = IF r[m] = q THEN c ELSE r[m]
  BY <1>8, <1>10, <1>17
<1>20. \A m \in used \ {q} : k2[m] = IF m = p THEN k[q] ELSE k[m]
  BY <1>8, <1>10, <1>17
<1> HIDE DEF Redirected, KeyMoved
<1>21. IF l[p] = NULL THEN q = p
       ELSE r[q] = NULL /\ q \in d[l[p]] /\ \A m \in d[l[p]] : m \in d[q] \/ k[m] < k[q]
  <2>1. \A m \in d[l[p]] : m \in Node
    BY <1>5, <1>7, <1>9, <1>10, TreeFacts
  <2> QED BY <2>1, <1>5, <1>7, <1>10 DEF Rightmost
<1>22. Tree(l2, r2, k, d2, used \ {q}, IF t = q THEN c ELSE t)
  <2>1. l[q] = NULL \/ r[q] = NULL
    BY <1>21
  <2>2. c = Child(l, r, q)
    BY <1>11 DEF Child
  <2>3. /\ LinksMoved(l, l2, used, q, Child(l, r, q))
        /\ LinksMoved(r, r2, used, q, Child(l, r, q))
    BY <2>2, <1>19 DEF LinksMoved
  <2>4. Tree(l2, r2, k, Without(d, q), used \ {q}, IF t = q THEN Child(l, r, q) ELSE t)
    BY <2>1, <2>3, <1>5, <1>9, <1>18, OutWithOneChild
  <2> QED BY <2>2, <2>4, <1>6
<1>23. \A m, n \in used \ {q} : k2[m] < k2[n] <=> k[m] < k[n]
  <2>1. \A m \in used \ {p, q} : k2[m] = k[m]
    BY <1>20
  <2>2. p # q => k2[p] = k[q]
    BY <1>5, <1>20
  <2> QED BY <2>1, <2>2, <1>5, <1>9, <1>18, <1>21, UnlinkedOrder
<1>24. Tree(l2, r2, k2, d2, used \ {q}, IF t = q THEN c ELSE t)
  BY <1>18, <1>22, <1>23, Rekeyed
<1>25. t' = IF t = q THEN c ELSE t
  BY <1>1, <1>13, <1>14
<1>26. HeapTree(node', {}, d2, used', t')
  BY <1>1, <1>24, <1>25 DEF HeapTree, l2, r2, k2
<1>27. d2 \in [Pointer -> SUBSET Node]
  BY <1>24 DEF Tree
<1>28. used' \subseteq Node /\ t' \in Pointer /\ answer' \in BOOLEAN
  BY <1>1, <1>2, <1>10, <1>11, <1>25 DEF TypeOK
<1>29. CASE s = <<>>
  <2>1. Done
    BY <1>1, <1>29
  <2>2. TypeOK'
    BY <2>1, <1>17, <1>28, <1>10 DEF TypeOK, Done, Pointer
  <2> QED BY <2>1, <2>2, <1>2, <1>26, <1>27, DoneKeeps
<1>30. CASE s # <<>>
  <2>1. /\ p' = above /\ s' = Front(s) /\ pc' = "update"
        /\ UNCHANGED <<op, arg, q, s2, out>>
    BY <1>1, <1>30
  <2>2. above \in used' /\ above \in Pointer
    BY <1>1, <1>10, <1>13, <1>30 DEF Pointer
  <2>3. TypeOK'
    <3>1. s' \in Seq(Pointer)
      BY <2>1, <1>2, <1>30, PopFacts
    <3> QED BY <3>1, <2>1, <2>2, <1>2, <1>17, <1>28 DEF TypeOK
  <2>4. Control'
    BY <2>1, <1>2 DEF Control
  <2>5. Way(d2, s', Upward(d2, used', p') \ {p'})
    <3>1. q \notin Upward(d, used, above)
      BY <1>13, <1>30
    <3>2. /\ Upward(d2, used \ {q}, above) = Upward(d, used, above)
          /\ \A m \in used : \A b \in d[m] : b # q => b \in d2[m]
      BY <3>1, <1>5, <1>6, <1>9, <1>13, <1>30, WithoutUpward
    <3>3. Way(d, Front(s), Upward(d, used, above) \ {above})
      BY <1>13, <1>30
    <3>4. \A m \in Upward(d, used, above) \ {above} : m \in used /\ m # q
      BY <3>1 DEF Upward
    <3>5. Way(d2, Front(s), Upward(d, used, above) \ {above})
      BY <3>2, <3>3, <3>4, WayKept
    <3> QED BY <3>2, <3>5, <2>1, <1>1
  <2>6. GoingBack(d2)'
    BY <2>1, <2>2, <2>5 DEF GoingBack
  <2>7. Searching(d2)' /\ Replacing(d2)' /\ ~Threaded'
    BY <2>1 DEF Searching, Replacing, Threaded
  <2> QED BY <2>3, <2>4, <2>6, <2>7, <1>26, <1>27, ShapeGives
<1> QED BY <1>29, <1>30

-----------------------------------------------------------------------------
(* Rotations in the heap.                                                  *)

\* Only what is below x is arranged in another way.
Inside(d, d2, U, x) ==
    \A m \in U : IF m \in d[x] THEN d2[m] \subseteq d[x] ELSE d2[m] = d[m]

\* y takes the place of x and x that of y's inner child.
Turn(l, r, l2, r2, U, x, y) ==
    /\ l2[x] = r[y] /\ r2[x] = r[x] /\ l2[y] = l[y] /\ r2[y] = x
    /\ \A m \in U \ {x, y} : /\ l2[m] = IF l[m] = x THEN y ELSE l[m]
                             /\ r2[m] = IF r[m] = x THEN y ELSE r[m]

\* A rotation leaves a search tree, and everything outside what was below x
\* as it was.
LEMMA TurnedRight ==
    ASSUME NEW l, NEW r, NEW k, NEW d, NEW U, NEW root, Tree(l, r, k, d, U, root),
           NEW x \in U, NEW y \in U, y = l[x],
           NEW l2 \in [Node -> Pointer], NEW r2 \in [Node -> Pointer],
           Turn(l, r, l2, r2, U, x, y)
    PROVE  \E d2 \in [Pointer -> SUBSET Node] :
              /\ Tree(l2, r2, k, d2, U, IF root = x THEN y ELSE root)
              /\ Inside(d, d2, U, x)
<1> DEFINE d2 == [d EXCEPT ![y] = d[x], ![x] = {b \in d[x] : k[b] > k[y]}]
<1>1. Tree(l2, r2, k, d2, U, IF root = x THEN y ELSE root)
  BY Rotated DEF Turn
<1>2. d2 \in [Pointer -> SUBSET Node]
  BY <1>1 DEF Tree
<1>3. x \in Pointer /\ y \in Pointer /\ d \in [Pointer -> SUBSET Node]
  BY DEF Tree, Pointer
<1>4. y \in d[x] /\ y # x /\ x \in d[x]
  <2>1. x \in d[x]
    BY TreeFacts
  <2> QED BY <2>1, AboveChild
<1>5. \A b, m \in U : b \in d[m] => d[b] \subseteq d[m]
  BY TreeFacts
<1>6. d2[y] = d[x] /\ d2[x] \subseteq d[x] /\ \A m \in U \ {x, y} : d2[m] = d[m]
  <2>1. U \subseteq Pointer
    BY DEF Tree, Pointer
  <2> QED BY <2>1, <1>3, <1>4
<1>7. Inside(d, d2, U, x)
  <2> HIDE DEF d2
  <2> QED BY <1>4, <1>5, <1>6 DEF Inside
<1> QED BY <1>1, <1>2, <1>7

\* The mirror image of TurnedRight.
LEMMA TurnedLeft ==
    ASSUME NEW l, NEW r, NEW k, NEW d, NEW U, NEW root, Tree(l, r, k, d, U, root),
           NEW x \in U, NEW y \in U, y = r[x],
           NEW l2 \in [Node -> Pointer], NEW r2 \in [Node -> Pointer],
           Turn(r, l, r2, l2, U, x, y)
    PROVE  \E d2 \in [Pointer -> SUBSET Node] :
              /\ Tree(l2, r2, k, d2, U, IF root = x THEN y ELSE root)
              /\ Inside(d, d2, U, x)
<1>1. Tree(r, l, Mirror(k), d, U, root)
  BY MirrorTree
<1>2. PICK d2 \in [Pointer -> SUBSET Node] :
              /\ Tree(r2, l2, Mirror(k), d2, U, IF root = x THEN y ELSE root)
              /\ Inside(d, d2, U, x)
  BY <1>1, TurnedRight
<1>3. k \in [Node -> Int]
  BY DEF Tree
<1>4. Tree(l2, r2, k, d2, U, IF root = x THEN y ELSE root)
  BY <1>2, <1>3, MirrorTreeBack
<1> QED BY <1>2, <1>4

\* A heap whose balance factors have not been put right yet.
Heap == [Node -> [key : Key, bf : Int, left : Pointer, right : Pointer]]

\* What the four rotations do to the nodes they are about.
LEMMA LLFacts ==
    ASSUME NEW h \in Heap, NEW x \in Node, NEW y \in Node, y = h[x].left, x # y
    PROVE  /\ LL(h, x) \in Heap
           /\ LL(h, x)[x].left = h[y].right /\ LL(h, x)[x].right = h[x].right
           /\ LL(h, x)[y].left = h[y].left /\ LL(h, x)[y].right = x
           /\ LL(h, x)[x].bf = h[x].bf - 2 /\ LL(h, x)[y].bf = h[y].bf - 1
           /\ \A m \in Node : LL(h, x)[m].key = h[m].key
           /\ \A m \in Node \ {x, y} : LL(h, x)[m] = h[m]
<1> DEFINE f == LL(h, x)
<1>1. f = [h EXCEPT ![x].left = h[y].right, ![x].bf = @ - 2, ![y].right = x, ![y].bf = @ - 1]
  BY DEF LL
<1>2. /\ h[x] \in [key : Key, bf : Int, left : Pointer, right : Pointer]
      /\ h[y] \in [key : Key, bf : Int, left : Pointer, right : Pointer]
      /\ x \in Pointer
  BY DEF Heap, Pointer
<1> HIDE DEF f
<1>3. f \in Heap
  BY <1>1, <1>2 DEF Heap
<1>4. f[x] = [h[x] EXCEPT !.left = h[y].right, !.bf = h[x].bf - 2]
  BY <1>1, <1>2 DEF Heap
<1>5. f[y] = [h[y] EXCEPT !.right = x, !.bf = h[y].bf - 1]
  BY <1>1, <1>2 DEF Heap
<1>6. \A m \in Node \ {x, y} : f[m] = h[m]
  BY <1>1 DEF Heap
<1>7. f[x].left = h[y].right /\ f[x].right = h[x].right
  BY <1>2, <1>3, <1>4, <1>5, <1>6
<1>8. f[y].left = h[y].left /\ f[y].right = x
  BY <1>2, <1>3, <1>4, <1>5, <1>6
<1>9. f[x].bf = h[x].bf - 2 /\ f[y].bf = h[y].bf - 1
  BY <1>2, <1>3, <1>4, <1>5, <1>6
<1>10. f[x].key = h[x].key /\ f[y].key = h[y].key
  BY <1>2, <1>3, <1>4, <1>5, <1>6
<1>11. \A m \in Node : f[m].key = h[m].key
  BY <1>10, <1>6
<1> HIDE DEF f
<1> QED BY <1>3, <1>6, <1>7, <1>8, <1>9, <1>11 DEF f

LEMMA LRFacts ==
    ASSUME NEW h \in Heap, NEW x \in Node, NEW z \in Node, NEW y \in Node,
           z = h[x].left, y = h[z].right, x # y, x # z, y # z
    PROVE  /\ LR(h, x) \in Heap
           /\ LR(h, x)[x].left = y /\ LR(h, x)[x].right = h[x].right
           /\ LR(h, x)[z].right = h[y].left /\ LR(h, x)[z].left = h[z].left
           /\ LR(h, x)[y].left = z /\ LR(h, x)[y].right = h[y].right
           /\ LR(h, x)[x].bf = h[x].bf
           /\ LR(h, x)[z].bf = h[z].bf + 1 /\ LR(h, x)[y].bf = h[y].bf + 1
           /\ \A m \in Node : LR(h, x)[m].key = h[m].key
           /\ \A m \in Node \ {x, y, z} : LR(h, x)[m] = h[m]
<1> DEFINE f == LR(h, x)
<1>1. f = [h EXCEPT ![x].left = y,
                    ![z].right = h[y].left, ![z].bf = @ + 1,
                    ![y].left = z, ![y].bf = @ + 1]
  BY DEF LR
<1>2. /\ h[x] \in [key : Key, bf : Int, left : Pointer, right : Pointer]
      /\ h[y] \in [key : Key, bf : Int, left : Pointer, right : Pointer]
      /\ h[z] \in [key : Key, bf : Int, left : Pointer, right : Pointer]
      /\ x \in Pointer /\ y \in Pointer /\ z \in Pointer
  BY DEF Heap, Pointer
<1> HIDE DEF f
<1>3. f[x] = [h[x] EXCEPT !.left = y]
  BY <1>1, <1>2 DEF Heap
<1>4. f[z] = [h[z] EXCEPT !.right = h[y].left, !.bf = h[z].bf + 1]
  BY <1>1, <1>2 DEF Heap
<1>5. f[y] = [h[y] EXCEPT !.left = z, !.bf = h[y].bf + 1]
  BY <1>1, <1>2 DEF Heap
<1>6. \A m \in Node \ {x, y, z} : f[m] = h[m]
  BY <1>1 DEF Heap
<1>7. h[z].bf + 1 \in Int /\ h[y].bf + 1 \in Int /\ h[y].left \in Pointer
  BY <1>2
<1>8. f \in Heap
  <2>1. f = [m \in Node |-> f[m]]
    BY <1>1 DEF Heap
  <2>2. \A m \in Node : h[m] \in [key : Key, bf : Int, left : Pointer, right : Pointer]
    BY DEF Heap
  <2>3. ASSUME NEW m \in Node
        PROVE  f[m] \in [key : Key, bf : Int, left : Pointer, right : Pointer]
    <3>1. CASE m = x
      BY <3>1, <1>2, <1>3
    <3>2. CASE m = y
      BY <3>2, <1>2, <1>5, <1>7
    <3>3. CASE m = z
      BY <3>3, <1>2, <1>4, <1>7
    <3> QED BY <3>1, <3>2, <3>3, <2>2, <1>6
  <2> QED BY <2>1, <2>3 DEF Heap
<1>9. f[x].left = y /\ f[x].right = h[x].right
  BY <1>2, <1>8, <1>3, <1>4, <1>5, <1>6
<1>10. f[z].right = h[y].left /\ f[z].left = h[z].left
  BY <1>2, <1>8, <1>3, <1>4, <1>5, <1>6
<1>11. f[y].left = z /\ f[y].right = h[y].right
  BY <1>2, <1>8, <1>3, <1>4, <1>5, <1>6
<1>12. f[x].bf = h[x].bf
  BY <1>2, <1>8, <1>3, <1>4, <1>5, <1>6
<1>13. f[z].bf = h[z].bf + 1 /\ f[y].bf = h[y].bf + 1
  BY <1>2, <1>8, <1>3, <1>4, <1>5, <1>6
<1>14. f[x].key = h[x].key /\ f[y].key = h[y].key /\ f[z].key = h[z].key
  BY <1>2, <1>8, <1>3, <1>4, <1>5, <1>6
<1>15. \A m \in Node : f[m].key = h[m].key
  BY <1>14, <1>6
<1> HIDE DEF f
<1> QED BY <1>8, <1>6, <1>9, <1>10, <1>11, <1>12, <1>13, <1>15 DEF f

LEMMA RRFacts ==
    ASSUME NEW h \in Heap, NEW x \in Node, NEW y \in Node, y = h[x].right, x # y
    PROVE  /\ RR(h, x) \in Heap
           /\ RR(h, x)[x].right = h[y].left /\ RR(h, x)[x].left = h[x].left
           /\ RR(h, x)[y].right = h[y].right /\ RR(h, x)[y].left = x
           /\ RR(h, x)[x].bf = h[x].bf + 2 /\ RR(h, x)[y].bf = h[y].bf + 1
           /\ \A m \in Node : RR(h, x)[m].key = h[m].key
           /\ \A m \in Node \ {x, y} : RR(h, x)[m] = h[m]
<1> DEFINE f == RR(h, x)
<1>1. f = [h EXCEPT ![x].right = h[y].left, ![x].bf = @ + 2, ![y].left = x, ![y].bf = @ + 1]
  BY DEF RR
<1>2. /\ h[x] \in [key : Key, bf : Int, left : Pointer, right : Pointer]
      /\ h[y] \in [key : Key, bf : Int, left : Pointer, right : Pointer]
      /\ x \in Pointer
  BY DEF Heap, Pointer
<1> HIDE DEF f
<1>3. f \in Heap
  BY <1>1, <1>2 DEF Heap
<1>4. f[x] = [h[x] EXCEPT !.right = h[y].left, !.bf = h[x].bf + 2]
  BY <1>1, <1>2 DEF Heap
<1>5. f[y] = [h[y] EXCEPT !.left = x, !.bf = h[y].bf + 1]
  BY <1>1, <1>2 DEF Heap
<1>6. \A m \in Node \ {x, y} : f[m] = h[m]
  BY <1>1 DEF Heap
<1>7. f[x].right = h[y].left /\ f[x].left = h[x].left
  BY <1>2, <1>3, <1>4, <1>5, <1>6
<1>8. f[y].right = h[y].right /\ f[y].left = x
  BY <1>2, <1>3, <1>4, <1>5, <1>6
<1>9. f[x].bf = h[x].bf + 2 /\ f[y].bf = h[y].bf + 1
  BY <1>2, <1>3, <1>4, <1>5, <1>6
<1>10. f[x].key = h[x].key /\ f[y].key = h[y].key
  BY <1>2, <1>3, <1>4, <1>5, <1>6
<1>11. \A m \in Node : f[m].key = h[m].key
  BY <1>10, <1>6
<1> HIDE DEF f
<1> QED BY <1>3, <1>6, <1>7, <1>8, <1>9, <1>11 DEF f

LEMMA RLFacts ==
    ASSUME NEW h \in Heap, NEW x \in Node, NEW z \in Node, NEW y \in Node,
           z = h[x].right, y = h[z].left, x # y, x # z, y # z
    PROVE  /\ RL(h, x) \in Heap
           /\ RL(h, x)[x].right = y /\ RL(h, x)[x].left = h[x].left
           /\ RL(h, x)[z].left = h[y].right /\ RL(h, x)[z].right = h[z].right
           /\ RL(h, x)[y].right = z /\ RL(h, x)[y].left = h[y].left
           /\ RL(h, x)[x].bf = h[x].bf
           /\ RL(h, x)[z].bf = h[z].bf - 1 /\ RL(h, x)[y].bf = h[y].bf - 1
           /\ \A m \in Node : RL(h, x)[m].key = h[m].key
           /\ \A m \in Node \ {x, y, z} : RL(h, x)[m] = h[m]
<1> DEFINE f == RL(h, x)
<1>1. f = [h EXCEPT ![x].right = y,
                    ![z].left = h[y].right, ![z].bf = @ - 1,
                    ![y].right = z, ![y].bf = @ - 1]
  BY DEF RL
<1>2. /\ h[x] \in [key : Key, bf : Int, left : Pointer, right : Pointer]
      /\ h[y] \in [key : Key, bf : Int, left : Pointer, right : Pointer]
      /\ h[z] \in [key : Key, bf : Int, left : Pointer, right : Pointer]
      /\ x \in Pointer /\ y \in Pointer /\ z \in Pointer
  BY DEF Heap, Pointer
<1> HIDE DEF f
<1>3. f[x] = [h[x] EXCEPT !.right = y]
  BY <1>1, <1>2 DEF Heap
<1>4. f[z] = [h[z] EXCEPT !.left = h[y].right, !.bf = h[z].bf - 1]
  BY <1>1, <1>2 DEF Heap
<1>5. f[y] = [h[y] EXCEPT !.right = z, !.bf = h[y].bf - 1]
  BY <1>1, <1>2 DEF Heap
<1>6. \A m \in Node \ {x, y, z} : f[m] = h[m]
  BY <1>1 DEF Heap
<1>7. h[z].bf - 1 \in Int /\ h[y].bf - 1 \in Int /\ h[y].right \in Pointer
  BY <1>2
<1>8. f \in Heap
  <2>1. f = [m \in Node |-> f[m]]
    BY <1>1 DEF Heap
  <2>2. \A m \in Node : h[m] \in [key : Key, bf : Int, left : Pointer, right : Pointer]
    BY DEF Heap
  <2>3. ASSUME NEW m \in Node
        PROVE  f[m] \in [key : Key, bf : Int, left : Pointer, right : Pointer]
    <3>1. CASE m = x
      BY <3>1, <1>2, <1>3
    <3>2. CASE m = y
      BY <3>2, <1>2, <1>5, <1>7
    <3>3. CASE m = z
      BY <3>3, <1>2, <1>4, <1>7
    <3> QED BY <3>1, <3>2, <3>3, <2>2, <1>6
  <2> QED BY <2>1, <2>3 DEF Heap
<1>9. f[x].right = y /\ f[x].left = h[x].left
  BY <1>2, <1>8, <1>3, <1>4, <1>5, <1>6
<1>10. f[z].left = h[y].right /\ f[z].right = h[z].right
  BY <1>2, <1>8, <1>3, <1>4, <1>5, <1>6
<1>11. f[y].right = z /\ f[y].left = h[y].left
  BY <1>2, <1>8, <1>3, <1>4, <1>5, <1>6
<1>12. f[x].bf = h[x].bf
  BY <1>2, <1>8, <1>3, <1>4, <1>5, <1>6
<1>13. f[z].bf = h[z].bf - 1 /\ f[y].bf = h[y].bf - 1
  BY <1>2, <1>8, <1>3, <1>4, <1>5, <1>6
<1>14. f[x].key = h[x].key /\ f[y].key = h[y].key /\ f[z].key = h[z].key
  BY <1>2, <1>8, <1>3, <1>4, <1>5, <1>6
<1>15. \A m \in Node : f[m].key = h[m].key
  BY <1>14, <1>6
<1> HIDE DEF f
<1> QED BY <1>8, <1>6, <1>9, <1>10, <1>11, <1>12, <1>13, <1>15 DEF f

\* The link to x in its parent a becomes one to y.
Relink(h, a, x, y) ==
    IF h[a].left = x THEN [h EXCEPT ![a].left = y] ELSE [h EXCEPT ![a].right = y]

\* The parent's link is the only thing that changes.
LEMMA RelinkFacts ==
    ASSUME NEW h \in Heap, NEW a \in Node, NEW x, NEW y \in Pointer
    PROVE  /\ Relink(h, a, x, y) \in Heap
           /\ \A m \in Node \ {a} : Relink(h, a, x, y)[m] = h[m]
           /\ Relink(h, a, x, y)[a].key = h[a].key /\ Relink(h, a, x, y)[a].bf = h[a].bf
           /\ h[a].left = x => /\ Relink(h, a, x, y)[a].left = y
                               /\ Relink(h, a, x, y)[a].right = h[a].right
           /\ h[a].left # x => /\ Relink(h, a, x, y)[a].right = y
                               /\ Relink(h, a, x, y)[a].left = h[a].left
<1>1. CASE h[a].left = x
  BY <1>1 DEF Relink, Heap
<1>2. CASE h[a].left # x
  BY <1>2 DEF Relink, Heap
<1> QED BY <1>1, <1>2

\* The links and keys of a heap, one node at a time.
LEMMA HeapLink ==
    ASSUME NEW h \in Heap
    PROVE  /\ Lefts(h) \in [Node -> Pointer] /\ Rights(h, {}) \in [Node -> Pointer]
           /\ Keys(h) \in [Node -> Int]
           /\ \A m \in Node : /\ Lefts(h)[m] = h[m].left /\ Rights(h, {})[m] = h[m].right
                              /\ Keys(h)[m] = h[m].key
BY KeyAssumption DEF Heap, Lefts, Rights, Keys

\* The heap h is a tree that differs from d below x only.
Rearranged(h, d, U, root, x) ==
    \E d2 \in [Pointer -> SUBSET Node] : HeapTree(h, {}, d2, U, root) /\ Inside(d, d2, U, x)

\* f is the heap h, with y in the place of x below x's parent a in the heap g.
Placed(g, h, f, U, root, x, y, a) ==
    IF root = x THEN f = h
    ELSE a \in U /\ x \in {g[a].left, g[a].right} /\ f = Relink(h, a, x, y)

\* f has the keys of g and the balance factors of h.
SameData(f, g, h) == \A m \in Node : f[m].key = g[m].key /\ f[m].bf = h[m].bf

\* The root once y is in the place of x.
Instead(root, x, y) == IF root = x THEN y ELSE root

\* A single rotation in the heap, hung below the parent.
LEMMA HangRight ==
    ASSUME NEW g \in Heap, NEW d, NEW U, NEW root, HeapTree(g, {}, d, U, root),
           NEW x \in U, NEW y \in U, y = g[x].left,
           NEW f, NEW a, Placed(g, LL(g, x), f, U, root, x, y, a)
    PROVE  /\ f \in Heap
           /\ SameData(f, g, LL(g, x))
           /\ Rearranged(f, d, U, Instead(root, x, y), x)
<1> DEFINE h == LL(g, x)
           l == Lefts(g)
           r == Rights(g, {})
           k == Keys(g)
           l2 == Lefts(f)
           r2 == Rights(f, {})
<1>1. Tree(l, r, k, d, U, root)
  BY DEF HeapTree
<1>2. U \subseteq Node /\ x \in Node /\ y \in Node /\ y \in Pointer
  BY <1>1 DEF Tree, Pointer
<1>3. \A m \in Node : l[m] = g[m].left /\ r[m] = g[m].right /\ k[m] = g[m].key
  BY HeapLink
<1> HIDE DEF l, r, k
<1>4. y = l[x] /\ y \in d[x] /\ y # x /\ r[x] # y /\ y # root
      /\ \A m \in U : y = l[m] \/ y = r[m] => m = x
  <2>1. y = l[x]
    BY <1>2, <1>3
  <2> QED BY <2>1, <1>1, AboveChild, OneParent
<1>5. /\ h \in Heap
      /\ h[x].left = g[y].right /\ h[x].right = g[x].right
      /\ h[y].left = g[y].left /\ h[y].right = x
      /\ \A m \in Node : h[m].key = g[m].key
      /\ \A m \in Node \ {x, y} : h[m] = g[m]
  <2>1. x # y
    BY <1>4
  <2> QED BY <2>1, <1>2, LLFacts
<1> HIDE DEF h
<1>6. ASSUME root = x
      PROVE  /\ f \in Heap
             /\ \A m \in Node : f[m].key = g[m].key /\ f[m].bf = h[m].bf
             /\ Turn(l, r, l2, r2, U, x, y)
  <2>1. f = h
    BY <1>6 DEF h, Placed
  <2>2. \A m \in U : l[m] # x /\ r[m] # x
    BY <1>1, <1>6, OneParent
  <2>3. \A m \in Node : l2[m] = h[m].left /\ r2[m] = h[m].right
    BY <2>1, <1>5, HeapLink
  <2> HIDE DEF l2, r2
  <2>4. l2[x] = r[y] /\ r2[x] = r[x] /\ l2[y] = l[y] /\ r2[y] = x
    BY <2>3, <1>2, <1>3, <1>5
  <2>5. \A m \in U \ {x, y} : l2[m] = l[m] /\ r2[m] = r[m]
    BY <2>3, <1>2, <1>3, <1>5
  <2>6. Turn(l, r, l2, r2, U, x, y)
    BY <2>2, <2>4, <2>5 DEF Turn
  <2> QED BY <2>1, <2>6, <1>5
<1>7. ASSUME root # x
      PROVE  /\ f \in Heap
             /\ \A m \in Node : f[m].key = g[m].key /\ f[m].bf = h[m].bf
             /\ Turn(l, r, l2, r2, U, x, y)
  <2>1. a \in U /\ a \in Node /\ x \in {g[a].left, g[a].right} /\ f = Relink(h, a, x, y)
    BY <1>2, <1>7 DEF h, Placed
  <2>2. x = l[a] \/ x = r[a]
    BY <2>1, <1>3
  <2>3. /\ \A m \in U : x = l[m] \/ x = r[m] => m = a
        /\ l[a] # r[a]
    BY <2>1, <2>2, <1>1, OneParent
  <2>4. a # x /\ a # y
    <3>1. x \in d[a] /\ x # a
      BY <2>1, <2>2, <1>1, AboveChild
    <3> QED BY <3>1, <1>1, <1>4, BelowAntisymmetric
  <2>5. h[a] = g[a]
    BY <2>1, <2>4, <1>5
  <2>6. /\ f \in Heap /\ \A m \in Node \ {a} : f[m] = h[m]
        /\ f[a].key = h[a].key /\ f[a].bf = h[a].bf
        /\ h[a].left = x => f[a].left = y /\ f[a].right = h[a].right
        /\ h[a].left # x => f[a].right = y /\ f[a].left = h[a].left
    BY <2>1, <1>2, <1>5, RelinkFacts
  <2>7. \A m \in Node : l2[m] = f[m].left /\ r2[m] = f[m].right
    BY <2>6, HeapLink
  <2> HIDE DEF l2, r2
  <2>8. l2[x] = r[y] /\ r2[x] = r[x] /\ l2[y] = l[y] /\ r2[y] = x
    BY <2>4, <2>6, <2>7, <1>2, <1>3, <1>5
  <2>9. \A m \in U \ {x, y, a} : /\ l2[m] = l[m] /\ r2[m] = r[m]
                                 /\ l[m] # x /\ r[m] # x
    BY <2>3, <2>6, <2>7, <1>2, <1>3, <1>5
  <2>10. l2[a] = (IF l[a] = x THEN y ELSE l[a]) /\ r2[a] = (IF r[a] = x THEN y ELSE r[a])
    BY <2>1, <2>2, <2>3, <2>5, <2>6, <2>7, <1>3
  <2>11. Turn(l, r, l2, r2, U, x, y)
    BY <2>8, <2>9, <2>10 DEF Turn
  <2>12. \A m \in Node : f[m].key = g[m].key /\ f[m].bf = h[m].bf
    BY <2>6, <1>5
  <2> QED BY <2>6, <2>11, <2>12
<1>8. /\ f \in Heap
      /\ \A m \in Node : f[m].key = g[m].key /\ f[m].bf = h[m].bf
      /\ Turn(l, r, l2, r2, U, x, y)
  BY <1>6, <1>7
<1>9. Keys(f) = k
  BY <1>8 DEF Keys, k
<1>10. l2 \in [Node -> Pointer] /\ r2 \in [Node -> Pointer]
  BY <1>8, HeapLink
<1>11. PICK d2 \in [Pointer -> SUBSET Node] :
          /\ Tree(l2, r2, k, d2, U, IF root = x THEN y ELSE root)
          /\ Inside(d, d2, U, x)
  <2> HIDE DEF l2, r2
  <2> QED BY <1>1, <1>4, <1>8, <1>10, TurnedRight
<1>12. HeapTree(f, {}, d2, U, IF root = x THEN y ELSE root)
  BY <1>9, <1>11 DEF HeapTree
<1>13. Rearranged(f, d, U, Instead(root, x, y), x)
  BY <1>11, <1>12 DEF Rearranged, Instead
<1> QED BY <1>8, <1>13 DEF h, SameData

\* The mirror image of HangRight.
LEMMA HangLeft ==
    ASSUME NEW g \in Heap, NEW d, NEW U, NEW root, HeapTree(g, {}, d, U, root),
           NEW x \in U, NEW y \in U, y = g[x].right,
           NEW f, NEW a, Placed(g, RR(g, x), f, U, root, x, y, a)
    PROVE  /\ f \in Heap
           /\ SameData(f, g, RR(g, x))
           /\ Rearranged(f, d, U, Instead(root, x, y), x)
<1> DEFINE h == RR(g, x)
           l == Lefts(g)
           r == Rights(g, {})
           k == Keys(g)
           l2 == Lefts(f)
           r2 == Rights(f, {})
<1>1. Tree(l, r, k, d, U, root)
  BY DEF HeapTree
<1>2. U \subseteq Node /\ x \in Node /\ y \in Node /\ y \in Pointer
  BY <1>1 DEF Tree, Pointer
<1>3. \A m \in Node : l[m] = g[m].left /\ r[m] = g[m].right /\ k[m] = g[m].key
  BY HeapLink
<1> HIDE DEF l, r, k
<1>4. y = r[x] /\ y \in d[x] /\ y # x /\ l[x] # y /\ y # root
      /\ \A m \in U : y = l[m] \/ y = r[m] => m = x
  <2>1. y = r[x]
    BY <1>2, <1>3
  <2> QED BY <2>1, <1>1, AboveChild, OneParent
<1>5. /\ h \in Heap
      /\ h[x].right = g[y].left /\ h[x].left = g[x].left
      /\ h[y].right = g[y].right /\ h[y].left = x
      /\ \A m \in Node : h[m].key = g[m].key
      /\ \A m \in Node \ {x, y} : h[m] = g[m]
  <2>1. x # y
    BY <1>4
  <2> QED BY <2>1, <1>2, RRFacts
<1> HIDE DEF h
<1>6. ASSUME root = x
      PROVE  /\ f \in Heap
             /\ \A m \in Node : f[m].key = g[m].key /\ f[m].bf = h[m].bf
             /\ Turn(r, l, r2, l2, U, x, y)
  <2>1. f = h
    BY <1>6 DEF h, Placed
  <2>2. \A m \in U : l[m] # x /\ r[m] # x
    BY <1>1, <1>6, OneParent
  <2>3. \A m \in Node : l2[m] = h[m].left /\ r2[m] = h[m].right
    BY <2>1, <1>5, HeapLink
  <2> HIDE DEF l2, r2
  <2>4. r2[x] = l[y] /\ l2[x] = l[x] /\ r2[y] = r[y] /\ l2[y] = x
    BY <2>3, <1>2, <1>3, <1>5
  <2>5. \A m \in U \ {x, y} : l2[m] = l[m] /\ r2[m] = r[m]
    BY <2>3, <1>2, <1>3, <1>5
  <2>6. Turn(r, l, r2, l2, U, x, y)
    BY <2>2, <2>4, <2>5 DEF Turn
  <2> QED BY <2>1, <2>6, <1>5
<1>7. ASSUME root # x
      PROVE  /\ f \in Heap
             /\ \A m \in Node : f[m].key = g[m].key /\ f[m].bf = h[m].bf
             /\ Turn(r, l, r2, l2, U, x, y)
  <2>1. a \in U /\ a \in Node /\ x \in {g[a].left, g[a].right} /\ f = Relink(h, a, x, y)
    BY <1>2, <1>7 DEF h, Placed
  <2>2. x = l[a] \/ x = r[a]
    BY <2>1, <1>3
  <2>3. /\ \A m \in U : x = l[m] \/ x = r[m] => m = a
        /\ l[a] # r[a]
    BY <2>1, <2>2, <1>1, OneParent
  <2>4. a # x /\ a # y
    <3>1. x \in d[a] /\ x # a
      BY <2>1, <2>2, <1>1, AboveChild
    <3> QED BY <3>1, <1>1, <1>4, BelowAntisymmetric
  <2>5. h[a] = g[a]
    BY <2>1, <2>4, <1>5
  <2>6. /\ f \in Heap /\ \A m \in Node \ {a} : f[m] = h[m]
        /\ f[a].key = h[a].key /\ f[a].bf = h[a].bf
        /\ h[a].left = x => f[a].left = y /\ f[a].right = h[a].right
        /\ h[a].left # x => f[a].right = y /\ f[a].left = h[a].left
    BY <2>1, <1>2, <1>5, RelinkFacts
  <2>7. \A m \in Node : l2[m] = f[m].left /\ r2[m] = f[m].right
    BY <2>6, HeapLink
  <2> HIDE DEF l2, r2
  <2>8. r2[x] = l[y] /\ l2[x] = l[x] /\ r2[y] = r[y] /\ l2[y] = x
    BY <2>4, <2>6, <2>7, <1>2, <1>3, <1>5
  <2>9. \A m \in U \ {x, y, a} : /\ l2[m] = l[m] /\ r2[m] = r[m]
                                 /\ l[m] # x /\ r[m] # x
    BY <2>3, <2>6, <2>7, <1>2, <1>3, <1>5
  <2>10. l2[a] = (IF l[a] = x THEN y ELSE l[a]) /\ r2[a] = (IF r[a] = x THEN y ELSE r[a])
    BY <2>1, <2>2, <2>3, <2>5, <2>6, <2>7, <1>3
  <2>11. Turn(r, l, r2, l2, U, x, y)
    BY <2>8, <2>9, <2>10 DEF Turn
  <2>12. \A m \in Node : f[m].key = g[m].key /\ f[m].bf = h[m].bf
    BY <2>6, <1>5
  <2> QED BY <2>6, <2>11, <2>12
<1>8. /\ f \in Heap
      /\ \A m \in Node : f[m].key = g[m].key /\ f[m].bf = h[m].bf
      /\ Turn(r, l, r2, l2, U, x, y)
  BY <1>6, <1>7
<1>9. Keys(f) = k
  BY <1>8 DEF Keys, k
<1>10. l2 \in [Node -> Pointer] /\ r2 \in [Node -> Pointer]
  BY <1>8, HeapLink
<1>11. PICK d2 \in [Pointer -> SUBSET Node] :
          /\ Tree(l2, r2, k, d2, U, IF root = x THEN y ELSE root)
          /\ Inside(d, d2, U, x)
  <2> HIDE DEF l2, r2
  <2> QED BY <1>1, <1>4, <1>8, <1>10, TurnedLeft
<1>12. HeapTree(f, {}, d2, U, IF root = x THEN y ELSE root)
  BY <1>9, <1>11 DEF HeapTree
<1>13. Rearranged(f, d, U, Instead(root, x, y), x)
  BY <1>11, <1>12 DEF Rearranged, Instead
<1> QED BY <1>8, <1>13 DEF h, SameData

\* The first half of a double rotation leaves x where it is.
LEMMA StraightenedRight ==
    ASSUME NEW h \in Heap, NEW d, NEW U, NEW root, HeapTree(h, {}, d, U, root),
           NEW x \in U, NEW z \in U, z = h[x].left, NEW y \in U, y = h[z].right
    PROVE  /\ x # y /\ x # z /\ y # z
           /\ LR(h, x) \in Heap
           /\ \E e \in [Pointer -> SUBSET Node] :
                 /\ HeapTree(LR(h, x), {}, e, U, root)
                 /\ Inside(d, e, U, x) /\ e[x] = d[x]
<1> DEFINE f == LR(h, x)
           l == Lefts(h)
           r == Rights(h, {})
           k == Keys(h)
           l2 == Lefts(f)
           r2 == Rights(f, {})
<1>1. Tree(l, r, k, d, U, root)
  BY DEF HeapTree
<1>2. U \subseteq Node /\ x \in Node /\ y \in Node /\ z \in Node
  BY <1>1 DEF Tree
<1>3. \A m \in Node : l[m] = h[m].left /\ r[m] = h[m].right /\ k[m] = h[m].key
  BY HeapLink
<1> HIDE DEF l, r, k
<1>4. z = l[x] /\ y = r[z]
  BY <1>2, <1>3
<1>5. /\ z \in d[x] /\ z # x /\ z # root /\ z # r[x]
      /\ \A m \in U : z = l[m] \/ z = r[m] => m = x
  BY <1>1, <1>4, AboveChild, OneParent
<1>6. y \in d[z] /\ y # z
  BY <1>1, <1>4, AboveChild
<1>7. x \notin d[z]
  BY <1>1, <1>5, BelowAntisymmetric
<1>8. x # y /\ x # z /\ y # z
  BY <1>5, <1>6, <1>7
<1>9. /\ f \in Heap
      /\ f[x].left = y /\ f[x].right = h[x].right
      /\ f[z].right = h[y].left /\ f[z].left = h[z].left
      /\ f[y].left = z /\ f[y].right = h[y].right
      /\ \A m \in Node : f[m].key = h[m].key
      /\ \A m \in Node \ {x, y, z} : f[m] = h[m]
  BY <1>2, <1>8, LRFacts
<1> HIDE DEF f
<1>10. \A m \in Node : l2[m] = f[m].left /\ r2[m] = f[m].right
  BY <1>9, HeapLink
<1>11. l2 \in [Node -> Pointer] /\ r2 \in [Node -> Pointer]
  BY <1>9, HeapLink
<1>12. Keys(f) = k
  BY <1>9 DEF Keys, k
<1> HIDE DEF l2, r2
<1>13. r2[z] = l[y] /\ l2[z] = l[z] /\ r2[y] = r[y] /\ l2[y] = z
  BY <1>2, <1>3, <1>9, <1>10
<1>14. \A m \in U \ {x, y, z} : /\ l2[m] = l[m] /\ r2[m] = r[m]
                                /\ l[m] # z /\ r[m] # z
  BY <1>2, <1>3, <1>5, <1>9, <1>10
<1>15. l2[x] = y /\ r2[x] = r[x]
  BY <1>2, <1>3, <1>9, <1>10
<1>16. Turn(r, l, r2, l2, U, z, y)
  BY <1>4, <1>5, <1>13, <1>14, <1>15 DEF Turn
<1>17. PICK e \in [Pointer -> SUBSET Node] :
          /\ Tree(l2, r2, k, e, U, IF root = z THEN y ELSE root)
          /\ Inside(d, e, U, z)
  BY <1>1, <1>4, <1>11, <1>16, TurnedLeft
<1>18. Tree(l2, r2, k, e, U, root)
  BY <1>5, <1>17
<1>19. HeapTree(f, {}, e, U, root)
  BY <1>12, <1>18 DEF HeapTree, l2, r2
<1>20. Inside(d, e, U, x) /\ e[x] = d[x]
  <2>1. \A b, m \in U : b \in d[m] => d[b] \subseteq d[m]
    BY <1>1, TreeFacts
  <2> QED BY <2>1, <1>5, <1>7, <1>17 DEF Inside
<1>21. f \in Heap /\ \E c \in [Pointer -> SUBSET Node] :
                        /\ HeapTree(f, {}, c, U, root)
                        /\ Inside(d, c, U, x) /\ c[x] = d[x]
  BY <1>9, <1>19, <1>20
<1> QED BY <1>8, <1>21 DEF f

\* The first half of a double rotation makes a single one of it.
LEMMA StraightenedLeft ==
    ASSUME NEW h \in Heap, NEW d, NEW U, NEW root, HeapTree(h, {}, d, U, root),
           NEW x \in U, NEW z \in U, z = h[x].right, NEW y \in U, y = h[z].left
    PROVE  /\ x # y /\ x # z /\ y # z
           /\ RL(h, x) \in Heap
           /\ \E e \in [Pointer -> SUBSET Node] :
                 /\ HeapTree(RL(h, x), {}, e, U, root)
                 /\ Inside(d, e, U, x) /\ e[x] = d[x]
<1> DEFINE f == RL(h, x)
           l == Lefts(h)
           r == Rights(h, {})
           k == Keys(h)
           l2 == Lefts(f)
           r2 == Rights(f, {})
<1>1. Tree(l, r, k, d, U, root)
  BY DEF HeapTree
<1>2. U \subseteq Node /\ x \in Node /\ y \in Node /\ z \in Node
  BY <1>1 DEF Tree
<1>3. \A m \in Node : l[m] = h[m].left /\ r[m] = h[m].right /\ k[m] = h[m].key
  BY HeapLink
<1> HIDE DEF l, r, k
<1>4. z = r[x] /\ y = l[z]
  BY <1>2, <1>3
<1>5. /\ z \in d[x] /\ z # x /\ z # root /\ z # l[x]
      /\ \A m \in U : z = l[m] \/ z = r[m] => m = x
  BY <1>1, <1>4, AboveChild, OneParent
<1>6. y \in d[z] /\ y # z
  BY <1>1, <1>4, AboveChild
<1>7. x \notin d[z]
  BY <1>1, <1>5, BelowAntisymmetric
<1>8. x # y /\ x # z /\ y # z
  BY <1>5, <1>6, <1>7
<1>9. /\ f \in Heap
      /\ f[x].right = y /\ f[x].left = h[x].left
      /\ f[z].left = h[y].right /\ f[z].right = h[z].right
      /\ f[y].right = z /\ f[y].left = h[y].left
      /\ \A m \in Node : f[m].key = h[m].key
      /\ \A m \in Node \ {x, y, z} : f[m] = h[m]
  BY <1>2, <1>8, RLFacts
<1> HIDE DEF f
<1>10. \A m \in Node : l2[m] = f[m].left /\ r2[m] = f[m].right
  BY <1>9, HeapLink
<1>11. l2 \in [Node -> Pointer] /\ r2 \in [Node -> Pointer]
  BY <1>9, HeapLink
<1>12. Keys(f) = k
  BY <1>9 DEF Keys, k
<1> HIDE DEF l2, r2
<1>13. l2[z] = r[y] /\ r2[z] = r[z] /\ l2[y] = l[y] /\ r2[y] = z
  BY <1>2, <1>3, <1>9, <1>10
<1>14. \A m \in U \ {x, y, z} : /\ l2[m] = l[m] /\ r2[m] = r[m]
                                /\ l[m] # z /\ r[m] # z
  BY <1>2, <1>3, <1>5, <1>9, <1>10
<1>15. r2[x] = y /\ l2[x] = l[x]
  BY <1>2, <1>3, <1>9, <1>10
<1>16. Turn(l, r, l2, r2, U, z, y)
  BY <1>4, <1>5, <1>13, <1>14, <1>15 DEF Turn
<1>17. PICK e \in [Pointer -> SUBSET Node] :
          /\ Tree(l2, r2, k, e, U, IF root = z THEN y ELSE root)
          /\ Inside(d, e, U, z)
  BY <1>1, <1>4, <1>11, <1>16, TurnedRight
<1>18. Tree(l2, r2, k, e, U, root)
  BY <1>5, <1>17
<1>19. HeapTree(f, {}, e, U, root)
  BY <1>12, <1>18 DEF HeapTree, l2, r2
<1>20. Inside(d, e, U, x) /\ e[x] = d[x]
  <2>1. \A b, m \in U : b \in d[m] => d[b] \subseteq d[m]
    BY <1>1, TreeFacts
  <2> QED BY <2>1, <1>5, <1>7, <1>17 DEF Inside
<1>21. f \in Heap /\ \E c \in [Pointer -> SUBSET Node] :
                        /\ HeapTree(f, {}, c, U, root)
                        /\ Inside(d, c, U, x) /\ c[x] = d[x]
  BY <1>9, <1>19, <1>20
<1> QED BY <1>8, <1>21 DEF f

\* Two rearrangements below x are one.
LEMMA InsideTwice ==
    ASSUME NEW d, NEW e, NEW d2, NEW U, NEW x,
           Inside(d, e, U, x), e[x] = d[x], Inside(e, d2, U, x)
    PROVE  Inside(d, d2, U, x)
BY DEF Inside

\* The heap after a right rotation at x, with its parent linked to the new root.
LEMMA RightBalanced ==
    ASSUME NEW h \in Heap, NEW d, NEW U, NEW root, HeapTree(h, {}, d, U, root),
           NEW x \in U, h[x].bf = 2, \A m \in Node \ {x} : h[m].bf \in -1..1,
           CanRotateRight(h, x),
           NEW f, NEW a,
           Placed(h, RotateRight(h, x).heap, f, U, root, x, RotateRight(h, x).root, a)
    PROVE  /\ f \in Heap
           /\ \A m \in Node : f[m].key = h[m].key /\ f[m].bf \in -1..1
           /\ RotateRight(h, x).root \in U
           /\ Rearranged(f, d, U, Instead(root, x, RotateRight(h, x).root), x)
<1> DEFINE g == IF LeansRight(h, x) THEN LR(h, x) ELSE h
           y == g[x].left
           z == h[x].left
<1>1. RotateRight(h, x).heap = LL(g, x) /\ RotateRight(h, x).root = y
  BY DEF RotateRight
<1>2. Tree(Lefts(h), Rights(h, {}), Keys(h), d, U, root)
  BY DEF HeapTree
<1>3. U \subseteq Node /\ x \in Node /\ d \in [Pointer -> SUBSET Node]
  BY <1>2 DEF Tree
<1>4. \A m \in U : /\ Lefts(h)[m] = h[m].left /\ Rights(h, {})[m] = h[m].right
                   /\ h[m].left \in U \cup {NULL} /\ h[m].right \in U \cup {NULL}
  <2>1. \A m \in U : Lefts(h)[m] = h[m].left /\ Rights(h, {})[m] = h[m].right
    BY <1>3, HeapLink
  <2>2. \A m \in U : Lefts(h)[m] \in U \cup {NULL} /\ Rights(h, {})[m] \in U \cup {NULL}
    BY <1>2, TreeFacts
  <2> QED BY <2>1, <2>2
<1>5. z \in U /\ z \in d[x] /\ z # x
  <2>1. z \in U
    BY <1>4 DEF CanRotateRight
  <2> QED BY <2>1, <1>2, <1>4, AboveChild
\* The heap before the last rotation.
<1>6. /\ g \in Heap /\ y \in U
      /\ \A m \in Node : g[m].key = h[m].key
      /\ \A m \in U : m \notin d[x] => g[m] = h[m]
      /\ LL(g, x) \in Heap /\ \A m \in Node : LL(g, x)[m].bf \in -1..1
      /\ \E e \in [Pointer -> SUBSET Node] :
            /\ HeapTree(g, {}, e, U, root)
            /\ Inside(d, e, U, x) /\ e[x] = d[x]
  <2>1. CASE LeansRight(h, x)
    <3> DEFINE w == h[z].right
    <3>1. w \in U /\ h[z].bf = -1
      BY <2>1, <1>4, <1>5 DEF CanRotateRight, LeansRight
    <3>2. g = LR(h, x)
      BY <2>1
    <3> HIDE DEF g, y
    <3>3. /\ x # w /\ x # z /\ w # z
          /\ g \in Heap
          /\ \E e \in [Pointer -> SUBSET Node] :
                /\ HeapTree(g, {}, e, U, root)
                /\ Inside(d, e, U, x) /\ e[x] = d[x]
      BY <3>1, <3>2, <1>5, StraightenedRight
    <3>4. z \in Node /\ w \in Node
      BY <3>1, <1>3, <1>5
    <3>5. /\ g[x].left = w /\ g[x].bf = h[x].bf
          /\ g[z].bf = h[z].bf + 1 /\ g[w].bf = h[w].bf + 1
          /\ \A m \in Node : g[m].key = h[m].key
          /\ \A m \in Node \ {x, w, z} : g[m] = h[m]
      BY <3>2, <3>3, <3>4, <1>3, LRFacts
    <3>6. y = w
      BY <3>5 DEF y
    <3>7. /\ LL(g, x) \in Heap
          /\ LL(g, x)[x].bf = g[x].bf - 2 /\ LL(g, x)[w].bf = g[w].bf - 1
          /\ \A m \in Node \ {x, w} : LL(g, x)[m] = g[m]
      BY <3>3, <3>4, <3>5, <1>3, LLFacts
    <3>8. \A m \in Node : LL(g, x)[m].bf \in -1..1
      <4>1. LL(g, x)[x].bf = 0
        BY <3>5, <3>7
      <4>2. h[w].bf \in -1..1
        BY <3>3, <3>4
      <4>3. LL(g, x)[w].bf \in -1..1
        BY <3>5, <3>7, <4>2
      <4>4. LL(g, x)[z].bf = 0
        BY <3>1, <3>3, <3>4, <3>5, <3>7, <1>5
      <4>5. \A m \in Node \ {x, w, z} : LL(g, x)[m].bf \in -1..1
        BY <3>5, <3>7
      <4> QED BY <4>1, <4>3, <4>4, <4>5
    <3>9. w \in d[x] /\ x \in d[x]
      <4>1. w \in d[z] /\ x \in d[x] /\ d[z] \subseteq d[x]
        <5>1. w \in d[z]
          BY <3>1, <1>2, <1>4, <1>5, AboveChild
        <5> QED BY <5>1, <1>2, <1>5, TreeFacts
      <4> QED BY <4>1
    <3>10. \A m \in U : m \notin d[x] => g[m] = h[m]
      BY <3>5, <3>9, <1>3, <1>5
    <3> QED BY <3>1, <3>3, <3>5, <3>6, <3>7, <3>8, <3>10
  <2>2. CASE ~LeansRight(h, x)
    <3>1. g = h /\ y = z
      BY <2>2
    <3>2. h[z].bf \in 0..1
      <4>1. h[z].bf \in -1..1 /\ h[z].bf # -1
        BY <2>2, <1>3, <1>5 DEF LeansRight
      <4> QED BY <4>1
    <3> HIDE DEF g, y
    <3>3. z \in Node
      BY <1>3, <1>5
    <3>4. /\ LL(h, x) \in Heap
          /\ LL(h, x)[x].bf = h[x].bf - 2 /\ LL(h, x)[z].bf = h[z].bf - 1
          /\ \A m \in Node \ {x, z} : LL(h, x)[m] = h[m]
      BY <3>3, <1>3, <1>5, LLFacts
    <3>5. \A m \in Node : LL(h, x)[m].bf \in -1..1
      <4>1. LL(h, x)[x].bf = 0 /\ LL(h, x)[z].bf \in -1..1
        BY <3>2, <3>4
      <4>2. \A m \in Node \ {x, z} : LL(h, x)[m].bf \in -1..1
        BY <3>4
      <4> QED BY <4>1, <4>2
    <3>6. Inside(d, d, U, x)
      <4>1. \A m \in U : m \in d[x] => d[m] \subseteq d[x]
        BY <1>2, TreeFacts
      <4> QED BY <4>1 DEF Inside
    <3> QED BY <3>1, <3>4, <3>5, <3>6, <1>3, <1>5
  <2> QED BY <2>1, <2>2
<1> HIDE DEF g, y
<1>7. PICK e \in [Pointer -> SUBSET Node] :
         /\ HeapTree(g, {}, e, U, root)
         /\ Inside(d, e, U, x) /\ e[x] = d[x]
  BY <1>6
<1>8. Placed(g, LL(g, x), f, U, root, x, y, a)
  <2>1. root # x => g[a] = h[a]
    <3> SUFFICES ASSUME root # x PROVE g[a] = h[a]
      OBVIOUS
    <3>1. a \in U /\ (x = Lefts(h)[a] \/ x = Rights(h, {})[a])
      BY <1>4 DEF Placed
    <3>2. x \in d[a] /\ x # a
      BY <3>1, <1>2, AboveChild
    <3>3. a \notin d[x]
      BY <3>1, <3>2, <1>2, BelowAntisymmetric
    <3> QED BY <3>1, <3>3, <1>6
  <2> QED BY <2>1, <1>1 DEF Placed
<1>9. /\ f \in Heap
      /\ \A m \in Node : f[m].key = g[m].key /\ f[m].bf = LL(g, x)[m].bf
      /\ Rearranged(f, e, U, Instead(root, x, y), x)
  <2>1. y = g[x].left
    BY DEF y
  <2>2. g \in Heap /\ y \in U
    BY <1>6
  <2>3. HeapTree(g, {}, e, U, root)
    BY <1>7
  <2>4. f \in Heap
    BY <2>1, <2>2, <2>3, <1>8, HangRight
  <2>5. Rearranged(f, e, U, Instead(root, x, y), x)
    BY <2>1, <2>2, <2>3, <1>8, HangRight
  <2>6. SameData(f, g, LL(g, x))
    BY <2>1, <2>2, <2>3, <1>8, HangRight
  <2> QED BY <2>4, <2>5, <2>6 DEF SameData
<1>10. Rearranged(f, d, U, Instead(root, x, y), x)
  BY <1>7, <1>9, InsideTwice DEF Rearranged
<1>11. \A m \in Node : f[m].key = h[m].key /\ f[m].bf \in -1..1
  BY <1>6, <1>9
<1> QED BY <1>1, <1>6, <1>9, <1>10, <1>11

\* The heap after a left rotation at x, with its parent linked to the new root.
LEMMA LeftBalanced ==
    ASSUME NEW h \in Heap, NEW d, NEW U, NEW root, HeapTree(h, {}, d, U, root),
           NEW x \in U, h[x].bf = -2, \A m \in Node \ {x} : h[m].bf \in -1..1,
           CanRotateLeft(h, x),
           NEW f, NEW a,
           Placed(h, RotateLeft(h, x).heap, f, U, root, x, RotateLeft(h, x).root, a)
    PROVE  /\ f \in Heap
           /\ \A m \in Node : f[m].key = h[m].key /\ f[m].bf \in -1..1
           /\ RotateLeft(h, x).root \in U
           /\ Rearranged(f, d, U, Instead(root, x, RotateLeft(h, x).root), x)
<1> DEFINE g == IF LeansLeft(h, x) THEN RL(h, x) ELSE h
           y == g[x].right
           z == h[x].right
<1>1. RotateLeft(h, x).heap = RR(g, x) /\ RotateLeft(h, x).root = y
  BY DEF RotateLeft
<1>2. Tree(Lefts(h), Rights(h, {}), Keys(h), d, U, root)
  BY DEF HeapTree
<1>3. U \subseteq Node /\ x \in Node /\ d \in [Pointer -> SUBSET Node]
  BY <1>2 DEF Tree
<1>4. \A m \in U : /\ Lefts(h)[m] = h[m].left /\ Rights(h, {})[m] = h[m].right
                   /\ h[m].right \in U \cup {NULL} /\ h[m].left \in U \cup {NULL}
  <2>1. \A m \in U : Lefts(h)[m] = h[m].left /\ Rights(h, {})[m] = h[m].right
    BY <1>3, HeapLink
  <2>2. \A m \in U : Lefts(h)[m] \in U \cup {NULL} /\ Rights(h, {})[m] \in U \cup {NULL}
    BY <1>2, TreeFacts
  <2> QED BY <2>1, <2>2
<1>5. z \in U /\ z \in d[x] /\ z # x
  <2>1. z \in U
    BY <1>4 DEF CanRotateLeft
  <2> QED BY <2>1, <1>2, <1>4, AboveChild
\* The heap before the last rotation.
<1>6. /\ g \in Heap /\ y \in U
      /\ \A m \in Node : g[m].key = h[m].key
      /\ \A m \in U : m \notin d[x] => g[m] = h[m]
      /\ RR(g, x) \in Heap /\ \A m \in Node : RR(g, x)[m].bf \in -1..1
      /\ \E e \in [Pointer -> SUBSET Node] :
            /\ HeapTree(g, {}, e, U, root)
            /\ Inside(d, e, U, x) /\ e[x] = d[x]
  <2>1. CASE LeansLeft(h, x)
    <3> DEFINE w == h[z].left
    <3>1. w \in U /\ h[z].bf = 1
      BY <2>1, <1>4, <1>5 DEF CanRotateLeft, LeansLeft
    <3>2. g = RL(h, x)
      BY <2>1
    <3> HIDE DEF g, y
    <3>3. /\ x # w /\ x # z /\ w # z
          /\ g \in Heap
          /\ \E e \in [Pointer -> SUBSET Node] :
                /\ HeapTree(g, {}, e, U, root)
                /\ Inside(d, e, U, x) /\ e[x] = d[x]
      BY <3>1, <3>2, <1>5, StraightenedLeft
    <3>4. z \in Node /\ w \in Node
      BY <3>1, <1>3, <1>5
    <3>5. /\ g[x].right = w /\ g[x].bf = h[x].bf
          /\ g[z].bf = h[z].bf - 1 /\ g[w].bf = h[w].bf - 1
          /\ \A m \in Node : g[m].key = h[m].key
          /\ \A m \in Node \ {x, w, z} : g[m] = h[m]
      BY <3>2, <3>3, <3>4, <1>3, RLFacts
    <3>6. y = w
      BY <3>5 DEF y
    <3>7. /\ RR(g, x) \in Heap
          /\ RR(g, x)[x].bf = g[x].bf + 2 /\ RR(g, x)[w].bf = g[w].bf + 1
          /\ \A m \in Node \ {x, w} : RR(g, x)[m] = g[m]
      BY <3>3, <3>4, <3>5, <1>3, RRFacts
    <3>8. \A m \in Node : RR(g, x)[m].bf \in -1..1
      <4>1. RR(g, x)[x].bf = 0
        BY <3>5, <3>7
      <4>2. h[w].bf \in -1..1
        BY <3>3, <3>4
      <4>3. RR(g, x)[w].bf \in -1..1
        BY <3>5, <3>7, <4>2
      <4>4. RR(g, x)[z].bf = 0
        BY <3>1, <3>3, <3>4, <3>5, <3>7, <1>5
      <4>5. \A m \in Node \ {x, w, z} : RR(g, x)[m].bf \in -1..1
        BY <3>5, <3>7
      <4> QED BY <4>1, <4>3, <4>4, <4>5
    <3>9. w \in d[x] /\ x \in d[x]
      <4>1. w \in d[z] /\ x \in d[x] /\ d[z] \subseteq d[x]
        <5>1. w \in d[z]
          BY <3>1, <1>2, <1>4, <1>5, AboveChild
        <5> QED BY <5>1, <1>2, <1>5, TreeFacts
      <4> QED BY <4>1
    <3>10. \A m \in U : m \notin d[x] => g[m] = h[m]
      BY <3>5, <3>9, <1>3, <1>5
    <3> QED BY <3>1, <3>3, <3>5, <3>6, <3>7, <3>8, <3>10
  <2>2. CASE ~LeansLeft(h, x)
    <3>1. g = h /\ y = z
      BY <2>2
    <3>2. h[z].bf \in -1..0
      <4>1. h[z].bf \in -1..1 /\ h[z].bf # 1
        BY <2>2, <1>3, <1>5 DEF LeansLeft
      <4> QED BY <4>1
    <3> HIDE DEF g, y
    <3>3. z \in Node
      BY <1>3, <1>5
    <3>4. /\ RR(h, x) \in Heap
          /\ RR(h, x)[x].bf = h[x].bf + 2 /\ RR(h, x)[z].bf = h[z].bf + 1
          /\ \A m \in Node \ {x, z} : RR(h, x)[m] = h[m]
      BY <3>3, <1>3, <1>5, RRFacts
    <3>5. \A m \in Node : RR(h, x)[m].bf \in -1..1
      <4>1. RR(h, x)[x].bf = 0 /\ RR(h, x)[z].bf \in -1..1
        BY <3>2, <3>4
      <4>2. \A m \in Node \ {x, z} : RR(h, x)[m].bf \in -1..1
        BY <3>4
      <4> QED BY <4>1, <4>2
    <3>6. Inside(d, d, U, x)
      <4>1. \A m \in U : m \in d[x] => d[m] \subseteq d[x]
        BY <1>2, TreeFacts
      <4> QED BY <4>1 DEF Inside
    <3> QED BY <3>1, <3>4, <3>5, <3>6, <1>3, <1>5
  <2> QED BY <2>1, <2>2
<1> HIDE DEF g, y
<1>7. PICK e \in [Pointer -> SUBSET Node] :
         /\ HeapTree(g, {}, e, U, root)
         /\ Inside(d, e, U, x) /\ e[x] = d[x]
  BY <1>6
<1>8. Placed(g, RR(g, x), f, U, root, x, y, a)
  <2>1. root # x => g[a] = h[a]
    <3> SUFFICES ASSUME root # x PROVE g[a] = h[a]
      OBVIOUS
    <3>1. a \in U /\ (x = Lefts(h)[a] \/ x = Rights(h, {})[a])
      BY <1>4 DEF Placed
    <3>2. x \in d[a] /\ x # a
      BY <3>1, <1>2, AboveChild
    <3>3. a \notin d[x]
      BY <3>1, <3>2, <1>2, BelowAntisymmetric
    <3> QED BY <3>1, <3>3, <1>6
  <2> QED BY <2>1, <1>1 DEF Placed
<1>9. /\ f \in Heap
      /\ \A m \in Node : f[m].key = g[m].key /\ f[m].bf = RR(g, x)[m].bf
      /\ Rearranged(f, e, U, Instead(root, x, y), x)
  <2>1. y = g[x].right
    BY DEF y
  <2>2. g \in Heap /\ y \in U
    BY <1>6
  <2>3. HeapTree(g, {}, e, U, root)
    BY <1>7
  <2>4. f \in Heap
    BY <2>1, <2>2, <2>3, <1>8, HangLeft
  <2>5. Rearranged(f, e, U, Instead(root, x, y), x)
    BY <2>1, <2>2, <2>3, <1>8, HangLeft
  <2>6. SameData(f, g, RR(g, x))
    BY <2>1, <2>2, <2>3, <1>8, HangLeft
  <2> QED BY <2>4, <2>5, <2>6 DEF SameData
<1>10. Rearranged(f, d, U, Instead(root, x, y), x)
  BY <1>7, <1>9, InsideTwice DEF Rearranged
<1>11. \A m \in Node : f[m].key = h[m].key /\ f[m].bf \in -1..1
  BY <1>6, <1>9
<1> QED BY <1>1, <1>6, <1>9, <1>10, <1>11

-----------------------------------------------------------------------------
(* The way back.                                                           *)

\* The balance factor of p may be out of -1..1, and no other, before the
\* rotation.
LEMMA CountedFacts ==
    ASSUME TypeOK, p \in Node
    PROVE  /\ Counted \in Heap
           /\ Counted[p].bf \in -2..2 /\ \A m \in Node \ {p} : Counted[m].bf \in -1..1
           /\ \A m \in Node : /\ Counted[m].left = node[m].left
                              /\ Counted[m].right = node[m].right
                              /\ Counted[m].key = node[m].key
<1> DEFINE b == IF (node[p].left = q) = (op = "insert")
                THEN node[p].bf + 1 ELSE node[p].bf - 1
           f == Counted
<1>1. node \in [Node -> [key : Key, bf : -1..1, left : Pointer, right : Pointer]]
  BY DEF TypeOK
<1>2. b \in -2..2
  <2>1. node[p].bf \in -1..1
    BY <1>1
  <2> QED BY <2>1
<1>3. f = [node EXCEPT ![p].bf = b]
  BY <1>1 DEF Counted
<1> HIDE DEF b, f
<1>4. f[p] = [node[p] EXCEPT !.bf = b] /\ \A m \in Node \ {p} : f[m] = node[m]
  BY <1>1, <1>3
<1>5. \A m \in Node : node[m] \in [key : Key, bf : Int, left : Pointer, right : Pointer]
  BY <1>1
<1>6. b \in Int
  BY <1>2
<1>7. f[p] \in [key : Key, bf : Int, left : Pointer, right : Pointer]
  BY <1>4, <1>5, <1>6
<1>8. f \in Heap
  <2>1. f = [m \in Node |-> f[m]]
    BY <1>1, <1>3
  <2>2. \A m \in Node : f[m] \in [key : Key, bf : Int, left : Pointer, right : Pointer]
    BY <1>4, <1>5, <1>7
  <2> QED BY <2>1, <2>2 DEF Heap
<1>9. f[p].bf = b /\ \A m \in Node \ {p} : f[m].bf \in -1..1
  BY <1>1, <1>4, <1>5
<1>10. f[p].left = node[p].left /\ f[p].right = node[p].right /\ f[p].key = node[p].key
  BY <1>4, <1>5
<1>11. \A m \in Node : f[m].left = node[m].left /\ f[m].right = node[m].right /\ f[m].key = node[m].key
  BY <1>4, <1>10
<1> QED BY <1>2, <1>8, <1>9, <1>11 DEF f

\* A heap with the same links and keys is the same tree.
LEMMA SameHeap ==
    ASSUME NEW g \in Heap, NEW h \in Heap, NEW d, NEW U, NEW root,
           HeapTree(g, {}, d, U, root),
           \A m \in Node : /\ h[m].left = g[m].left /\ h[m].right = g[m].right
                           /\ h[m].key = g[m].key
    PROVE  HeapTree(h, {}, d, U, root)
<1>1. Lefts(h) = Lefts(g) /\ Rights(h, {}) = Rights(g, {}) /\ Keys(h) = Keys(g)
  BY DEF Lefts, Rights, Keys
<1> QED BY <1>1 DEF HeapTree

\* The heap after one turn of the way back.
LEMMA TurnOfTheWayBack ==
    ASSUME TypeOK, NEW d, HeapTree(node, {}, d, used, t), p \in used, ~UpdateCrashes,
           NEW f, NEW a,
           Placed(Counted, Rebalanced.heap, f, used, t, p, Rebalanced.root, a)
    PROVE  /\ f \in Heap
           /\ \A m \in Node : f[m].key = node[m].key /\ f[m].bf \in -1..1
           /\ Rebalanced.root \in used
           /\ Rearranged(f, d, used, Instead(t, p, Rebalanced.root), p)
<1> DEFINE h == Counted
<1>1. used \subseteq Node /\ p \in Node /\ p \in Pointer
  BY NodeTypes
<1>2. /\ h \in Heap
      /\ h[p].bf \in -2..2 /\ \A m \in Node \ {p} : h[m].bf \in -1..1
      /\ \A m \in Node : /\ h[m].left = node[m].left /\ h[m].right = node[m].right
                         /\ h[m].key = node[m].key
  BY <1>1, CountedFacts
<1>3. node \in Heap
  BY NodeTypes DEF TypeOK, Heap
<1>4. HeapTree(h, {}, d, used, t)
  <2> HIDE DEF h
  <2> QED BY <1>2, <1>3, SameHeap
<1>5. CASE h[p].bf > 1
  <2>1. Rebalanced = RotateRight(h, p) /\ CanRotateRight(h, p)
    <3>1. ~(h[p].bf < -1)
      BY <1>2, <1>5
    <3> QED BY <3>1, <1>5 DEF Rebalanced, UpdateCrashes
  <2>2. h[p].bf = 2
    BY <1>2, <1>5
  <2>3. Placed(h, RotateRight(h, p).heap, f, used, t, p, RotateRight(h, p).root, a)
    BY <2>1
  <2> HIDE DEF h
  <2>4. /\ f \in Heap
        /\ \A m \in Node : f[m].key = h[m].key /\ f[m].bf \in -1..1
        /\ RotateRight(h, p).root \in used
        /\ Rearranged(f, d, used, Instead(t, p, RotateRight(h, p).root), p)
    BY <2>1, <2>2, <2>3, <1>2, <1>4, RightBalanced
  <2>5. \A m \in Node : f[m].key = node[m].key /\ f[m].bf \in -1..1
    BY <2>4, <1>2
  <2> QED BY <2>1, <2>4, <2>5
<1>6. CASE h[p].bf < -1
  <2>1. Rebalanced = RotateLeft(h, p) /\ CanRotateLeft(h, p)
    <3>1. ~(h[p].bf > 1)
      BY <1>2, <1>6
    <3> QED BY <3>1, <1>6 DEF Rebalanced, UpdateCrashes
  <2>2. h[p].bf = -2
    BY <1>2, <1>6
  <2>3. Placed(h, RotateLeft(h, p).heap, f, used, t, p, RotateLeft(h, p).root, a)
    BY <2>1
  <2> HIDE DEF h
  <2>4. /\ f \in Heap
        /\ \A m \in Node : f[m].key = h[m].key /\ f[m].bf \in -1..1
        /\ RotateLeft(h, p).root \in used
        /\ Rearranged(f, d, used, Instead(t, p, RotateLeft(h, p).root), p)
    BY <2>1, <2>2, <2>3, <1>2, <1>4, LeftBalanced
  <2>5. \A m \in Node : f[m].key = node[m].key /\ f[m].bf \in -1..1
    BY <2>4, <1>2
  <2> QED BY <2>1, <2>4, <2>5
<1>7. CASE ~(h[p].bf > 1) /\ ~(h[p].bf < -1)
  <2>1. Rebalanced = [heap |-> h, root |-> p]
    BY <1>7 DEF Rebalanced
  <2>2. Rebalanced.heap = h /\ Rebalanced.root = p
    BY <2>1
  <2> HIDE DEF h
  <2>3. /\ f \in Heap
        /\ \A m \in Node : /\ f[m].left = h[m].left /\ f[m].right = h[m].right
                           /\ f[m].key = h[m].key /\ f[m].bf = h[m].bf
    <3>1. CASE t = p
      BY <3>1, <2>2, <1>2 DEF Placed
    <3>2. CASE t # p
      <4>1. a \in Node /\ p \in {h[a].left, h[a].right} /\ f = Relink(h, a, p, p)
        BY <3>2, <2>2, <1>1 DEF Placed, h
      <4>2. /\ f \in Heap /\ \A m \in Node \ {a} : f[m] = h[m]
            /\ f[a].key = h[a].key /\ f[a].bf = h[a].bf
            /\ h[a].left = p => f[a].left = p /\ f[a].right = h[a].right
            /\ h[a].left # p => f[a].right = p /\ f[a].left = h[a].left
        BY <4>1, <1>1, <1>2, RelinkFacts
      <4> QED BY <4>1, <4>2
    <3> QED BY <3>1, <3>2
  <2>4. HeapTree(f, {}, d, used, t)
    BY <2>3, <1>2, <1>4, SameHeap
  <2>5. Instead(t, p, p) = t
    BY DEF Instead
  <2>6. Tree(Lefts(node), Rights(node, {}), Keys(node), d, used, t)
    BY DEF HeapTree
  <2>7. Inside(d, d, used, p)
    <3>1. \A m \in used : m \in d[p] => d[m] \subseteq d[p]
      BY <2>6, TreeFacts
    <3> QED BY <3>1 DEF Inside
  <2>8. d \in [Pointer -> SUBSET Node]
    BY <2>6 DEF Tree
  <2>9. Rearranged(f, d, used, t, p)
    BY <2>4, <2>7, <2>8 DEF Rearranged
  <2>10. \A m \in Node : h[m].bf \in -1..1
    <3>1. h[p].bf \in -1..1
      BY <1>2, <1>7
    <3> QED BY <3>1, <1>2
  <2>11. \A m \in Node : f[m].key = node[m].key /\ f[m].bf \in -1..1
    BY <2>3, <2>10, <1>2
  <2> QED BY <2>2, <2>3, <2>5, <2>9, <2>11
<1> QED BY <1>5, <1>6, <1>7

\* Nothing above x changes when only what is below x does.
LEMMA InsideUpward ==
    ASSUME NEW l, NEW r, NEW k, NEW d, NEW U, NEW root, Tree(l, r, k, d, U, root),
           NEW x \in U, NEW a \in U, x \in d[a], x # a, NEW d2, Inside(d, d2, U, x)
    PROVE  /\ Upward(d2, U, a) = Upward(d, U, a)
           /\ \A m \in Upward(d, U, a) : d2[m] = d[m]
<1>1. a \notin d[x]
  BY BelowAntisymmetric
<1>2. \A b, m \in U : b \in d[m] => d[b] \subseteq d[m]
  BY TreeFacts
<1>3. \A m \in U : m \in d[x] => d2[m] \subseteq d[x]
  BY DEF Inside
<1>4. \A m \in U : m \notin d[x] => d2[m] = d[m]
  BY DEF Inside
<1>5. \A m \in U : m \in d[x] => a \notin d[m] /\ a \notin d2[m]
  BY <1>1, <1>2, <1>3
<1> QED BY <1>4, <1>5 DEF Upward

\* The stack of insert and delete is the way to p, which is what is left to do.
LEMMA UpdateKeeps ==
    ASSUME IInv, Update
    PROVE  IInv' /\ \A m \in Node : node'[m].key = node[m].key
<1>1. CASE UpdateCrashes
  <2>1. Crash
    BY <1>1 DEF Update
  <2>2. node' = node
    BY <2>1 DEF Crash
  <2> QED BY <2>1, <2>2, CrashKeeps
<1>2. CASE ~UpdateCrashes
  <2> DEFINE above == Last(s)
             h == Rebalanced.heap
             e == Rebalanced.root
  <2>1. /\ pc = "update" /\ UNCHANGED used /\ UNCHANGED answer
        /\ s = <<>> => node' = h /\ t' = e /\ Done
        /\ s # <<>> => /\ node' = Relink(h, above, p, e) /\ t' = t
                       /\ \/ Done
                          \/ /\ p' = above /\ s' = Front(s)
                             /\ UNCHANGED <<pc, op, arg, s2, out>> /\ q' = p
    BY <1>2 DEF Update, Relink
  <2>2. TypeOK /\ Control /\ s \in Seq(Pointer) /\ op \in {"insert", "delete"}
    BY <2>1 DEF IInv, TypeOK, Control
  <2>3. PICK d \in [Pointer -> SUBSET Node] : Shape(d, {})
    BY <2>1, ShapeOf DEF Threaded
  <2>4. HeapTree(node, {}, d, used, t) /\ GoingBack(d)
    BY <2>3 DEF Shape
  <2>5. p \in used /\ Way(d, s, Upward(d, used, p) \ {p})
    BY <2>1, <2>4 DEF GoingBack
  <2>6. /\ used \subseteq Node /\ NULL \in Pointer /\ p \in Node /\ p \in Pointer
    BY <2>2, <2>5, NodeTypes
  <2> DEFINE l == Lefts(node)
             r == Rights(node, {})
             k == Keys(node)
  <2>7. Tree(l, r, k, d, used, t)
    BY <2>4 DEF HeapTree
  <2>8. \A m \in Node : l[m] = node[m].left /\ r[m] = node[m].right
    BY DEF Lefts, Rights
  <2> HIDE DEF l, r, k
  <2>9. s # <<>> => /\ above \in used /\ above # p /\ p # t /\ above \in Node
                    /\ p = node[above].left \/ p = node[above].right
                    /\ p \in d[above]
                    /\ Way(d, Front(s), Upward(d, used, above) \ {above})
    <3> SUFFICES ASSUME s # <<>>
                 PROVE  /\ above \in used /\ above # p /\ p # t /\ above \in Node
                        /\ p = node[above].left \/ p = node[above].right
                        /\ p \in d[above]
                        /\ Way(d, Front(s), Upward(d, used, above) \ {above})
      OBVIOUS
    <3>1. /\ above \in used /\ above # p /\ p # t
          /\ p = l[above] \/ p = r[above]
          /\ Way(d, Front(s), Upward(d, used, above) \ {above})
      BY <2>2, <2>5, <2>7, LastAbove
    <3> HIDE DEF above
    <3>2. p \in d[above]
      BY <3>1, <2>5, <2>7, AboveChild
    <3> QED BY <3>1, <3>2, <2>6, <2>8
  <2>10. s = <<>> => p = t
    <3>1. s = <<>> => Upward(d, used, p) \ {p} = {}
      BY <2>2, <2>5, WayOfNone
    <3>2. p \in Upward(d, used, p)
      BY <2>2, <2>4, <2>5, HeapFacts DEF Upward
    <3>3. s = <<>> => Upward(d, used, p) = {p}
      BY <3>1, <3>2
    <3> QED BY <3>3, <2>5, <2>7, UpwardRoot
  <2> HIDE DEF above
  <2>11. PICK f : f = node'
    OBVIOUS
  <2>12. Placed(Counted, h, f, used, t, p, e, above)
    <3>1. \A m \in Node : Counted[m].left = node[m].left /\ Counted[m].right = node[m].right
      BY <2>2, <2>6, CountedFacts
    <3>2. CASE s = <<>>
      BY <3>2, <2>1, <2>10, <2>11 DEF Placed
    <3>3. CASE s # <<>>
      BY <3>1, <3>3, <2>1, <2>9, <2>11 DEF Placed
    <3> QED BY <3>2, <3>3
  <2>13. /\ f \in Heap
         /\ \A m \in Node : f[m].key = node[m].key /\ f[m].bf \in -1..1
         /\ e \in used
         /\ Rearranged(f, d, used, Instead(t, p, e), p)
    BY <1>2, <2>2, <2>4, <2>5, <2>12, TurnOfTheWayBack
  <2> HIDE DEF e, h
  <2>14. PICK d2 \in [Pointer -> SUBSET Node] :
            HeapTree(f, {}, d2, used, Instead(t, p, e)) /\ Inside(d, d2, used, p)
    BY <2>13 DEF Rearranged
  <2>15. t' = Instead(t, p, e)
    BY <2>1, <2>9, <2>10 DEF Instead
  <2>16. HeapTree(node', {}, d2, used', t')
    BY <2>1, <2>11, <2>14, <2>15
  <2>17. /\ node' \in [Node -> [key : Key, bf : -1..1, left : Pointer, right : Pointer]]
         /\ used' \subseteq Node /\ t' \in Pointer /\ answer' \in BOOLEAN
    <3>1. f \in [Node -> [key : Key, bf : -1..1, left : Pointer, right : Pointer]]
      <4>1. f = [m \in Node |-> f[m]]
        BY <2>13 DEF Heap
      <4>2. \A m \in Node : f[m] \in [key : Key, bf : -1..1, left : Pointer, right : Pointer]
        BY <2>13 DEF Heap
      <4> QED BY <4>1, <4>2
    <3>2. e \in Pointer
      BY <2>6, <2>13, NodeTypes, <2>2
    <3> QED BY <3>1, <3>2, <2>1, <2>2, <2>6, <2>11, <2>15 DEF TypeOK, Instead
  <2>18. CASE Done
    <3>1. TypeOK'
      BY <2>18, <2>17, <2>6 DEF TypeOK, Done
    <3> QED BY <2>18, <3>1, <2>2, <2>11, <2>13, <2>16, DoneKeeps
  <2>19. CASE ~Done
    <3>1. /\ s # <<>> /\ p' = above /\ s' = Front(s) /\ q' = p
          /\ UNCHANGED <<pc, op, arg, s2, out>>
      BY <2>1, <2>19
    <3>2. above \in Pointer
      BY <3>1, <2>2, <2>9, NodeTypes
    <3>3. s' \in Seq(Pointer)
      BY <3>1, <2>2, PopFacts
    <3>4. TypeOK'
      BY <3>1, <3>2, <3>3, <2>2, <2>6, <2>17 DEF TypeOK
    <3>5. Control'
      BY <3>1, <2>1, <2>2 DEF Control
    <3>6. Way(d2, s', Upward(d2, used', p') \ {p'})
      <4>1. /\ Upward(d2, used, above) = Upward(d, used, above)
            /\ \A m \in Upward(d, used, above) : d2[m] = d[m]
        BY <3>1, <2>5, <2>7, <2>9, <2>14, InsideUpward
      <4>2. Way(d, Front(s), Upward(d, used, above) \ {above})
        BY <3>1, <2>9
      <4>3. Way(d2, Front(s), Upward(d, used, above) \ {above})
        BY <4>1, <4>2, WayKept
      <4> QED BY <4>1, <4>3, <3>1, <2>1
    <3>7. GoingBack(d2)'
      BY <3>1, <3>6, <2>1, <2>9 DEF GoingBack
    <3>8. Searching(d2)' /\ Replacing(d2)' /\ ~Threaded'
      BY <3>1, <2>1 DEF Searching, Replacing, Threaded
    <3> QED BY <3>4, <3>5, <3>7, <3>8, <2>11, <2>13, <2>16, ShapeGives
  <2> QED BY <2>18, <2>19
<1> QED BY <1>1, <1>2

-----------------------------------------------------------------------------
(* The traversals that hang threads.                                       *)

\* What has x on its left has the child of x on its left, unless it is x.
LEMMA OnTheLeft ==
    ASSUME NEW l, NEW r, NEW k, NEW d, NEW U, NEW root, Tree(l, r, k, d, U, root),
           NEW a \in U, NEW x \in U, NEW b \in U, x \in d[l[a]], x \in d[b], b \in d[a], b # a
    PROVE  b \in d[l[a]]
<1>1. /\ \A m \in U : k[m] \in Int /\ m \in d[m]
      /\ \A e, m \in U : e \in d[l[m]] <=> e \in d[m] /\ k[e] < k[m]
  BY TreeFacts
<1>2. k[x] < k[a]
  BY <1>1
<1>3. ~(k[b] > k[a])
  <2>1. k[b] > k[a] => k[x] > k[a]
    BY SameSide
  <2> QED BY <2>1, <1>1, <1>2
<1>4. k[b] < k[a]
  BY <1>3, SameSide
<1> QED BY <1>1, <1>4

\* x follows its thread: it was the rightmost node on the left of the next one.
LEMMA FollowThread ==
    ASSUME NEW l, NEW r, NEW k, NEW d, NEW U, NEW root, Tree(l, r, k, d, U, root),
           NEW g, NEW H \in SUBSET U, NEW x \in H, Hung(l, g, k, d, U, H, x),
           \A m \in H : g[m] # x
    PROVE  g[x] \in U /\ Hung(l, g, k, d, U, H, g[x])
<1> DEFINE y == g[x]
<1>1. /\ \A m \in U : k[m] \in Int /\ m \in d[m] /\ d[m] \subseteq U
      /\ \A e, m \in U : e \in d[l[m]] <=> e \in d[m] /\ k[e] < k[m]
      /\ \A b, m \in U : b \in d[m] => d[b] \subseteq d[m]
  BY TreeFacts
<1>2. x \in U /\ y \in U /\ x \in d[l[y]] /\ \A b \in d[l[y]] : k[b] <= k[x]
  BY DEF Hung
<1>3. \A m \in H : /\ g[m] \in U /\ m \in d[l[g[m]]]
                   /\ \A b \in d[l[g[m]]] : k[b] <= k[m]
                   /\ x \in d[l[g[m]]]
  BY DEF Hung
<1>4. \A a \in U : x \in d[l[a]] => \E m \in H : g[m] = a
  BY DEF Hung
<1> HIDE DEF y
<1>5. ASSUME NEW m \in H PROVE y = g[m] \/ y \in d[l[g[m]]]
  <2> DEFINE b == g[m]
  <2>1. b \in U /\ x \in d[l[b]]
    BY <1>3
  <2> HIDE DEF b
  <2>2. x \in d[b] /\ x \in d[y] /\ k[x] < k[b] /\ k[x] < k[y]
    BY <2>1, <1>1, <1>2
  <2>3. CASE y \in d[b] /\ y # b
    <3>1. y \in d[l[b]]
      BY <2>1, <2>2, <2>3, <1>2, OnTheLeft
    <3> QED BY <3>1 DEF b
  <2>4. CASE b \in d[y] /\ b # y
    <3>1. b \in d[l[y]]
      BY <2>1, <2>2, <2>4, <1>2, OnTheLeft
    <3>2. k[b] <= k[x]
      BY <3>1, <1>2
    <3> QED BY <3>2, <2>1, <2>2, <1>1, <1>2
  <2>5. y \in d[b] \/ b \in d[y]
    BY <2>1, <2>2, <1>2, Nested
  <2> QED BY <2>3, <2>4, <2>5 DEF b
<1>6. ASSUME NEW a \in U, y \in d[l[a]] PROVE \E m \in H : g[m] = a
  <2>1. x \in d[y]
    BY <1>1, <1>2
  <2>2. y \in d[a] /\ k[y] < k[a]
    BY <1>1, <1>2, <1>6
  <2>3. x \in d[a]
    BY <2>1, <2>2, <1>1, <1>2
  <2>4. k[x] < k[y]
    BY <1>1, <1>2
  <2>5. k[x] < k[a]
    BY <2>2, <2>4, <1>1, <1>2
  <2>6. x \in d[l[a]]
    BY <2>3, <2>5, <1>1, <1>2
  <2> QED BY <2>6, <1>4
<1>7. Hung(l, g, k, d, U, H, y)
  BY <1>3, <1>5, <1>6 DEF Hung
<1> QED BY <1>2, <1>7 DEF y

\* x goes to its right child.
LEMMA FollowRight ==
    ASSUME NEW l, NEW r, NEW k, NEW d, NEW U, NEW root, Tree(l, r, k, d, U, root),
           NEW g, NEW H \in SUBSET U, NEW x \in U, Hung(l, g, k, d, U, H, x),
           \A m \in H : g[m] # x, r[x] # NULL
    PROVE  r[x] \in U /\ Hung(l, g, k, d, U, H, r[x])
<1> DEFINE y == r[x]
<1>1. /\ \A m \in U : k[m] \in Int /\ m \in d[m] /\ d[m] \subseteq U
      /\ \A e, m \in U : e \in d[l[m]] <=> e \in d[m] /\ k[e] < k[m]
      /\ \A e, m \in U : e \in d[r[m]] <=> e \in d[m] /\ k[e] > k[m]
      /\ \A b, m \in U : b \in d[m] => d[b] \subseteq d[m]
      /\ y \in U /\ d[NULL] = {}
      /\ \A m \in U : l[m] \in U \cup {NULL}
  BY TreeFacts
<1>2. \A m \in H : /\ g[m] \in U /\ m \in d[l[g[m]]]
                   /\ \A b \in d[l[g[m]]] : k[b] <= k[m]
                   /\ x \in d[l[g[m]]]
  BY DEF Hung
<1>3. \A a \in U : x \in d[l[a]] => \E m \in H : g[m] = a
  BY DEF Hung
<1>4. /\ y \in d[x] /\ k[y] > k[x]
      /\ \A m \in U : y \in d[m] /\ m # y => x \in d[m]
  <2>1. y \in d[y]
    BY <1>1
  <2> QED BY <2>1, <1>1, AboveChild
<1> HIDE DEF y
<1>5. ASSUME NEW m \in H PROVE y \in d[l[g[m]]]
  <2>1. l[g[m]] \in U
    BY <1>1, <1>2
  <2> QED BY <2>1, <1>1, <1>2, <1>4
<1>6. ASSUME NEW a \in U, y \in d[l[a]] PROVE \E m \in H : g[m] = a
  <2>1. y \in d[a] /\ k[y] < k[a]
    BY <1>1, <1>6
  <2>2. x \in d[a]
    BY <2>1, <1>1, <1>4
  <2>3. k[x] < k[a]
    BY <2>1, <1>1, <1>4
  <2>4. x \in d[l[a]]
    BY <2>2, <2>3, <1>1
  <2> QED BY <2>4, <1>3
<1>7. Hung(l, g, k, d, U, H, y)
  BY <1>2, <1>5, <1>6 DEF Hung
<1> QED BY <1>1, <1>7 DEF y

\* x has nothing on its right and no thread: the traversal ends.
LEMMA FollowNothing ==
    ASSUME NEW l, NEW r, NEW k, NEW d, NEW U, NEW root, Tree(l, r, k, d, U, root),
           NEW g, NEW H \in SUBSET U, NEW x \in U \ H, Hung(l, g, k, d, U, H, x),
           \A m \in H : g[m] # x, r[x] = NULL
    PROVE  H = {} /\ Hung(l, g, k, d, U, H, NULL)
<1>1. /\ \A m \in U : k[m] \in Int /\ m \in d[m] /\ d[m] \subseteq U
      /\ \A e, m \in U : e \in d[l[m]] <=> e \in d[m] /\ k[e] < k[m]
      /\ \A e, m \in U : e \in d[r[m]] <=> e \in d[m] /\ k[e] > k[m]
      /\ \A b, m \in U : b \in d[m] => d[b] \subseteq d[m]
      /\ NULL \notin U /\ d[NULL] = {}
      /\ \A m \in U : l[m] \in U \cup {NULL}
  BY TreeFacts
<1>2. \A m \in H : /\ g[m] \in U /\ m \in d[l[g[m]]]
                   /\ \A b \in d[l[g[m]]] : k[b] <= k[m]
                   /\ x \in d[l[g[m]]]
  BY DEF Hung
<1>3. \A a \in U : x \in d[l[a]] => \E m \in H : g[m] = a
  BY DEF Hung
<1> DEFINE S == {a \in U : x \in d[l[a]]}
<1>4. ASSUME H # {} PROVE FALSE
  <2>1. S \in SUBSET U /\ S # {}
    BY <1>2, <1>4
  <2>2. PICK a \in S : \A b \in S : b \in d[a] => b = a
    <3> HIDE DEF S
    <3> QED BY <2>1, SomeLowest
  <2>3. a \in U /\ x \in d[l[a]]
    BY <2>2
  <2>4. PICK m \in H : g[m] = a
    BY <2>3, <1>3
  <2>5. m \in U /\ m \in d[l[a]] /\ k[x] <= k[m] /\ m # x
    BY <2>3, <2>4, <1>2
  <2>6. PICK e \in U : k[x] <= k[e] /\ k[e] <= k[m] /\ x \in d[e] /\ m \in d[e]
    BY <2>5 DEF Tree, Joined
  <2>7. k[x] # k[m]
    BY <2>5, KeysDiffer
  <2>8. e # x
    <3>1. m \notin d[x]
      <4>1. m \in d[x] => m \in d[r[x]]
        BY <2>5, <2>7, <1>1
      <4> QED BY <4>1, <1>1
    <3> QED BY <3>1, <2>6
  <2>9. k[x] < k[e]
    <3>1. k[x] # k[e]
      BY <2>6, <2>8, KeysDiffer
    <3>2. k[x] \in Int /\ k[e] \in Int /\ k[x] <= k[e]
      BY <2>6, <1>1
    <3> QED BY <3>1, <3>2
  <2>10. x \in d[l[e]]
    BY <2>6, <2>9, <1>1
  <2>11. k[m] < k[a]
    BY <2>3, <2>5, <1>1
  <2>12. k[e] < k[a] /\ e # a
    BY <2>6, <2>11, <2>3, <2>5, <1>1
  <2>13. e \in d[a]
    <3>1. x \in d[a]
      BY <2>3, <1>1
    <3>2. CASE a \in d[e]
      <4>1. k[a] < k[e] \/ k[a] > k[e]
        BY <2>12, <2>3, <2>6, <1>1
      <4>2. k[a] > k[e]
        BY <2>12, <2>3, <2>6, <1>1
      <4>3. k[x] > k[e]
        BY <3>1, <3>2, <4>2, <2>3, <2>12, SameSide
      <4> QED BY <4>3, <2>9, <1>1
    <3> QED BY <3>1, <3>2, <2>3, <2>6, Nested
  <2> QED BY <2>2, <2>10, <2>12, <2>13
<1>5. H = {}
  BY <1>4
<1>6. \A a \in U : NULL \notin d[l[a]]
  BY <1>1
<1> QED BY <1>5, <1>6 DEF Hung

\* At a node without threads to it the traversal may go right: the next node
\* in order has the threads it needs.
LEMMA NextRight ==
    ASSUME NEW l, NEW r, NEW k, NEW d, NEW U, NEW root, Tree(l, r, k, d, U, root),
           NEW g, NEW H \in SUBSET U, \A m \in U \ H : r[m] = g[m],
           NEW x \in U, Hung(l, g, k, d, U, H, x), \A m \in H : g[m] # x
    PROVE  g[x] \in U \cup {NULL} /\ Hung(l, g, k, d, U, H, g[x])
<1>1. CASE x \in H
  BY <1>1, FollowThread
<1>2. CASE x \notin H /\ r[x] # NULL
  <2>1. r[x] \in U /\ Hung(l, g, k, d, U, H, r[x])
    BY <1>2, FollowRight
  <2> QED BY <1>2, <2>1
<1>3. CASE x \notin H /\ r[x] = NULL
  <2>1. Hung(l, g, k, d, U, H, NULL)
    BY <1>3, FollowNothing
  <2> QED BY <1>3, <2>1
<1> QED BY <1>1, <1>2, <1>3

\* y is the predecessor of x, and has the largest key on its left.
LastOnTheLeft(l, k, d, x, y) ==
    y \in d[l[x]] /\ \A m \in d[l[x]] : m \in d[y] \/ k[m] < k[y]

\* The links g and h of U differ in y only.
SameBut(g, h, U, y) == \A m \in U \ {y} : h[m] = g[m]

\* The predecessor y of x gets a thread to x, and x goes to the left.
LEMMA ThreadHung ==
    ASSUME NEW l, NEW r, NEW k, NEW d, NEW U, NEW root, Tree(l, r, k, d, U, root),
           NEW g, NEW H \in SUBSET U, NEW x \in U, NEW y \in U \ H, r[y] = NULL,
           LastOnTheLeft(l, k, d, x, y), Hung(l, g, k, d, U, H, x),
           NEW h, h[y] = x, SameBut(g, h, U, y)
    PROVE  l[x] \in U /\ Hung(l, h, k, d, U, H \cup {y}, l[x])
<1> USE DEF SameBut, LastOnTheLeft
<1> DEFINE z == l[x]
<1>1. /\ \A m \in U : k[m] \in Int /\ m \in d[m] /\ d[m] \subseteq U
      /\ \A e, m \in U : e \in d[l[m]] <=> e \in d[m] /\ k[e] < k[m]
      /\ \A e, m \in U : e \in d[r[m]] <=> e \in d[m] /\ k[e] > k[m]
      /\ \A b, m \in U : b \in d[m] => d[b] \subseteq d[m]
      /\ d[NULL] = {} /\ \A m \in U : l[m] \in U \cup {NULL}
  BY TreeFacts
<1>2. \A m \in H : /\ g[m] \in U /\ m \in d[l[g[m]]]
                   /\ \A b \in d[l[g[m]]] : k[b] <= k[m]
                   /\ x = g[m] \/ x \in d[l[g[m]]]
  BY DEF Hung
<1>3. \A a \in U : x \in d[l[a]] => \E m \in H : g[m] = a
  BY DEF Hung
<1>4. z \in U
  BY <1>1
<1>5. /\ z \in d[x] /\ z # x /\ z \in d[z] /\ k[z] < k[x]
      /\ \A m \in U : z \in d[m] /\ m # z => x \in d[m]
  <2>1. z \in d[x] /\ z # x /\ z \in d[z] /\ \A m \in U : z \in d[m] /\ m # z => x \in d[m]
    BY <1>1, <1>4, AboveChild
  <2>2. k[z] < k[x]
    BY <2>1, <1>1, <1>4
  <2> QED BY <2>1, <2>2
<1>6. \A b \in d[z] : k[b] <= k[y]
  <2> SUFFICES ASSUME NEW b \in d[z] PROVE k[b] <= k[y]
    OBVIOUS
  <2>1. b \in U
    BY <1>1, <1>4
  <2>2. b \in d[y] \/ k[b] < k[y]
    OBVIOUS
  <2>3. b \in d[y] => ~(k[b] > k[y])
    BY <2>1, <1>1
  <2> QED BY <2>1, <2>2, <2>3, <1>1
<1> HIDE DEF z
<1>7. ASSUME NEW m \in H
      PROVE  /\ h[m] \in U /\ m \in d[l[h[m]]]
             /\ \A b \in d[l[h[m]]] : k[b] <= k[m]
             /\ z = h[m] \/ z \in d[l[h[m]]]
  <2>1. h[m] = g[m]
    OBVIOUS
  <2>2. x = g[m] => z \in d[l[g[m]]]
    BY <1>5 DEF z
  <2>3. x \in d[l[g[m]]] => z \in d[l[g[m]]]
    <3>1. l[g[m]] \in U
      BY <1>1, <1>2
    <3> QED BY <3>1, <1>1, <1>5
  <2> QED BY <2>1, <2>2, <2>3, <1>2
<1>8. /\ h[y] \in U /\ y \in d[l[h[y]]]
      /\ \A b \in d[l[h[y]]] : k[b] <= k[y]
      /\ z \in d[l[h[y]]]
  BY <1>5, <1>6 DEF z
<1>9. ASSUME NEW a \in U, z \in d[l[a]] PROVE \E m \in H \cup {y} : h[m] = a
  <2>1. CASE a = x
    BY <2>1
  <2>2. CASE a # x
    <3>1. z \in d[a] /\ k[z] < k[a]
      BY <1>1, <1>4, <1>9
    <3>2. x \in d[a]
      BY <3>1, <1>1, <1>4, <1>5
    <3>3. ~(k[x] > k[a])
      <4>1. k[x] > k[a] => k[z] > k[a]
        BY <2>2, <3>2, <1>5, SameSide
      <4> QED BY <3>1, <4>1, <1>1, <1>4
    <3>4. k[x] < k[a]
      BY <2>2, <3>2, <3>3, SameSide
    <3>5. x \in d[l[a]]
      BY <3>2, <3>4, <1>1
    <3>6. PICK m \in H : g[m] = a
      BY <3>5, <1>3
    <3>7. h[m] = a
      BY <3>6
    <3> QED BY <3>7
  <2> QED BY <2>1, <2>2
<1>10. Hung(l, h, k, d, U, H \cup {y}, z)
  <2>1. \A m \in H \cup {y} : /\ h[m] \in U /\ m \in d[l[h[m]]]
                              /\ \A b \in d[l[h[m]]] : k[b] <= k[m]
                              /\ z = h[m] \/ z \in d[l[h[m]]]
    BY <1>7, <1>8
  <2> QED BY <2>1, <1>9 DEF Hung
<1> QED BY <1>4, <1>10 DEF z

\* The thread to x from its predecessor y is cut.
LEMMA ThreadCut ==
    ASSUME NEW l, NEW r, NEW k, NEW d, NEW U, NEW root, Tree(l, r, k, d, U, root),
           NEW g, NEW H \in SUBSET U, NEW x \in U, NEW y \in H, g[y] = x,
           Hung(l, g, k, d, U, H, x),
           NEW h, SameBut(g, h, U, y)
    PROVE  /\ Hung(l, h, k, d, U, H \ {y}, x)
           /\ \A m \in H \ {y} : h[m] # x
<1> USE DEF SameBut
<1>1. /\ \A m \in U : k[m] \in Int
      /\ \A e, m \in U : e \in d[l[m]] <=> e \in d[m] /\ k[e] < k[m]
  BY TreeFacts
<1>2. \A m \in H : /\ g[m] \in U /\ m \in d[l[g[m]]]
                   /\ \A b \in d[l[g[m]]] : k[b] <= k[m]
                   /\ x = g[m] \/ x \in d[l[g[m]]]
  BY DEF Hung
<1>3. \A a \in U : x \in d[l[a]] => \E m \in H : g[m] = a
  BY DEF Hung
<1>4. \A m \in H \ {y} : m \in H /\ h[m] = g[m]
  OBVIOUS
<1>5. ASSUME NEW m \in H \ {y}, g[m] = x PROVE FALSE
  <2>1. k[m] <= k[y] /\ k[y] <= k[m]
    BY <1>2, <1>5
  <2>2. k[m] = k[y]
    BY <2>1, <1>1
  <2> QED BY <2>2, KeysDiffer
<1>6. ASSUME NEW a \in U, x \in d[l[a]] PROVE \E m \in H \ {y} : h[m] = a
  <2>1. PICK m \in H : g[m] = a
    BY <1>3, <1>6
  <2>2. a # x
    BY <1>1, <1>6
  <2> QED BY <2>1, <2>2, <1>4
<1>7. \A m \in H \ {y} : /\ h[m] \in U /\ m \in d[l[h[m]]]
                         /\ \A b \in d[l[h[m]]] : k[b] <= k[m]
                         /\ x = h[m] \/ x \in d[l[h[m]]]
  BY <1>2, <1>4
<1>8. \A m \in H \ {y} : h[m] # x
  BY <1>4, <1>5
<1>9. Hung(l, h, k, d, U, H \ {y}, x)
  BY <1>6, <1>7 DEF Hung
<1> QED BY <1>8, <1>9

\* At the root nothing is hung.
LEMMA NothingHung ==
    ASSUME NEW l, NEW r, NEW k, NEW d, NEW U, NEW root, Tree(l, r, k, d, U, root), NEW g
    PROVE  Hung(l, g, k, d, U, {}, root)
<1>1. /\ root \in U \cup {NULL} /\ d[root] = U /\ NULL \notin U /\ d[NULL] = {}
      /\ \A m \in U : k[m] \in Int /\ d[m] \subseteq U
      /\ \A e, m \in U : e \in d[l[m]] <=> e \in d[m] /\ k[e] < k[m]
      /\ \A m \in U : l[m] \in U \cup {NULL}
  BY TreeFacts
<1>2. ASSUME NEW a \in U, root \in d[l[a]] PROVE FALSE
  <2>1. root \in U
    BY <1>1, <1>2
  <2>2. root \in d[a] /\ k[root] < k[a]
    BY <2>1, <1>1, <1>2
  <2>3. a \in d[root]
    BY <1>1
  <2>4. a = root
    BY <2>1, <2>2, <2>3, BelowAntisymmetric
  <2> QED BY <2>2, <2>4, <1>1
<1> QED BY <1>2 DEF Hung

\* The shape of the heap from its parts, in a traversal.
LEMMA ThreadedShape ==
    ASSUME pc' \in {"visit", "seek"}, NEW d, NEW H,
           HeapTree(node', H, d, used', t'), Threads(d, H)'
    PROVE  Shape(d, H)'
<1>1. Searching(d)' /\ Replacing(d)' /\ GoingBack(d)'
  BY DEF Searching, Replacing, GoingBack
<1> QED BY <1>1 DEF Shape

\* The invariant from its parts.
LEMMA ThreadedGives ==
    ASSUME TypeOK', Control', pc' \in {"visit", "seek"},
           NEW d \in [Pointer -> SUBSET Node], NEW H \in SUBSET Node, Shape(d, H)'
    PROVE  IInv'
BY Zenon DEF IInv

LEMMA SingleType == \A S : \A x \in S : <<x>> \in Seq(S) /\ <<>> \in Seq(S)
OBVIOUS

\* The shape of the heap when a traversal begins: no thread is hung yet.
LEMMA TraverseShape ==
    ASSUME IInv, NEW mode \in Order, Traverse(mode),
           NEW d \in [Pointer -> SUBSET Node], Shape(d, {})
    PROVE  Shape(d, {})'
<1>1. /\ pc = "idle" /\ op' = mode /\ pc' = "visit"
      /\ mode \in Morris => p' = t
      /\ UNCHANGED <<node, used, t, arg, q, s2, out, answer>>
  BY DEF Traverse, Morris
<1>2. TypeOK
  BY DEF IInv
<1>3. CASE mode \notin Morris
  BY <1>1, <1>3, OtherShape
<1>4. CASE mode \in Morris
  <2>1. HeapTree(node, {}, d, used, t)
    BY DEF Shape
  <2>2. Hung(Lefts(node), Rights(node, {}), Keys(node), d, used, {}, t)
    BY <2>1, NothingHung DEF HeapTree
  <2>3. p' = t
    BY <1>1, <1>4
  <2>4. Hung(Lefts(node), Rights(node, {}), Keys(node), d, used, {}, p)'
    BY <2>2, <2>3, <1>1
  <2>5. p' \in used' \cup {NULL}
    BY <2>1, <2>3, <1>1, <1>2, HeapFacts
  <2>6. Threads(d, {})'
    BY <2>4, <2>5, <1>1 DEF Threads
  <2>7. HeapTree(node', {}, d, used', t')
    BY <2>1, <1>1
  <2> QED BY <2>6, <2>7, <1>1, ThreadedShape
<1> QED BY <1>3, <1>4

\* A traversal begins without threads, or has hung none yet.
LEMMA TraverseKeeps ==
    ASSUME IInv, NEW mode \in Order, Traverse(mode)
    PROVE  IInv'
<1>1. /\ pc = "idle" /\ op' = mode /\ pc' = "visit"
      /\ \/ /\ mode \in {"preorder", "levelorder"} /\ p' = NULL
            /\ s' = IF mode = "levelorder" /\ t = NULL THEN <<>> ELSE <<t>>
         \/ mode \notin {"preorder", "levelorder"} /\ p' = t /\ s' = s
      /\ UNCHANGED <<node, used, t, arg, q, s2, out, answer>>
  BY DEF Traverse
<1>2. TypeOK /\ Control /\ s = <<>> /\ s2 = <<>>
  BY <1>1 DEF IInv, Control
<1>3. t \in Pointer /\ NULL \in Pointer
  BY <1>2, NodeTypes
<1>4. TypeOK'
  <2>1. <<t>> \in Seq(Pointer) /\ <<>> \in Seq(Pointer)
    BY <1>3, SingleType
  <2>2. s' \in {<<t>>, <<>>} /\ p' \in Pointer
    BY <1>1, <1>2, <1>3
  <2>3. s' \in Seq(Pointer)
    BY <2>1, <2>2
  <2> QED BY <2>2, <2>3, <1>1, <1>2 DEF TypeOK
<1>5. Control'
  <2>1. mode # "preorder" => s' \in Seq(Node)
    <3>1. t # NULL => <<t>> \in Seq(Node)
      <4>1. t # NULL => t \in Node
        BY <1>3 DEF Pointer
      <4> QED BY <4>1, SingleType
    <3>2. CASE mode = "levelorder" /\ t # NULL
      <4>1. s' = <<t>>
        BY <3>2, <1>1
      <4> QED BY <3>1, <3>2, <4>1
    <3>3. CASE ~(mode = "levelorder" /\ t # NULL)
      <4>1. mode # "preorder" => s' = <<>>
        BY <3>3, <1>1, <1>2
      <4>2. <<>> \in Seq(Node)
        OBVIOUS
      <4> QED BY <4>1, <4>2
    <3> QED BY <3>2, <3>3
  <2>2. mode \in Morris => s' = <<>>
    BY <1>1, <1>2 DEF Morris
  <2>3. s2' \in Seq(Node)
    BY <1>1, <1>2
  <2>4. pc' = "visit" /\ op' = mode /\ arg' = NULL
    BY <1>1, <1>2 DEF Control
  <2> QED BY <2>1, <2>2, <2>3, <2>4 DEF Control
<1>6. PICK d \in [Pointer -> SUBSET Node] : Shape(d, {})
  BY <1>1, ShapeOf DEF Threaded
<1>7. Shape(d, {})'
  BY <1>6, TraverseShape
<1>8. {} \in SUBSET Node /\ pc' = "visit"
  BY <1>1
<1> QED BY <1>4, <1>5, <1>7, <1>8, ThreadedGives

\* What is known in the middle of a traversal that hangs threads.
Middle(d, H) ==
    /\ Tree(Lefts(node), Rights(node, H), Keys(node), d, used, t)
    /\ H \subseteq used /\ p \in used \cup {NULL}
    /\ Hung(Lefts(node), Rights(node, {}), Keys(node), d, used, H, p)
    /\ pc = "seek" => q \in used /\ Rightmost(d, p, q)

LEMMA InTheMiddle ==
    ASSUME Threaded, NEW d, NEW H, Shape(d, H)
    PROVE  Middle(d, H)
<1>1. Threads(d, H) /\ HeapTree(node, H, d, used, t)
  BY DEF Shape
<1> QED BY <1>1 DEF Threads, HeapTree, Middle

\* A node without a left child: the traversal goes right, perhaps along a
\* thread.
LEMMA MorrisStepShape ==
    ASSUME IInv, MorrisStep, NEW d \in [Pointer -> SUBSET Node], NEW H \in SUBSET Node,
           Shape(d, H)
    PROVE  TypeOK' /\ Control' /\ pc' \in {"visit", "seek"} /\ Shape(d, H)'
<1>1. /\ pc = "visit" /\ op \in Morris /\ p # NULL
      /\ \/ node[p].left = NULL /\ PrintNode(p) /\ p' = node[p].right /\ q' = q /\ pc' = pc
         \/ node[p].left # NULL /\ q' = node[p].left /\ pc' = "seek" /\ p' = p /\ out' = out
      /\ UNCHANGED <<node, used, t, op, arg, s, s2, answer>>
  BY DEF MorrisStep, Traverses
<1>2. TypeOK /\ Control
  BY DEF IInv
<1> DEFINE l == Lefts(node)
           g == Rights(node, {})
           k == Keys(node)
<1>3. /\ Tree(l, Rights(node, H), k, d, used, t)
      /\ H \subseteq used /\ p \in used \cup {NULL}
      /\ Hung(l, g, k, d, used, H, p)
  BY <1>1, InTheMiddle DEF Threaded, Middle
<1>4. /\ p \in used /\ p \in Node /\ node[p].left \in Pointer /\ node[p].right \in Pointer
      /\ node[p].key \in Key /\ used \subseteq Node
  BY <1>1, <1>2, <1>3, NodeTypes
<1>5. TypeOK'
  <2>1. p \in Pointer /\ q \in Pointer /\ out \in Seq(Key)
    BY <1>2 DEF TypeOK
  <2>2. p' \in Pointer /\ q' \in Pointer /\ pc' \in {"visit", "seek"}
    BY <2>1, <1>1, <1>4
  <2>3. out' \in Seq(Key)
    BY <2>1, <1>1, <1>4 DEF PrintNode
  <2> QED BY <2>2, <2>3, <1>1, <1>2 DEF TypeOK
<1>6. Control'
  BY <1>1, <1>2 DEF Control
<1>7. HeapTree(node', H, d, used', t')
  BY <1>1, <1>3 DEF HeapTree
<1>8. \A m \in Node : l[m] = node[m].left /\ g[m] = node[m].right
  BY DEF Lefts, Rights
<1>9. CASE node[p].left = NULL
  <2>1. p' = node[p].right /\ pc' = "visit"
    BY <1>1, <1>9
  <2>2. \A m \in used \ H : Rights(node, H)[m] = g[m]
    BY <1>4 DEF Rights
  <2> HIDE DEF l, g, k
  <2>3. \A m \in H : g[m] # p
    <3>1. \A m \in H : m \in d[l[g[m]]]
      BY <1>3 DEF Hung
    <3>2. d[NULL] = {} /\ l[p] = NULL
      BY <1>3, <1>4, <1>8, <1>9, TreeFacts
    <3> QED BY <3>1, <3>2
  <2>4. g[p] \in used \cup {NULL} /\ Hung(l, g, k, d, used, H, g[p])
    BY <2>2, <2>3, <1>3, <1>4, NextRight
  <2>5. p' = g[p]
    BY <2>1, <1>4, <1>8
  <2>6. Hung(Lefts(node), Rights(node, {}), Keys(node), d, used, H, p)'
    BY <2>4, <2>5, <1>1 DEF l, g, k
  <2>7. Threads(d, H)'
    BY <2>1, <2>4, <2>5, <2>6, <1>1, <1>3 DEF Threads, Threaded
  <2> QED BY <2>1, <2>7, <1>5, <1>6, <1>7, ThreadedShape
<1>10. CASE node[p].left # NULL
  <2>1. p' = p /\ q' = node[p].left /\ pc' = "seek"
    BY <1>1, <1>10
  <2>2. q' \in used /\ Rightmost(d, p, node[p].left)
    <3>1. \A m \in used : m \in d[m] /\ l[m] \in used \cup {NULL}
      BY <1>3, TreeFacts
    <3>2. node[p].left \in used
      BY <3>1, <1>4, <1>8, <1>10
    <3> QED BY <3>1, <3>2, <2>1 DEF Rightmost
  <2>3. Rightmost(d, p, q)'
    BY <2>1, <2>2, <1>1 DEF Rightmost
  <2>4. Hung(Lefts(node), Rights(node, {}), Keys(node), d, used, H, p)'
    BY <2>1, <1>1, <1>3
  <2>5. Threads(d, H)'
    BY <2>1, <2>2, <2>3, <2>4, <1>1, <1>3, <1>4 DEF Threads, Threaded
  <2> QED BY <2>1, <2>5, <1>5, <1>6, <1>7, ThreadedShape
<1> QED BY <1>9, <1>10

LEMMA MorrisStepKeeps == ASSUME IInv, MorrisStep PROVE IInv'
<1>1. pc \in {"visit", "seek"}
  BY DEF MorrisStep, Traverses
<1>2. PICK d \in [Pointer -> SUBSET Node], H \in SUBSET Node : Shape(d, H)
  BY <1>1 DEF IInv
<1>3. TypeOK' /\ Control' /\ pc' \in {"visit", "seek"} /\ Shape(d, H)'
  BY <1>2, MorrisStepShape
<1> QED BY <1>3, ThreadedGives

\* One turn of the search for the predecessor.
LEMMA MorrisSeekShape ==
    ASSUME IInv, MorrisSeek, NEW d \in [Pointer -> SUBSET Node], NEW H \in SUBSET Node,
           Shape(d, H)
    PROVE  TypeOK' /\ Control' /\ pc' \in {"visit", "seek"} /\ Shape(d, H)'
<1>1. /\ pc = "seek" /\ node[q].right # NULL /\ node[q].right # p
      /\ q' = node[q].right
      /\ UNCHANGED <<node, used, t, pc, op, arg, p, s, s2, out, answer>>
  BY DEF MorrisSeek
<1>2. TypeOK /\ Control /\ op \in Morris /\ p # NULL
  BY <1>1 DEF IInv, Control
<1>3. /\ Tree(Lefts(node), Rights(node, H), Keys(node), d, used, t)
      /\ H \subseteq used /\ p \in used \cup {NULL}
      /\ Hung(Lefts(node), Rights(node, {}), Keys(node), d, used, H, p)
      /\ q \in used /\ Rightmost(d, p, q)
  BY <1>1, <1>2, InTheMiddle DEF Threaded, Middle
<1>4. HeapTree(node, H, d, used, t)
  BY <1>3 DEF HeapTree
<1>5. p \in used /\ q \in Node /\ p \in Node /\ node[q].right \in Pointer /\ used \subseteq Node
  BY <1>2, <1>3, NodeTypes
<1>6. q \notin H
  <2> SUFFICES ASSUME q \in H PROVE FALSE
    OBVIOUS
  <2> DEFINE l == Lefts(node)
             g == Rights(node, {})
             k == Keys(node)
  <2>1. \A m \in Node : l[m] = node[m].left /\ g[m] = node[m].right /\ k[m] = node[m].key
    BY DEF Lefts, Rights, Keys
  <2>2. Tree(l, Rights(node, H), k, d, used, t) /\ Hung(l, g, k, d, used, H, p)
    BY <1>3
  <2> HIDE DEF l, g, k
  <2>3. \A b \in d[l[g[q]]] : k[b] <= k[q]
    BY <2>2 DEF Hung
  <2>4. p \in d[l[g[q]]]
    BY <2>1, <2>2, <1>1, <1>5 DEF Hung
  <2>5. q \in d[l[p]]
    BY <2>1, <1>3, <1>5 DEF Rightmost
  <2>6. k[q] < k[p] /\ k[q] \in Int /\ k[p] \in Int
    BY <2>2, <2>5, <1>3, <1>5, TreeFacts
  <2>7. k[p] <= k[q]
    BY <2>3, <2>4
  <2> QED BY <2>6, <2>7
<1>7. q' \in used /\ Rightmost(d, p, node[q].right)
  BY <1>1, <1>2, <1>3, <1>4, <1>5, <1>6, RightmostStep
<1>8. TypeOK'
  BY <1>1, <1>2, <1>5 DEF TypeOK
<1>9. Control'
  BY <1>1, <1>2 DEF Control
<1>10. Rightmost(d, p, q)'
  BY <1>1, <1>7 DEF Rightmost
<1>11. Hung(Lefts(node), Rights(node, {}), Keys(node), d, used, H, p)'
  BY <1>1, <1>3
<1>12. Threads(d, H)'
  BY <1>1, <1>2, <1>3, <1>7, <1>10, <1>11 DEF Threads, Threaded
<1>13. HeapTree(node', H, d, used', t')
  BY <1>1, <1>4
<1> QED BY <1>1, <1>8, <1>9, <1>12, <1>13, ThreadedShape

LEMMA MorrisSeekKeeps == ASSUME IInv, MorrisSeek PROVE IInv'
<1>1. pc \in {"visit", "seek"}
  BY DEF MorrisSeek
<1>2. PICK d \in [Pointer -> SUBSET Node], H \in SUBSET Node : Shape(d, H)
  BY <1>1 DEF IInv
<1>3. TypeOK' /\ Control' /\ pc' \in {"visit", "seek"} /\ Shape(d, H)'
  BY <1>2, MorrisSeekShape
<1> QED BY <1>3, ThreadedGives

\* A right link changes, to a thread or back.
LEMMA RightChanged ==
    ASSUME TypeOK, NEW x \in Node, NEW c \in Pointer,
           node' = [node EXCEPT ![x].right = c]
    PROVE  /\ node' \in [Node -> [key : Key, bf : -1..1, left : Pointer, right : Pointer]]
           /\ Lefts(node') = Lefts(node) /\ Keys(node') = Keys(node)
           /\ Rights(node', {})[x] = c
           /\ \A m \in Node \ {x} : Rights(node', {})[m] = Rights(node, {})[m]
<1>1. node \in [Node -> [key : Key, bf : -1..1, left : Pointer, right : Pointer]]
  BY DEF TypeOK
<1>2. node' \in [Node -> [key : Key, bf : -1..1, left : Pointer, right : Pointer]]
  BY <1>1
<1>3. /\ \A m \in Node \ {x} : node'[m] = node[m]
      /\ node'[x].right = c /\ node'[x].left = node[x].left /\ node'[x].key = node[x].key
  BY <1>1
<1>4. \A m \in Node : node'[m].left = node[m].left /\ node'[m].key = node[m].key
  BY <1>3
<1>5. Lefts(node') = Lefts(node)
  BY <1>4 DEF Lefts
<1>6. Keys(node') = Keys(node)
  BY <1>4 DEF Keys
<1>7. /\ Rights(node', {})[x] = c
      /\ \A m \in Node \ {x} : Rights(node', {})[m] = Rights(node, {})[m]
  BY <1>3 DEF Rights
<1> QED BY <1>2, <1>5, <1>6, <1>7

\* A thread that is hung, or cut, does not change the links of the tree.
LEMMA OneThreadMore ==
    ASSUME TypeOK, NEW x \in Node, NEW c, NEW H, node[x].right = NULL,
           node' = [node EXCEPT ![x].right = c]
    PROVE  Rights(node', H \cup {x}) = Rights(node, H)
BY DEF TypeOK, Rights

LEMMA OneThreadLess ==
    ASSUME TypeOK, NEW x \in Node, NEW H, x \in H,
           node' = [node EXCEPT ![x].right = NULL]
    PROVE  Rights(node', H \ {x}) = Rights(node, H)
BY DEF TypeOK, Rights

\* The predecessor's right link was NULL and becomes a thread.
LEMMA MorrisHangShape ==
    ASSUME IInv, MorrisHang, NEW d \in [Pointer -> SUBSET Node], NEW H \in SUBSET Node,
           Shape(d, H), NEW H2, H2 = H \cup {q}
    PROVE  TypeOK' /\ Control' /\ pc' \in {"visit", "seek"} /\ H2 \in SUBSET Node /\ Shape(d, H2)' /\ q \notin H
<1>1. /\ pc = "seek" /\ node[q].right = NULL
      /\ node' = [node EXCEPT ![q].right = p]
      /\ out' \in {out, Append(out, node[p].key)}
      /\ p' = node[p].left /\ pc' = "visit" /\ q' = NULL
      /\ UNCHANGED <<used, t, op, arg, s, s2, answer>>
  BY DEF MorrisHang, PrintNode
<1>2. TypeOK /\ Control /\ op \in Morris /\ p # NULL /\ p \in Pointer /\ out \in Seq(Key)
  BY <1>1 DEF IInv, Control, TypeOK
<1> DEFINE l == Lefts(node)
           g == Rights(node, {})
           k == Keys(node)
<1>3. /\ Tree(l, Rights(node, H), k, d, used, t)
      /\ H \subseteq used /\ p \in used \cup {NULL}
      /\ Hung(l, g, k, d, used, H, p)
      /\ q \in used /\ Rightmost(d, p, q)
  BY <1>1, <1>2, InTheMiddle DEF Threaded, Middle
<1>4. /\ p \in used /\ q \in Node /\ p \in Node /\ used \subseteq Node
      /\ node[p].left \in Pointer /\ node[p].key \in Key /\ NULL \notin Node
      /\ d \in [Pointer -> SUBSET Node] /\ NULL \in Pointer
  BY <1>2, <1>3, NodeTypes
<1>5. H2 = H \cup {q}
  OBVIOUS
<1>6. /\ node' \in [Node -> [key : Key, bf : -1..1, left : Pointer, right : Pointer]]
      /\ Lefts(node') = l /\ Keys(node') = k
      /\ Rights(node', {})[q] = p
      /\ \A m \in Node \ {q} : Rights(node', {})[m] = g[m]
      /\ Rights(node', H2) = Rights(node, H)
  <2>1. Rights(node', H2) = Rights(node, H)
    BY <1>1, <1>2, <1>4, <1>5, OneThreadMore
  <2> QED BY <2>1, <1>1, <1>2, <1>4, RightChanged
<1>7. /\ \A m \in Node : l[m] = node[m].left /\ g[m] = node[m].right /\ k[m] = node[m].key
      /\ Rights(node, H)[q] = NULL
  BY <1>1, <1>4 DEF Lefts, Rights, Keys
<1>8. HeapTree(node', H2, d, used', t')
  BY <1>1, <1>3, <1>6 DEF HeapTree
<1>9. TypeOK'
  <2>1. out' \in Seq(Key)
    BY <1>1, <1>2, <1>4
  <2>2. node' \in [Node -> [key : Key, bf : -1..1, left : Pointer, right : Pointer]]
    BY <1>6
  <2>3. p' \in Pointer /\ q' \in Pointer
    BY <1>1, <1>4
  <2>4. pc' = "visit" /\ UNCHANGED <<used, t, op, arg, s, s2, answer>>
    BY <1>1
  <2>5. /\ used \in SUBSET Node /\ t \in Pointer /\ arg \in Key \cup {NULL}
        /\ op \in {"none", "insert", "search", "delete"} \cup Order
        /\ s \in Seq(Pointer) /\ s2 \in Seq(Pointer) /\ answer \in BOOLEAN
    BY <1>2 DEF TypeOK
  <2> QED BY <2>1, <2>2, <2>3, <2>4, <2>5 DEF TypeOK
<1>10. Control'
  <2>1. s = <<>> /\ s2 \in Seq(Node) /\ op \in Order /\ <<>> \in Seq(Node)
    <3>1. s = <<>> /\ s2 \in Seq(Node)
      BY <1>1, <1>2 DEF Control
    <3>2. op \in Order
      BY <1>2 DEF Morris, Order
    <3>3. <<>> \in Seq(Node)
      OBVIOUS
    <3> QED BY <3>1, <3>2, <3>3
  <2> QED BY <2>1, <1>1, <1>2 DEF Control
<1> HIDE DEF l, g, k
<1>11. q \notin H
  <2>1. \A m \in H : g[m] \in used
    BY <1>3 DEF Hung
  <2> QED BY <2>1, <1>1, <1>4, <1>7
<1>12. LastOnTheLeft(l, k, d, p, q)
  <2>1. l[p] = node[p].left /\ d[l[p]] \subseteq Node
    BY <1>4, <1>7
  <2> QED BY <2>1, <1>3, <1>4, <1>7 DEF Rightmost, LastOnTheLeft
<1> DEFINE h == Rights(node', {})
<1>13. l[p] \in used /\ Hung(l, h, k, d, used, H2, l[p])
  <2>1. h[q] = p /\ \A m \in Node \ {q} : h[m] = g[m]
    BY <1>6
  <2> HIDE DEF h
  <2>2. SameBut(g, h, used, q)
    BY <2>1, <1>4 DEF SameBut
  <2>3. q \in used \ H
    BY <1>3, <1>11
  <2>4. l[p] \in used /\ Hung(l, h, k, d, used, H \cup {q}, l[p])
    BY <2>1, <2>2, <2>3, <1>3, <1>4, <1>7, <1>12, ThreadHung
  <2> QED BY <2>4, <1>5
<1>14. p' = l[p]
  BY <1>1, <1>4, <1>7
<1>15. Hung(Lefts(node), Rights(node, {}), Keys(node), d, used, H2, p)'
  BY <1>1, <1>6, <1>13, <1>14
<1>16. H2 \in SUBSET Node /\ H2 \subseteq used'
  BY <1>1, <1>3, <1>4, <1>5
<1>17. Threads(d, H2)'
  BY <1>1, <1>2, <1>13, <1>14, <1>15, <1>16 DEF Threads, Threaded
<1> QED BY <1>1, <1>8, <1>9, <1>10, <1>11, <1>16, <1>17, ThreadedShape

LEMMA MorrisHangKeeps == ASSUME IInv, MorrisHang PROVE IInv'
<1>1. pc \in {"visit", "seek"}
  BY DEF MorrisHang
<1>2. PICK d \in [Pointer -> SUBSET Node], H \in SUBSET Node : Shape(d, H)
  BY <1>1 DEF IInv
<1>3. PICK H2 : H2 = H \cup {q}
  OBVIOUS
<1>4. /\ TypeOK' /\ Control' /\ pc' \in {"visit", "seek"}
      /\ H2 \in SUBSET Node /\ Shape(d, H2)'
  BY <1>2, <1>3, MorrisHangShape
<1> QED BY <1>4, ThreadedGives

\* The thread is found from its other end and cut.
LEMMA MorrisCutShape ==
    ASSUME IInv, MorrisCut, NEW d \in [Pointer -> SUBSET Node], NEW H \in SUBSET Node,
           Shape(d, H), NEW H2, H2 = H \ {q}
    PROVE  TypeOK' /\ Control' /\ pc' \in {"visit", "seek"} /\ H2 \in SUBSET Node /\ Shape(d, H2)' /\ q \in H
<1>1. /\ pc = "seek" /\ node[q].right = p
      /\ node' = [node EXCEPT ![q].right = NULL]
      /\ out' \in {out, Append(out, node[p].key)}
      /\ p' = node[p].right /\ pc' = "visit" /\ q' = NULL
      /\ UNCHANGED <<used, t, op, arg, s, s2, answer>>
  BY DEF MorrisCut, PrintNode
<1>2. TypeOK /\ Control /\ op \in Morris /\ p # NULL /\ p \in Pointer /\ out \in Seq(Key)
  BY <1>1 DEF IInv, Control, TypeOK
<1> DEFINE l == Lefts(node)
           g == Rights(node, {})
           k == Keys(node)
<1>3. /\ Tree(l, Rights(node, H), k, d, used, t)
      /\ H \subseteq used /\ p \in used \cup {NULL}
      /\ Hung(l, g, k, d, used, H, p)
      /\ q \in used /\ Rightmost(d, p, q)
  BY <1>1, <1>2, InTheMiddle DEF Threaded, Middle
<1>4. /\ p \in used /\ q \in Node /\ p \in Node /\ used \subseteq Node
      /\ node[p].right \in Pointer /\ node[p].key \in Key /\ NULL \notin Node
      /\ d \in [Pointer -> SUBSET Node] /\ NULL \in Pointer
  BY <1>2, <1>3, NodeTypes
<1>5. H2 = H \ {q}
  OBVIOUS
<1>6. /\ \A m \in Node : l[m] = node[m].left /\ g[m] = node[m].right /\ k[m] = node[m].key
      /\ \A m \in used \ H : Rights(node, H)[m] = g[m]
  BY <1>4 DEF Lefts, Rights, Keys
<1>7. /\ node' \in [Node -> [key : Key, bf : -1..1, left : Pointer, right : Pointer]]
      /\ Lefts(node') = l /\ Keys(node') = k
      /\ \A m \in Node \ {q} : Rights(node', {})[m] = g[m]
  BY <1>1, <1>2, <1>4, RightChanged
<1>8. TypeOK'
  <2>1. out' \in Seq(Key)
    BY <1>1, <1>2, <1>4
  <2>2. node' \in [Node -> [key : Key, bf : -1..1, left : Pointer, right : Pointer]]
    BY <1>7
  <2>3. p' \in Pointer /\ q' \in Pointer
    BY <1>1, <1>4
  <2>4. pc' = "visit" /\ UNCHANGED <<used, t, op, arg, s, s2, answer>>
    BY <1>1
  <2>5. /\ used \in SUBSET Node /\ t \in Pointer /\ arg \in Key \cup {NULL}
        /\ op \in {"none", "insert", "search", "delete"} \cup Order
        /\ s \in Seq(Pointer) /\ s2 \in Seq(Pointer) /\ answer \in BOOLEAN
    BY <1>2 DEF TypeOK
  <2> QED BY <2>1, <2>2, <2>3, <2>4, <2>5 DEF TypeOK
<1>9. Control'
  <2>1. s = <<>> /\ s2 \in Seq(Node) /\ op \in Order /\ <<>> \in Seq(Node)
    <3>1. s = <<>> /\ s2 \in Seq(Node)
      BY <1>1, <1>2 DEF Control
    <3>2. op \in Order
      BY <1>2 DEF Morris, Order
    <3>3. <<>> \in Seq(Node)
      OBVIOUS
    <3> QED BY <3>1, <3>2, <3>3
  <2> QED BY <2>1, <1>1, <1>2 DEF Control
<1> HIDE DEF l, g, k
<1>10. q \in d[l[p]]
  BY <1>3, <1>4, <1>6 DEF Rightmost
<1>11. q \in d[p] /\ q # p
  BY <1>3, <1>4, <1>10, TreeFacts
\* The link is a thread: p is not below q.
<1>12. q \in H
  <2> SUFFICES ASSUME q \notin H PROVE FALSE
    OBVIOUS
  <2>1. Rights(node, H)[q] = p
    BY <1>1, <1>3, <1>4, <1>6
  <2>2. p \in d[q]
    BY <2>1, <1>3, <1>4, AboveChild
  <2> QED BY <2>2, <1>3, <1>4, <1>11, BelowAntisymmetric
<1>13. HeapTree(node', H2, d, used', t')
  <2>1. Rights(node', H2) = Rights(node, H)
    BY <1>1, <1>2, <1>4, <1>5, <1>12, OneThreadLess
  <2> QED BY <2>1, <1>1, <1>3, <1>7 DEF HeapTree
<1> DEFINE h == Rights(node', {})
<1>14. \A m \in Node \ {q} : h[m] = g[m]
  BY <1>7
<1> HIDE DEF h
<1>15. Hung(l, h, k, d, used, H2, p) /\ \A m \in H2 : h[m] # p
  <2>1. SameBut(g, h, used, q)
    BY <1>4, <1>14 DEF SameBut
  <2>2. g[q] = p
    BY <1>1, <1>4, <1>6
  <2> QED BY <2>1, <2>2, <1>3, <1>4, <1>5, <1>12, ThreadCut
<1>16. Tree(l, Rights(node', H2), k, d, used, t) /\ \A m \in used \ H2 : Rights(node', H2)[m] = h[m]
  <2>1. Tree(l, Rights(node', H2), k, d, used, t)
    BY <1>1, <1>7, <1>13 DEF HeapTree
  <2> QED BY <2>1, <1>4 DEF Rights, h
<1>17. H2 \in SUBSET used /\ H2 \in SUBSET Node /\ H2 \subseteq used'
  BY <1>1, <1>3, <1>4, <1>5
<1>18. h[p] \in used \cup {NULL} /\ Hung(l, h, k, d, used, H2, h[p])
  <2>1. p \in used /\ H2 \in SUBSET used
    BY <1>4, <1>17
  <2> QED BY <2>1, <1>15, <1>16, NextRight, SMTT(30)
<1>19. p' = h[p]
  BY <1>1, <1>4, <1>6, <1>11, <1>14
<1>20. Hung(Lefts(node), Rights(node, {}), Keys(node), d, used, H2, p)'
  BY <1>1, <1>7, <1>18, <1>19 DEF h
<1>21. Threads(d, H2)'
  BY <1>1, <1>2, <1>17, <1>18, <1>19, <1>20 DEF Threads, Threaded
<1> QED BY <1>1, <1>8, <1>9, <1>12, <1>13, <1>17, <1>21, ThreadedShape

LEMMA MorrisCutKeeps == ASSUME IInv, MorrisCut PROVE IInv'
<1>1. pc \in {"visit", "seek"}
  BY DEF MorrisCut
<1>2. PICK d \in [Pointer -> SUBSET Node], H \in SUBSET Node : Shape(d, H)
  BY <1>1 DEF IInv
<1>3. PICK H2 : H2 = H \ {q}
  OBVIOUS
<1>4. /\ TypeOK' /\ Control' /\ pc' \in {"visit", "seek"}
      /\ H2 \in SUBSET Node /\ Shape(d, H2)'
  BY <1>2, <1>3, MorrisCutShape
<1> QED BY <1>4, ThreadedGives

-----------------------------------------------------------------------------
(* The invariant.                                                          *)

\* bst_create() makes a tree of one node.
LEMMA InitHolds == ASSUME Init PROVE IInv
<1>1. /\ t \in Node /\ used = {t}
      /\ pc = "idle" /\ op = "none" /\ arg = NULL /\ p = NULL /\ q = NULL
      /\ s = <<>> /\ s2 = <<>> /\ out = <<>> /\ answer = FALSE
  BY DEF Init
<1>2. PICK x \in Key : node = [n \in Node |-> IF n = t THEN Fresh(x) ELSE Blank]
  BY DEF Init
<1>3. /\ Fresh(x) \in [key : Key, bf : -1..1, left : Pointer, right : Pointer]
      /\ Blank \in [key : Key, bf : -1..1, left : Pointer, right : Pointer]
  <2>1. (CHOOSE k \in Key : TRUE) \in Key
    BY KeyAssumption
  <2> QED BY <2>1 DEF Blank, Fresh, Pointer
<1>4. node \in [Node -> [key : Key, bf : -1..1, left : Pointer, right : Pointer]]
  <2>1. \A n \in Node : (IF n = t THEN Fresh(x) ELSE Blank)
                        \in [key : Key, bf : -1..1, left : Pointer, right : Pointer]
    BY <1>3
  <2> HIDE DEF Blank
  <2> QED BY <2>1, <1>2
<1>5. node[t].left = NULL /\ node[t].right = NULL
  <2>1. node[t] = Fresh(x)
    BY <1>1, <1>2
  <2> QED BY <2>1 DEF Fresh
<1>6. TypeOK
  <2>1. <<>> \in Seq(Pointer) /\ <<>> \in Seq(Key)
    OBVIOUS
  <2> QED BY <2>1, <1>1, <1>4 DEF TypeOK, Pointer
<1>7. Control
  BY <1>1 DEF Control
<1>8. PICK u : u = t
  OBVIOUS
<1> DEFINE d == [b \in Pointer |-> IF b = u THEN {u} ELSE {}]
           l == Lefts(node)
           r == Rights(node, {})
           k == Keys(node)
<1>9. d \in [Pointer -> SUBSET Node] /\ u \in Node /\ u # NULL /\ NULL \in Pointer
  BY <1>1, <1>8, NodeAssumption DEF Pointer
<1>10. /\ l \in [Node -> Pointer] /\ r \in [Node -> Pointer] /\ k \in [Node -> Int]
       /\ l[u] = NULL /\ r[u] = NULL
  BY <1>1, <1>5, <1>6, <1>8, HeapLinks
<1>11. d[u] = {u} /\ d[NULL] = {}
  BY <1>9 DEF Pointer
<1> HIDE DEF d, l, r, k
<1>12. k[u] \in Int
  BY <1>9, <1>10
<1>13. Linked(l, r, d, {u}, u)
  BY <1>10, <1>11 DEF Linked
<1>14. Parted(l, r, k, d, {u})
  BY <1>10, <1>11, <1>12 DEF Parted
<1>15. Joined(k, d, {u})
  BY <1>11, <1>12 DEF Joined
<1>16. Tree(l, r, k, d, {u}, u)
  BY <1>9, <1>10, <1>13, <1>14, <1>15 DEF Tree
<1>17. HeapTree(node, {}, d, used, t)
  BY <1>1, <1>8, <1>16 DEF HeapTree, l, r, k
<1>18. Searching(d) /\ Replacing(d) /\ GoingBack(d) /\ Threads(d, {})
  BY <1>1 DEF Searching, Replacing, GoingBack, Threads, Threaded
<1>19. Shape(d, {}) /\ {} \in SUBSET Node
  BY <1>17, <1>18 DEF Shape
<1> QED BY <1>6, <1>7, <1>9, <1>19, Zenon DEF IInv

\* Ended and stuttering.
LEMMA StutterKeeps == ASSUME IInv, UNCHANGED vars PROVE IInv'
<1>1. /\ node' = node /\ used' = used /\ t' = t /\ pc' = pc /\ op' = op /\ arg' = arg
      /\ p' = p /\ q' = q /\ s' = s /\ s2' = s2 /\ out' = out /\ answer' = answer
  BY DEF vars
<1>2. TypeOK'
  BY <1>1 DEF IInv, TypeOK
<1>3. Control'
  BY <1>1 DEF IInv, Control
<1>4. CASE pc \in {"crashed", "destroyed"}
  BY <1>1, <1>2, <1>3, <1>4 DEF IInv
<1>5. CASE pc \notin {"crashed", "destroyed"}
  <2>1. PICK d \in [Pointer -> SUBSET Node], H \in SUBSET Node : Shape(d, H)
    BY <1>5 DEF IInv
  <2>2. HeapTree(node', H, d, used', t')
    BY <1>1, <2>1 DEF Shape
  <2>3. Searching(d)' /\ Replacing(d)' /\ GoingBack(d)'
    BY <1>1, <2>1 DEF Shape, Searching, Replacing, GoingBack, Rightmost
  <2>4. Threads(d, H)'
    BY <1>1, <2>1 DEF Shape, Threads, Threaded, Rightmost
  <2>5. Shape(d, H)'
    BY <2>2, <2>3, <2>4 DEF Shape
  <2> QED BY <1>2, <1>3, <2>5, Zenon DEF IInv
<1> QED BY <1>4, <1>5

\* Every step keeps the invariant.
LEMMA NextKeeps == ASSUME IInv, [Next]_vars PROVE IInv'
<1>1. ASSUME NEW k \in Key, Insert(k) \/ Search(k) \/ Delete(k) PROVE IInv'
  BY <1>1, StartKeeps
<1>2. ASSUME NEW mode \in Order, Traverse(mode) PROVE IInv'
  BY <1>2, TraverseKeeps
<1>3. CASE Down \/ Predecessor
  BY <1>3, DownKeeps, PredecessorKeeps
<1>4. CASE \/ SearchDone \/ InsertIntoNothing \/ InsertCollides
           \/ DeleteMissing \/ TraversalDone
  BY <1>4, ReturnKeeps
<1>5. CASE InsertNode \/ DeleteFound \/ Unlink
  BY <1>5, InsertNodeKeeps, DeleteFoundKeeps, UnlinkKeeps
<1>6. CASE Update
  BY <1>6, UpdateKeeps
<1>7. CASE PreorderStep \/ LevelorderStep \/ DescendLeft \/ InorderStep
           \/ PostorderStep \/ Stack2Step
  BY <1>7, PreorderKeeps, LevelorderKeeps, DescendLeftKeeps, InorderKeeps,
     PostorderKeeps, Stack2Keeps
<1>8. CASE MorrisStep \/ MorrisSeek \/ MorrisHang \/ MorrisCut
  BY <1>8, MorrisStepKeeps, MorrisSeekKeeps, MorrisHangKeeps, MorrisCutKeeps
<1>9. CASE Destroy
  BY <1>9, DestroyKeeps
<1>10. CASE Ended \/ UNCHANGED vars
  BY <1>10, StutterKeeps DEF Ended
<1> QED BY <1>1, <1>2, <1>3, <1>4, <1>5, <1>6, <1>7, <1>8, <1>9, <1>10, Zenon DEF Next

\* The heap is a search tree throughout, with the threads of a traversal in place
\* of some right links, and every call knows where in the tree it is.
THEOREM Invariant == Spec => []IInv
<1>1. Init => IInv
  BY InitHolds
<1>2. IInv /\ [Next]_vars => IInv'
  BY NextKeeps
<1> QED BY <1>1, <1>2, PTL DEF Spec

\* Every variable keeps its type: however the tree is built, the balance factor of
\* a node is -1, 0 or 1 between two turns of a loop.
THEOREM Types == Spec => []TypeOK
<1>1. IInv => TypeOK
  BY DEF IInv
<1> QED BY <1>1, Invariant, PTL

-----------------------------------------------------------------------------
(* What is allocated is what can be reached, and is a tree.                *)

\* The caller can reach every node that is allocated and no other, also
\* along threads.
LEMMA ReachableIsUsed ==
    ASSUME TypeOK, NEW H \in SUBSET used, NEW d, HeapTree(node, H, d, used, t),
           \A m \in H : node[m].right \in used
    PROVE  Reachable = used
<1> DEFINE l == Lefts(node)
           r == Rights(node, H)
           k == Keys(node)
<1>1. Tree(l, r, k, d, used, t)
  BY DEF HeapTree
<1>2. /\ t \in used \cup {NULL} /\ used \subseteq Node
      /\ \A m \in used : l[m] \in used \cup {NULL} /\ r[m] \in used \cup {NULL}
  BY <1>1, TreeFacts
<1>3. /\ \A m \in used : l[m] = node[m].left
      /\ \A m \in used \ H : r[m] = node[m].right
      /\ \A m \in H : r[m] = NULL
  BY <1>2 DEF Lefts, Rights
<1> HIDE DEF l, r, k
<1>4. \A m \in used : Children(m) \subseteq used
  <2> SUFFICES ASSUME NEW m \in used PROVE Children(m) \subseteq used
    OBVIOUS
  <2>1. node[m].left \in used \cup {NULL} /\ node[m].right \in used \cup {NULL}
    BY <1>2, <1>3
  <2> QED BY <2>1 DEF Children
<1>5. ASSUME NEW n \in Reachable, n \notin used PROVE FALSE
  <2>1. used \in SUBSET (Node \ {n}) /\ t \in used \cup {NULL}
    BY <1>2, <1>5
  <2>2. \E m \in used : ~(Children(m) \subseteq used)
    BY <2>1 DEF Reachable, ReachableFrom
  <2> QED BY <2>2, <1>4
<1>6. ASSUME NEW n \in used, NEW S \in SUBSET (Node \ {n}), t \in S \cup {NULL},
             \A m \in S : Children(m) \subseteq S
      PROVE  FALSE
  <2>1. \A m \in S \cap used : {l[m], r[m]} \ {NULL} \subseteq S
    <3> SUFFICES ASSUME NEW m \in S, m \in used PROVE {l[m], r[m]} \ {NULL} \subseteq S
      OBVIOUS
    <3>1. {l[m], r[m]} \ {NULL} \subseteq Children(m)
      BY <1>3 DEF Children
    <3> QED BY <3>1, <1>6
  <2>2. used \subseteq S
    BY <2>1, <1>1, <1>6, AllReached
  <2> QED BY <2>2
<1>7. \A n \in used : n \in Reachable
  <2> SUFFICES ASSUME NEW n \in used PROVE n \in Reachable
    OBVIOUS
  <2>1. n \in Node
    BY <1>2
  <2>2. \A S \in SUBSET (Node \ {n}) :
           t \in S \cup {NULL} => \E m \in S : ~(Children(m) \subseteq S)
    BY <1>6
  <2> QED BY <2>1, <2>2 DEF Reachable, ReachableFrom
<1> QED BY <1>5, <1>7

AllReachable == pc \notin {"crashed", "destroyed"} => Reachable = used

LEMMA NothingLeaks == ASSUME IInv PROVE AllReachable
<1> SUFFICES ASSUME pc \notin {"crashed", "destroyed"} PROVE Reachable = used
  BY DEF AllReachable
<1>1. TypeOK
  BY DEF IInv
<1>2. PICK d \in [Pointer -> SUBSET Node], H \in SUBSET Node : Shape(d, H)
  BY DEF IInv
<1>3. HeapTree(node, H, d, used, t) /\ Threads(d, H)
  BY <1>2 DEF Shape
<1>4. H \subseteq used
  BY <1>3 DEF Threads
<1>5. \A m \in H : node[m].right \in used
  <2>1. CASE ~Threaded
    BY <2>1, <1>3 DEF Threads
  <2>2. CASE Threaded
    <3>1. Hung(Lefts(node), Rights(node, {}), Keys(node), d, used, H, p)
      BY <2>2, <1>3 DEF Threads
    <3>2. \A m \in H : Rights(node, {})[m] \in used
      BY <3>1 DEF Hung
    <3>3. \A m \in Node : Rights(node, {})[m] = node[m].right
      BY DEF Rights
    <3> QED BY <3>2, <3>3
  <2> QED BY <2>1, <2>2
<1> QED BY <1>1, <1>3, <1>4, <1>5, ReachableIsUsed

\* Every node but the root has exactly one parent.
LEMMA TreeIsTree ==
    ASSUME TypeOK, NEW d, HeapTree(node, {}, d, used, t)
    PROVE  HeapIsTree
<1> DEFINE l == Lefts(node)
           r == Rights(node, {})
           k == Keys(node)
<1>1. Tree(l, r, k, d, used, t)
  BY DEF HeapTree
<1>2. /\ used \subseteq Node /\ NULL \notin used /\ t \in used \cup {NULL} /\ d[t] = used
      /\ \A m \in used : l[m] \in used \cup {NULL} /\ r[m] \in used \cup {NULL}
      /\ d[NULL] = {}
  BY <1>1, TreeFacts
<1>3. \A m \in used : l[m] = node[m].left /\ r[m] = node[m].right
  BY <1>2 DEF Lefts, Rights
<1> HIDE DEF l, r, k
<1>4. Reachable = used
  BY ReachableIsUsed
<1>5. ASSUME NEW n \in used, node[n].left # NULL PROVE node[n].left # node[n].right
  <2>1. l[n] \in used /\ l[n] # r[n]
    BY <1>1, <1>2, <1>3, <1>5, OneParent
  <2> QED BY <2>1, <1>3
<1>6. ASSUME NEW n \in used
      PROVE  Cardinality({m \in used : n \in Children(m)}) = IF n = t THEN 0 ELSE 1
  <2> DEFINE Parents == {m \in used : n \in Children(m)}
  <2>1. \A m \in used : n \in Children(m) <=> n = l[m] \/ n = r[m]
    BY <1>2, <1>3 DEF Children
  <2>2. CASE n = t
    <3>1. Parents = {}
      BY <2>1, <2>2, <1>1, OneParent
    <3> QED BY <3>1, <2>2, FS_EmptySet
  <2>3. CASE n # t
    <3> DEFINE Y == {m \in used : n \in d[m] /\ m # n}
    <3>1. t \in Y /\ Y \in SUBSET used
      BY <2>3, <1>2
    <3>2. PICK a \in Y : \A b \in Y : b \in d[a] => b = a
      <4> HIDE DEF Y
      <4> QED BY <3>1, <1>1, SomeLowest
    <3>3. a \in used /\ n \in d[a] /\ n # a
      BY <3>2
    <3>4. \A m \in used : n \in d[m] /\ m # n /\ m \in d[a] => m = a
      BY <3>2
    <3>5. n = l[a] \/ n = r[a]
      BY <3>3, <3>4, <1>1, NearestAbove
    <3>6. \A m \in used : n = l[m] \/ n = r[m] => m = a
      BY <3>3, <3>5, <1>1, OneParent
    <3>7. Parents = {a}
      BY <3>3, <3>5, <3>6, <2>1
    <3> QED BY <3>7, <2>3, FS_Singleton
  <2> QED BY <2>2, <2>3
<1> QED BY <1>4, <1>5, <1>6 DEF HeapIsTree

\* Between two calls, and when a traversal is over, the nodes that are allocated
\* are those of one tree: nothing leaked, shared, lost or left threaded.
THEOREM TreeIsLeft == Spec => []LeavesTree
<1>1. ASSUME IInv PROVE LeavesTree
  <2> SUFFICES ASSUME pc = "idle" \/ TraversalOver PROVE HeapIsTree
    BY DEF LeavesTree
  <2>1. pc = "idle" \/ (pc = "visit" /\ p = NULL)
    BY DEF TraversalOver
  <2>2. TypeOK
    BY <1>1 DEF IInv
  <2>3. PICK d \in [Pointer -> SUBSET Node], H \in SUBSET Node : Shape(d, H)
    BY <2>1, <1>1 DEF IInv
  <2>4. HeapTree(node, H, d, used, t) /\ Threads(d, H)
    BY <2>3 DEF Shape
  <2>5. H = {}
    <3>1. CASE ~Threaded
      BY <3>1, <2>4 DEF Threads
    <3>2. CASE Threaded
      <4>1. p = NULL
        BY <2>1, <3>2 DEF Threaded
      <4>2. Hung(Lefts(node), Rights(node, {}), Keys(node), d, used, H, NULL)
        BY <4>1, <3>2, <2>4 DEF Threads
      <4>3. Tree(Lefts(node), Rights(node, H), Keys(node), d, used, t)
        BY <2>4 DEF HeapTree
      <4> QED BY <4>2, <4>3, NoneHung
    <3> QED BY <3>1, <3>2
  <2> QED BY <2>2, <2>4, <2>5, TreeIsTree
<1>2. IInv => LeavesTree
  BY <1>1
<1> QED BY <1>2, Invariant, PTL

-----------------------------------------------------------------------------
(* The tree implements the set.                                            *)

TheKeys == {node[n].key : n \in Reachable}

TheCall == IF op \in Calls THEN op ELSE "none"
IsDone == op \in Calls /\ pc \in {"update", "crashed"}

LEMMA OrdersAreNoCalls ==
    \A o : o \in Order \cup Morris \cup {"none"} => o \notin Calls
BY DEF Order, Morris, Calls

\* The set sees nothing of a step that changes neither the tree nor where a call
\* is.
LEMMA KeysStay ==
    ASSUME UNCHANGED <<node, t, arg, answer>>, TheCall' = TheCall, IsDone' <=> IsDone
    PROVE  UNCHANGED Promise!vars
<1>1. node' = node /\ t' = t /\ answer' = answer /\ arg' = arg
  OBVIOUS
<1>2. Reachable' = Reachable
  BY <1>1 DEF Reachable, ReachableFrom, Children
<1>3. TheKeys' = TheKeys
  BY <1>1, <1>2 DEF TheKeys
<1>4. IsDone' = IsDone
  BY Zenon DEF IsDone
<1> QED BY <1>1, <1>3, <1>4, Zenon DEF Promise!vars, TheKeys, TheCall, IsDone

\* The steps that leave the keys and the last answer alone.
LEMMA StepsInside ==
    ASSUME Control,
           \/ \E mode \in Order : Traverse(mode)
           \/ Down \/ Predecessor \/ DeleteFound
           \/ PreorderStep \/ LevelorderStep \/ DescendLeft \/ InorderStep
           \/ PostorderStep \/ Stack2Step \/ MorrisStep \/ MorrisSeek
           \/ TraversalDone \/ Destroy \/ Ended \/ UNCHANGED vars
    PROVE  UNCHANGED Promise!vars
<1>1. ASSUME NEW mode \in Order, Traverse(mode)
      PROVE  /\ UNCHANGED <<node, t, arg, answer>>
             /\ op \notin Calls /\ op' \notin Calls
  BY <1>1, OrdersAreNoCalls DEF Traverse, Control
<1>2. CASE Down \/ Predecessor \/ DeleteFound
  <2>1. /\ UNCHANGED <<node, t, op, arg, answer>>
        /\ pc \notin {"update", "crashed"} /\ pc' \notin {"update", "crashed"}
    BY <1>2 DEF Down, Predecessor, DeleteFound, Arrived
  <2> QED BY <2>1, KeysStay DEF TheCall, IsDone
<1>3. CASE \/ PreorderStep \/ LevelorderStep \/ DescendLeft \/ InorderStep
           \/ PostorderStep \/ Stack2Step \/ MorrisStep \/ MorrisSeek
  <2>1. UNCHANGED <<node, t, op, arg, answer>>
    <3>1. CASE PreorderStep \/ LevelorderStep \/ DescendLeft
      BY <3>1 DEF PreorderStep, LevelorderStep, DescendLeft, Crash
    <3>2. CASE InorderStep \/ PostorderStep \/ Stack2Step
      BY <3>2 DEF InorderStep, PostorderStep, Stack2Step
    <3>3. CASE MorrisStep \/ MorrisSeek
      BY <3>3 DEF MorrisStep, MorrisSeek
    <3> QED BY <1>3, <3>1, <3>2, <3>3, Zenon
  <2>2. pc \in {"visit", "seek"}
    BY <1>3 DEF PreorderStep, LevelorderStep, DescendLeft, InorderStep, PostorderStep,
                Stack2Step, MorrisStep, MorrisSeek, Traverses
  <2>3. op \notin Calls /\ op' \notin Calls
    BY <2>1, <2>2, OrdersAreNoCalls DEF Control
  <2> QED BY <2>1, <2>3, KeysStay DEF TheCall, IsDone
<1>4. CASE TraversalDone
  <2>1. /\ UNCHANGED <<node, t, arg, answer>> /\ op \in Order /\ op' = "none"
    BY <1>4 DEF TraversalDone, TraversalOver, Done, Control
  <2>2. op \notin Calls /\ op' \notin Calls
    BY <2>1, OrdersAreNoCalls
  <2> QED BY <2>1, <2>2, KeysStay DEF TheCall, IsDone
<1>5. CASE Destroy
  <2>1. UNCHANGED <<node, t, op, arg, answer>> /\ op = "none"
    BY <1>5 DEF Destroy, Control
  <2>2. op \notin Calls /\ op' \notin Calls
    BY <2>1, OrdersAreNoCalls
  <2> QED BY <2>1, <2>2, KeysStay DEF TheCall, IsDone
<1>6. CASE Ended \/ UNCHANGED vars
  <2>1. UNCHANGED <<node, t, op, arg, answer, pc>>
    BY <1>6 DEF Ended, vars
  <2> QED BY <2>1, KeysStay DEF TheCall, IsDone
<1>7. ASSUME NEW mode \in Order, Traverse(mode) PROVE UNCHANGED Promise!vars
  BY <1>1, <1>7, KeysStay DEF TheCall, IsDone
<1> QED BY <1>2, <1>3, <1>4, <1>5, <1>6, <1>7, Zenon

\* Between the two ends of a call the allocated nodes are those of the tree.
LEMMA KeysOfUsed ==
    ASSUME AllReachable, AllReachable',
           pc \notin {"crashed", "destroyed"}, pc' \notin {"crashed", "destroyed"}
    PROVE  /\ TheKeys = {node[n].key : n \in used}
           /\ TheKeys' = {node'[n].key : n \in used'}
<1>1. Reachable = used
  BY DEF AllReachable
<1>2. Reachable' = used'
  BY DEF AllReachable
<1>3. TheKeys = {node[n].key : n \in used}
  BY <1>1 DEF TheKeys
<1>4. TheKeys' = {node'[n].key : n \in used'}
  BY <1>2 DEF TheKeys
<1> QED BY <1>3, <1>4

\* A call is made.
LEMMA Calling ==
    ASSUME IInv, NEW k \in Key, Insert(k) \/ Search(k) \/ Delete(k)
    PROVE  Promise!NextAsKept
<1>1. PICK o \in Calls : Start(o, k)
  BY DEF Insert, Search, Delete, Calls
<1>2. /\ node' = node /\ t' = t /\ answer' = answer
      /\ op = "none" /\ op' = o /\ arg' = k /\ pc = "idle" /\ pc' = "down"
  BY <1>1 DEF Start, IInv, Control
<1>3. TheKeys' = TheKeys
  BY <1>2 DEF TheKeys, Reachable, ReachableFrom, Children
<1>4. TheCall = "none" /\ TheCall' = o /\ IsDone = FALSE /\ IsDone' = FALSE
  BY <1>1, <1>2 DEF TheCall, IsDone, Calls
<1>5. Promise!Call(o, k)
  BY <1>2, <1>3, <1>4, Zenon DEF Promise!Call, TheKeys, TheCall, IsDone
<1>6. o \in {"insert", "search", "delete"}
  BY <1>1 DEF Calls
<1> QED BY <1>5, <1>6, Zenon DEF Promise!NextAsKept, Promise!NextButInsert

\* A call that has not come to its end takes effect in a step that returns, or
\* begins the way back.
LEMMA Effecting ==
    ASSUME NEW o \in Calls, op = o, pc \notin {"update", "crashed"},
           Done \/ (pc' = "update" /\ op' = op /\ arg' = arg)
    PROVE  Promise!TakesEffect(o)
<1>1. TheCall = o /\ IsDone = FALSE
  BY DEF TheCall, IsDone
<1>2. CASE Done
  <2>1. TheCall' = "none" /\ arg' = NULL /\ IsDone' = FALSE
    BY <1>2 DEF Done, TheCall, IsDone, Calls
  <2>2. Promise!Returns
    BY <2>1, Zenon DEF Promise!Returns, TheCall, IsDone
  <2> QED BY <1>1, <2>2, Zenon DEF Promise!TakesEffect, TheCall, IsDone
<1>3. CASE pc' = "update" /\ op' = op /\ arg' = arg
  <2>1. TheCall' = TheCall /\ IsDone' = TRUE
    BY <1>3 DEF TheCall, IsDone
  <2> QED BY <1>1, <1>3, <2>1, Zenon DEF Promise!TakesEffect, TheCall, IsDone
<1> QED BY <1>2, <1>3

\* The abstract steps, of the keys in the tree.
LEMMA PromiseInsert ==
    ASSUME Promise!TakesEffect("insert"), TheKeys # {},
           answer' = (arg \notin TheKeys), TheKeys' = TheKeys \cup {arg}
    PROVE  Promise!NextAsKept
<1>1. Promise!Insert
  BY Zenon DEF TheKeys, Promise!Insert
<1> QED BY <1>1, Zenon DEF TheKeys, Promise!NextAsKept

\* A node that is taken out is a key that is deleted.
LEMMA PromiseDelete ==
    ASSUME Promise!TakesEffect("delete"), answer' = FALSE, TheKeys' = TheKeys \ {arg}
    PROVE  Promise!NextAsKept
<1>1. Promise!Delete
  BY Zenon DEF TheKeys, Promise!Delete
<1> QED BY <1>1, Zenon DEF Promise!NextAsKept, Promise!NextButInsert

\* Rotations and threads do not touch the keys; the way back ends with the call.
LEMMA Rearranging ==
    ASSUME IInv, AllReachable, AllReachable', Update \/ MorrisHang \/ MorrisCut
    PROVE  [Promise!NextAsKept]_(Promise!vars)
<1>1. TypeOK /\ Control
  BY DEF IInv
<1>2. CASE Update /\ UpdateCrashes
  <2>1. UNCHANGED <<node, t, op, arg, answer>> /\ pc = "update" /\ pc' = "crashed"
    BY <1>2 DEF Update, Crash
  <2> QED BY <2>1, KeysStay DEF TheCall, IsDone
<1>3. CASE (Update /\ ~UpdateCrashes) \/ MorrisHang \/ MorrisCut
  <2>1. /\ used' = used /\ answer' = answer
        /\ pc \notin {"crashed", "destroyed"} /\ pc' \notin {"crashed", "destroyed"}
    <3>1. CASE Update /\ ~UpdateCrashes
      BY <3>1 DEF Update, Done
    <3>2. CASE MorrisHang \/ MorrisCut
      BY <3>2 DEF MorrisHang, MorrisCut
    <3> QED BY <1>3, <3>1, <3>2
  <2>2. \A m \in Node : node'[m].key = node[m].key
    <3>1. CASE Update
      BY <3>1, UpdateKeeps
    <3>2. CASE MorrisHang \/ MorrisCut
      <4>1. PICK c : node' = [node EXCEPT ![q].right = c]
        BY <3>2 DEF MorrisHang, MorrisCut
      <4>2. q \in Node
        <5>1. pc = "seek"
          BY <3>2 DEF MorrisHang, MorrisCut
        <5> QED BY <5>1 DEF IInv, Control, TypeOK, Pointer
      <4> QED BY <4>1, <4>2, <1>1 DEF TypeOK
    <3> QED BY <1>3, <3>1, <3>2
  <2>3. \A n \in used : node'[n].key = node[n].key
    BY <2>2, <1>1, NodeTypes
  <2>4. {node'[n].key : n \in used} = {node[n].key : n \in used}
    BY <2>3
  <2>5. TheKeys' = TheKeys
    BY <2>1, <2>4, KeysOfUsed
  <2>6. CASE Update /\ Done
    <3>1. pc = "update" /\ op \in Calls
      BY <2>6, <1>1 DEF Update, Control, Calls
    <3>2. IsDone = TRUE /\ IsDone' = FALSE /\ TheCall' = "none" /\ arg' = NULL
      BY <2>6, <3>1 DEF Done, TheCall, IsDone, Calls
    <3>3. Promise!Return
      BY <2>1, <2>5, <3>2, Zenon
      DEF Promise!Return, Promise!Returns, TheKeys, TheCall, IsDone
    <3> QED BY <3>3, Zenon DEF Promise!NextAsKept, Promise!NextButInsert
  <2>7. CASE Update /\ ~Done
    <3>1. pc' = pc /\ op' = op /\ arg' = arg
      BY <2>7, <1>3 DEF Update, MorrisHang, MorrisCut
    <3>2. TheCall' = TheCall /\ IsDone' = IsDone
      BY <3>1 DEF TheCall, IsDone
    <3> QED BY <2>1, <2>5, <3>1, <3>2, Zenon DEF Promise!vars, TheKeys, TheCall, IsDone
  <2>8. CASE MorrisHang \/ MorrisCut
    <3>1. op' = op /\ arg' = arg /\ op \in Morris
      BY <2>8, <1>1 DEF MorrisHang, MorrisCut, Control
    <3>2. TheCall' = TheCall /\ IsDone' = IsDone
      BY <3>1, OrdersAreNoCalls DEF TheCall, IsDone
    <3> QED BY <2>1, <2>5, <3>1, <3>2, Zenon DEF Promise!vars, TheKeys, TheCall, IsDone
  <2> QED BY <1>3, <2>6, <2>7, <2>8
<1> QED BY <1>2, <1>3

\* When the way down is over, the key is where it led or not in the tree.
LEMMA AtThePlace ==
    ASSUME IInv, pc = "down", p # NULL => node[p].key = arg
    PROVE  /\ arg \in Key /\ (p # NULL <=> arg \in {node[n].key : n \in used})
           /\ t = NULL => used = {}
           /\ op \in {"insert", "delete"} /\ s # <<>> => Last(s) \in used
           /\ s = <<>> /\ op # "search" => p = t
           /\ t # NULL => used # {}
<1>1. TypeOK /\ Control
  BY DEF IInv
<1>2. PICK d \in [Pointer -> SUBSET Node] : Shape(d, {})
  BY ShapeOf DEF Threaded
<1>3. HeapTree(node, {}, d, used, t) /\ Searching(d)
  BY <1>2 DEF Shape
<1>4. /\ p \in used \cup {NULL} /\ \A m \in used : node[m].key = arg => m \in d[p]
      /\ op # "search" => IF s = <<>> THEN p = t ELSE Last(s) \in used
  BY <1>3 DEF Searching
<1>5. d[NULL] = {} /\ d[t] = used /\ t \in used \cup {NULL}
  BY <1>1, <1>3, HeapFacts
<1>6. p # NULL <=> arg \in {node[n].key : n \in used}
  <2>1. CASE p = NULL
    BY <2>1, <1>4, <1>5
  <2>2. CASE p # NULL
    BY <2>2, <1>4
  <2> QED BY <2>1, <2>2
<1>7. arg \in Key
  BY <1>1 DEF Control
<1>8. /\ op \in {"insert", "delete"} /\ s # <<>> => Last(s) \in used
      /\ s = <<>> /\ op # "search" => p = t
  BY <1>4
<1> QED BY <1>5, <1>6, <1>7, <1>8

\* The calls that do not change the tree.
LEMMA Answering ==
    ASSUME IInv, AllReachable, AllReachable',
           SearchDone \/ InsertIntoNothing \/ InsertCollides \/ DeleteMissing
    PROVE  Promise!NextAsKept
<1>1. /\ pc = "down" /\ (p # NULL => node[p].key = arg)
      /\ node' = node /\ used' = used /\ t' = t /\ pc' = "idle" /\ Done
  BY DEF SearchDone, InsertIntoNothing, InsertCollides, DeleteMissing, Arrived, Done
<1>2. /\ TheKeys = {node[n].key : n \in used}
      /\ TheKeys' = {node'[n].key : n \in used'}
  BY <1>1, KeysOfUsed
<1>3. TheKeys' = TheKeys
  BY <1>1, <1>2
<1>4. /\ p # NULL <=> arg \in TheKeys
      /\ t = NULL => used = {}
  BY <1>1, <1>2, AtThePlace
<1>5. ASSUME NEW o \in Calls, op = o PROVE Promise!TakesEffect(o)
  <2>1. pc \notin {"update", "crashed"}
    BY <1>1
  <2> QED BY <1>1, <1>5, <2>1, Effecting
<1>6. CASE SearchDone
  <2>1. Promise!TakesEffect("search")
    BY <1>5, <1>6 DEF SearchDone, Arrived, Calls
  <2>2. answer' = (arg \in TheKeys)
    BY <1>4, <1>6 DEF SearchDone
  <2>3. Promise!Search
    BY <1>3, <2>1, <2>2, Zenon DEF TheKeys, Promise!Search
  <2> QED BY <2>3, Zenon DEF Promise!NextAsKept, Promise!NextButInsert
<1>7. CASE InsertIntoNothing
  <2>1. Promise!TakesEffect("insert")
    BY <1>5, <1>7 DEF InsertIntoNothing, Arrived, Calls
  <2>2. answer' = FALSE /\ TheKeys = {}
    BY <1>2, <1>4, <1>7 DEF InsertIntoNothing
  <2>3. Promise!InsertIntoEmptied
    BY <1>3, <2>1, <2>2, Zenon DEF TheKeys, Promise!InsertIntoEmptied
  <2> QED BY <2>3, Zenon DEF Promise!NextAsKept
<1>8. CASE InsertCollides
  <2>1. Promise!TakesEffect("insert")
    BY <1>5, <1>8 DEF InsertCollides, Arrived, Calls
  <2>2. answer' = FALSE /\ arg \in TheKeys
    BY <1>4, <1>8 DEF InsertCollides
  <2>3. answer' = (arg \notin TheKeys) /\ TheKeys # {} /\ TheKeys' = TheKeys \cup {arg}
    BY <1>3, <2>2
  <2> QED BY <2>1, <2>3, PromiseInsert
<1>9. CASE DeleteMissing
  <2>1. Promise!TakesEffect("delete")
    BY <1>5, <1>9 DEF DeleteMissing, Arrived, Calls
  <2>2. answer' = FALSE /\ arg \notin TheKeys
    BY <1>4, <1>9 DEF DeleteMissing
  <2>3. TheKeys' = TheKeys \ {arg}
    BY <1>3, <2>2
  <2> QED BY <2>1, <2>2, <2>3, PromiseDelete
<1> QED BY <1>6, <1>7, <1>8, <1>9

\* The step that hangs a new node is Insert of the set.
LEMMA Inserting ==
    ASSUME IInv, AllReachable, AllReachable', InsertNode
    PROVE  Promise!NextAsKept
<1>1. /\ pc = "down" /\ op = "insert" /\ p = NULL /\ pc' = "update" /\ answer' = TRUE
      /\ t # NULL /\ op' = op /\ arg' = arg
  BY DEF InsertNode, Arrived
<1>2. PICK n \in Node \ used :
         LET above == Last(s)
             hung == [node EXCEPT ![n] = Fresh(arg)]
         IN  /\ node' = IF arg < node[above].key
                        THEN [hung EXCEPT ![above].left = n]
                        ELSE [hung EXCEPT ![above].right = n]
             /\ used' = used \cup {n}
  BY DEF InsertNode
<1>3. TypeOK
  BY DEF IInv
<1>4. /\ arg \in Key /\ arg \notin {node[m].key : m \in used}
      /\ t = NULL => used = {}
      /\ s # <<>> => Last(s) \in used
      /\ s = <<>> => p = t
      /\ used # {}
  BY <1>1, AtThePlace
<1>5. Last(s) \in used
  BY <1>1, <1>4
<1> DEFINE a == Last(s)
           hung == [node EXCEPT ![n] = Fresh(arg)]
<1>6. /\ node' = [hung EXCEPT ![a].left = n] \/ node' = [hung EXCEPT ![a].right = n]
      /\ used' = used \cup {n}
  BY <1>2
<1>7. /\ node \in [Node -> [key : Key, bf : -1..1, left : Pointer, right : Pointer]]
      /\ used \subseteq Node
  BY <1>3 DEF TypeOK
<1>8. /\ hung[n].key = arg /\ \A m \in used : hung[m] = node[m]
      /\ hung = [m \in Node |-> hung[m]]
  BY <1>2, <1>7 DEF Fresh
<1>9. a # n /\ a \in used
  BY <1>2, <1>5
<1> HIDE DEF a, hung
<1>10. node'[n].key = arg /\ \A m \in used : node'[m].key = node[m].key
  BY <1>2, <1>6, <1>7, <1>8, <1>9
<1>11. {node'[m].key : m \in used'} = {node[m].key : m \in used} \cup {arg}
  <2>1. {node'[m].key : m \in used} = {node[m].key : m \in used}
    BY <1>10
  <2>2. {node'[m].key : m \in used \cup {n}} = {node'[m].key : m \in used} \cup {arg}
    BY <1>10
  <2> QED BY <2>1, <2>2, <1>6
<1>12. /\ TheKeys = {node[m].key : m \in used}
       /\ TheKeys' = {node'[m].key : m \in used'}
  BY <1>1, KeysOfUsed
<1>13. TheKeys # {} /\ arg \notin TheKeys
  BY <1>4, <1>12
<1>14. TheKeys' = TheKeys \cup {arg} /\ answer' = (arg \notin TheKeys)
  BY <1>1, <1>11, <1>12, <1>13
<1>15. Promise!TakesEffect("insert")
  <2>1. "insert" \in Calls /\ pc \notin {"update", "crashed"}
    BY <1>1 DEF Calls
  <2> QED BY <1>1, <2>1, Effecting
<1> QED BY <1>13, <1>14, <1>15, PromiseInsert

\* The step that takes out a node is Delete of the set.
LEMMA Deleting ==
    ASSUME IInv, AllReachable, AllReachable', Unlink
    PROVE  Promise!NextAsKept
<1>1. TypeOK /\ Control
  BY DEF IInv
<1>2. /\ pc = "unlink" /\ pc' \in {"idle", "update"} /\ answer' = FALSE /\ used' = used \ {q}
      /\ Done \/ (pc' = "update" /\ op' = op /\ arg' = arg)
  BY DEF Unlink, Done
<1>3. PICK d \in [Pointer -> SUBSET Node] : Shape(d, {})
  BY <1>2, ShapeOf DEF Threaded
<1>4. Replacing(d) /\ HeapTree(node, {}, d, used, t)
  BY <1>3 DEF Shape
<1>5. p \in used /\ node[p].key = arg /\ q \in used
  BY <1>2, <1>4 DEF Replacing
<1>6. /\ node \in [Node -> [key : Key, bf : -1..1, left : Pointer, right : Pointer]]
      /\ used \subseteq Node
      /\ \A b, m \in used : node[b].key = node[m].key => b = m
  <2>1. \A b, m \in used : node[b].key = node[m].key => b = m
    BY <1>1, <1>4, HeapFacts
  <2> QED BY <2>1, <1>1 DEF TypeOK
<1> DEFINE a == Last(s)
           c == OnlyChild(q)
           moved == [node EXCEPT ![p].key = node[q].key, ![q] = Blank]
<1>7. \/ node' = moved
      \/ node' = [moved EXCEPT ![a].left = c]
      \/ node' = [moved EXCEPT ![a].right = c]
  BY DEF Unlink, TakenOut
<1>8. /\ \A m \in Node \ {q} : moved[m].key = IF m = p THEN node[q].key ELSE node[m].key
      /\ moved = [m \in Node |-> moved[m]]
      /\ \A m \in Node \ {q} : moved[m] \in [key : Key, bf : -1..1, left : Pointer, right : Pointer]
  <2>1. /\ moved = [m \in Node |-> moved[m]]
        /\ \A m \in Node \ {q, p} : moved[m] = node[m]
        /\ p # q => moved[p] = [node[p] EXCEPT !.key = node[q].key]
    BY <1>5, <1>6
  <2>2. \A m \in Node \ {q} : m = p \/ m \in Node \ {q, p}
    OBVIOUS
  <2>3. ASSUME p # q
        PROVE  /\ moved[p].key = node[q].key
               /\ moved[p] \in [key : Key, bf : -1..1, left : Pointer, right : Pointer]
    BY <1>5, <1>6, <2>1, <2>3
  <2> QED BY <1>5, <1>6, <2>1, <2>2, <2>3
<1> HIDE DEF a, c, moved
<1>9. ASSUME NEW m \in Node \ {q} PROVE node'[m].key = moved[m].key
  <2>1. moved[m] \in [key : Key, bf : -1..1, left : Pointer, right : Pointer]
    BY <1>8
  <2>2. CASE node' = moved
    BY <2>2
  <2>3. CASE node' = [moved EXCEPT ![a].left = c]
    BY <2>1, <2>3, <1>8
  <2>4. CASE node' = [moved EXCEPT ![a].right = c]
    BY <2>1, <2>4, <1>8
  <2> QED BY <2>2, <2>3, <2>4, <1>7
<1>10. \A m \in used \ {q} : node'[m].key = IF m = p THEN node[q].key ELSE node[m].key
  BY <1>6, <1>8, <1>9
<1>11. {node'[m].key : m \in used \ {q}} = {node[m].key : m \in used} \ {arg}
  <2>1. ASSUME NEW m \in used \ {q}
        PROVE  node'[m].key \in {node[b].key : b \in used} /\ node'[m].key # arg
    <3>1. CASE m = p
      <4>1. node'[m].key = node[q].key
        BY <3>1, <1>10
      <4>2. node[q].key # arg
        BY <3>1, <2>1, <1>5, <1>6
      <4> QED BY <4>1, <4>2, <1>5
    <3>2. CASE m # p
      <4>1. node'[m].key = node[m].key
        BY <3>2, <1>10
      <4>2. node[m].key # arg
        BY <3>2, <1>5, <1>6
      <4> QED BY <4>1, <4>2
    <3> QED BY <3>1, <3>2
  <2>2. ASSUME NEW b \in used, node[b].key # arg
        PROVE  \E m \in used \ {q} : node'[m].key = node[b].key
    <3>1. b # p
      BY <2>2, <1>5
    <3>2. CASE b # q
      BY <3>1, <3>2, <1>10
    <3>3. CASE b = q
      <4>1. p \in used \ {q}
        BY <3>1, <3>3, <1>5
      <4>2. node'[p].key = node[q].key
        BY <4>1, <1>10
      <4> QED BY <3>3, <4>1, <4>2
    <3> QED BY <3>2, <3>3
  <2> QED BY <2>1, <2>2
<1>12. /\ TheKeys = {node[m].key : m \in used}
       /\ TheKeys' = {node'[m].key : m \in used'}
  BY <1>2, KeysOfUsed
<1>13. TheKeys' = TheKeys \ {arg}
  BY <1>2, <1>11, <1>12
<1>14. Promise!TakesEffect("delete")
  <2>1. op = "delete" /\ "delete" \in Calls /\ pc \notin {"update", "crashed"}
    BY <1>1, <1>2 DEF Control, Calls
  <2> QED BY <1>2, <2>1, Effecting
<1> QED BY <1>2, <1>13, <1>14, PromiseDelete

\* bst_insert(), bst_search() and bst_delete() do to the keys of the tree what they
\* are asked for their key, in one step of each call before it returns, and answer
\* so; an insert into a tree that was emptied fails.
THEOREM TreeImplementsSet == Spec => ImplementsSet
<1>1. Init => Promise!Init
  <2> SUFFICES ASSUME Init PROVE Promise!Init
    OBVIOUS
  <2>1. /\ t \in Node /\ used = {t} /\ answer = FALSE /\ pc = "idle"
        /\ op = "none" /\ arg = NULL
    BY DEF Init
  <2>2. PICK x \in Key : node = [n \in Node |-> IF n = t THEN Fresh(x) ELSE Blank]
    BY DEF Init
  <2>3. node[t].key = x
    BY <2>1, <2>2 DEF Fresh
  <2>4. Reachable = {t}
    BY <2>1, InitHolds, NothingLeaks DEF AllReachable
  <2>5. TheKeys = {x}
    BY <2>3, <2>4 DEF TheKeys
  <2>6. TheCall = "none" /\ IsDone = FALSE
    BY <2>1 DEF TheCall, IsDone, Calls
  <2> QED BY <2>1, <2>5, <2>6, Zenon DEF Promise!Init, TheKeys, TheCall, IsDone
<1>2. IInv /\ AllReachable /\ AllReachable' /\ [Next]_vars
        => [Promise!NextAsKept]_(Promise!vars)
  <2> SUFFICES ASSUME IInv, AllReachable, AllReachable', [Next]_vars
               PROVE  [Promise!NextAsKept]_(Promise!vars)
    OBVIOUS
  <2>1. CASE \/ \E mode \in Order : Traverse(mode)
             \/ Down \/ Predecessor \/ DeleteFound
             \/ PreorderStep \/ LevelorderStep \/ DescendLeft \/ InorderStep
             \/ PostorderStep \/ Stack2Step \/ MorrisStep \/ MorrisSeek
             \/ TraversalDone \/ Destroy \/ Ended \/ UNCHANGED vars
    <3>1. Control
      BY DEF IInv
    <3>2. UNCHANGED Promise!vars
      BY <2>1, <3>1, StepsInside
    <3> QED BY <3>2
  <2>2. CASE Update \/ MorrisHang \/ MorrisCut
    BY <2>2, Rearranging
  <2>3. CASE SearchDone \/ InsertIntoNothing \/ InsertCollides \/ DeleteMissing
    BY <2>3, Answering
  <2>4. CASE \E x \in Key : Insert(x) \/ Search(x) \/ Delete(x)
    BY <2>4, Calling
  <2>5. CASE InsertNode
    BY <2>5, Inserting
  <2>6. CASE Unlink
    BY <2>6, Deleting
  <2> QED BY <2>1, <2>2, <2>3, <2>4, <2>5, <2>6, Zenon DEF Next
<1>3. IInv => AllReachable
  BY NothingLeaks
<1> QED BY <1>1, <1>2, <1>3, Invariant, PTL
        DEF Spec, ImplementsSet, Promise!SpecAsKept
=============================================================================
