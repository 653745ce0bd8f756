----------------------------- MODULE SlmProofs ------------------------------
(***************************************************************************)
(* Proofs about the memory that programs work in: its allocator (Buddy)    *)
(* and the linear output that the host reads from it (SlmDemand).          *)
(*                                                                         *)
(* The allocator, for every pool size, every set of request sizes and      *)
(* every depth of the tree.  The recursive definitions of the model are    *)
(* first shown to have the values they say.  The geometry of the tree      *)
(* follows by induction from the root: a node lies inside its parent,      *)
(* siblings do not overlap, so nodes of which neither is above the other   *)
(* do not overlap.  The invariant BIInv ties the tree to what the callers  *)
(* hold.                                                                   *)
(*                                                                         *)
(* The output of a program, for every length of the output, of its pieces  *)
(* and of the host's reads: the host is told of all output and of no byte  *)
(* more.  Of the rest of SlmDemand only that it leaves the output alone    *)
(* matters here.                                                           *)
(***************************************************************************)
EXTENDS Buddy, SlmDemand, NumberFacts

-----------------------------------------------------------------------------
(* The allocator.                                                          *)

LEMMA ConstTypes ==
    /\ Pool \in Nat \ {0} /\ Inner \in Nat /\ Requests \subseteq Nat \ {0}
    /\ 2 * Inner + 1 \in Nat \ {0} /\ Nodes = 1..(2 * Inner + 1) /\ 1 \in Nodes
  BY BuddyAssumption DEF Nodes

LEMMA Halves ==
    /\ \A n \in Nodes : n \in Nat
    /\ \A n \in Nodes : n # 1 => n \div 2 \in Nodes /\ n \div 2 < n /\ n \div 2 <= Inner
                                  /\ (n = 2 * (n \div 2) \/ n = 2 * (n \div 2) + 1)
    /\ \A p \in Nodes : p <= Inner => /\ 2 * p \in Nodes /\ 2 * p + 1 \in Nodes
                                        /\ (2 * p) \div 2 = p /\ (2 * p + 1) \div 2 = p
                                        /\ (2 * p) % 2 = 0 /\ (2 * p + 1) % 2 = 1
  BY ConstTypes

(* What holds of the root, and of a node when it holds of its parent,      *)
(* holds of all nodes.                                                     *)
LEMMA NodeInduction ==
    ASSUME NEW T, 1 \in T, \A n \in Nodes : n # 1 /\ n \div 2 \in T => n \in T
    PROVE  \A n \in Nodes : n \in T
<1> DEFINE U == {n \in Nodes : n \notin T}
<1> SUFFICES ASSUME U # {} PROVE FALSE
  OBVIOUS
<1>1. U \in SUBSET Nat
  BY Halves
<1>2. PICK x \in U : \A y \in U : x <= y
  <2> HIDE DEF U
  <2> QED BY <1>1, LeastElement
<1>3. x \in Nodes /\ x # 1 /\ x \div 2 \in Nodes /\ x \div 2 < x /\ x \in Nat /\ x \div 2 \in Nat
  BY <1>2, Halves
<1>4. x \div 2 \in T
  BY <1>2, <1>3
<1> QED BY <1>2, <1>3, <1>4

(* The recursive definitions. *)
LEMMA NodeSizeDef ==
    /\ NodeSize \in [Nodes -> Nat] /\ NodeSize[1] = Pool
    /\ \A n \in Nodes : n # 1 => NodeSize[n] = NodeSize[n \div 2] \div 2
<1> DEFINE up == [n \in Nodes |-> [x \in Nat |-> x \div 2]]
           f  == CHOOSE f : f = [n \in Nodes |-> IF n = 1 THEN Pool ELSE f[n \div 2] \div 2]
<1>1. \A x \in Nat : x \div 2 \in Nat
  OBVIOUS
<1>2. up \in [1..(2 * Inner + 1) -> [Nat -> Nat]]
  BY <1>1, ConstTypes
<1>3. \A n \in Nodes, x \in Nat : up[n][x] = x \div 2
  OBVIOUS
<1> HIDE DEF up
<1>4. PICK g \in [1..(2 * Inner + 1) -> Nat] :
         g[1] = Pool /\ \A n \in 2..(2 * Inner + 1) : g[n] = up[n][g[n \div 2]]
  <2> DEFINE N == 2 * Inner + 1
  <2>1. N \in Nat \ {0} /\ up \in [1..N -> [Nat -> Nat]] /\ Pool \in Nat /\ 0 \in Nat
    BY <1>2, ConstTypes
  <2> HIDE DEF N
  <2>2. \E g \in [1..N -> Nat] : TreeRec(g, Pool, N, up)
    BY <2>1, TreeRecExists
  <2> QED BY <2>2 DEF N, TreeRec
<1>5. g \in [Nodes -> Nat] /\ g[1] = Pool /\ \A n \in Nodes : n # 1 => g[n] = g[n \div 2] \div 2
  <2>1. g \in [Nodes -> Nat] /\ g[1] = Pool
    BY <1>4, ConstTypes
  <2>2. ASSUME NEW n \in Nodes, n # 1 PROVE g[n] = g[n \div 2] \div 2
    <3>1. n \div 2 \in Nodes /\ n \in 2..(2 * Inner + 1)
      BY <2>2, Halves, ConstTypes
    <3>2. g[n \div 2] \in Nat
      BY <2>1, <3>1
    <3> QED BY <1>3, <1>4, <3>1, <3>2
  <2> QED BY <2>1, <2>2
<1>6. g = [n \in Nodes |-> IF n = 1 THEN Pool ELSE g[n \div 2] \div 2]
  BY <1>5
<1>7. f = [n \in Nodes |-> IF n = 1 THEN Pool ELSE f[n \div 2] \div 2]
  BY <1>6, Zenon
<1>8. NodeSize = f
  BY DEF NodeSize
<1> HIDE DEF f
<1>9. NodeSize[1] = Pool /\ \A n \in Nodes : n # 1 => NodeSize[n] = NodeSize[n \div 2] \div 2
  BY <1>7, <1>8, ConstTypes
<1>10. \A n \in Nodes : NodeSize[n] \in Nat
  <2> DEFINE T == {n \in Nodes : NodeSize[n] \in Nat}
  <2>1. 1 \in T
    BY <1>9, ConstTypes
  <2>2. ASSUME NEW n \in Nodes, n # 1, n \div 2 \in T PROVE n \in T
    BY <1>9, <2>2
  <2> HIDE DEF T
  <2>3. \A n \in Nodes : n \in T
    BY <2>1, <2>2, NodeInduction
  <2> QED BY <2>3 DEF T
<1> QED BY <1>7, <1>8, <1>9, <1>10

LEMMA NodeIdxDef ==
    /\ NodeIdx \in [Nodes -> Nat] /\ NodeIdx[1] = 0
    /\ \A n \in Nodes : n # 1 =>
          NodeIdx[n] = NodeIdx[n \div 2] + (IF n % 2 = 1 THEN NodeSize[n \div 2] \div 2 ELSE 0)
<1> DEFINE Add(n) == IF n % 2 = 1 THEN NodeSize[n \div 2] \div 2 ELSE 0
           up == [n \in Nodes |-> [x \in Nat |-> IF n = 1 THEN x ELSE x + Add(n)]]
           f  == CHOOSE f : f = [n \in Nodes |->
                    IF n = 1 THEN 0 ELSE f[n \div 2] + (IF n % 2 = 1 THEN NodeSize[n \div 2] \div 2 ELSE 0)]
<1>1. ASSUME NEW n \in Nodes, n # 1 PROVE Add(n) \in Nat
  <2>1. NodeSize[n \div 2] \in Nat
    BY <1>1, Halves, NodeSizeDef
  <2> QED BY <2>1
<1> HIDE DEF Add
<1>2. up \in [1..(2 * Inner + 1) -> [Nat -> Nat]]
  BY <1>1, ConstTypes
<1>3. \A n \in Nodes, x \in Nat : n # 1 => up[n][x] = x + Add(n)
  OBVIOUS
<1> HIDE DEF up
<1>4. PICK g \in [1..(2 * Inner + 1) -> Nat] :
         g[1] = 0 /\ \A n \in 2..(2 * Inner + 1) : g[n] = up[n][g[n \div 2]]
  <2> DEFINE N == 2 * Inner + 1
  <2>1. N \in Nat \ {0} /\ up \in [1..N -> [Nat -> Nat]] /\ Pool \in Nat /\ 0 \in Nat
    BY <1>2, ConstTypes
  <2> HIDE DEF N
  <2>2. \E g \in [1..N -> Nat] : TreeRec(g, 0, N, up)
    BY <2>1, TreeRecExists
  <2> QED BY <2>2 DEF N, TreeRec
<1>5. g \in [Nodes -> Nat] /\ g[1] = 0 /\ \A n \in Nodes : n # 1 => g[n] = g[n \div 2] + Add(n)
  <2>1. g \in [Nodes -> Nat] /\ g[1] = 0
    BY <1>4, ConstTypes
  <2>2. ASSUME NEW n \in Nodes, n # 1 PROVE g[n] = g[n \div 2] + Add(n)
    <3>1. n \div 2 \in Nodes /\ n \in 2..(2 * Inner + 1)
      BY <2>2, Halves, ConstTypes
    <3>2. g[n \div 2] \in Nat
      BY <2>1, <3>1
    <3> QED BY <1>3, <1>4, <2>2, <3>1, <3>2
  <2> QED BY <2>1, <2>2
<1>6. g = [n \in Nodes |-> IF n = 1 THEN 0 ELSE g[n \div 2] + (IF n % 2 = 1 THEN NodeSize[n \div 2] \div 2 ELSE 0)]
  BY <1>5 DEF Add
<1>7. f = [n \in Nodes |-> IF n = 1 THEN 0 ELSE f[n \div 2] + (IF n % 2 = 1 THEN NodeSize[n \div 2] \div 2 ELSE 0)]
  BY <1>6, Zenon
<1>8. NodeIdx = f
  BY DEF NodeIdx
<1> HIDE DEF f
<1>9. NodeIdx[1] = 0 /\ \A n \in Nodes : n # 1 => NodeIdx[n] = NodeIdx[n \div 2] + Add(n)
  BY <1>7, <1>8, ConstTypes DEF Add
<1>10. \A n \in Nodes : NodeIdx[n] \in Nat
  <2> DEFINE T == {n \in Nodes : NodeIdx[n] \in Nat}
  <2>1. 1 \in T
    BY <1>9, ConstTypes
  <2>2. ASSUME NEW n \in Nodes, n # 1, n \div 2 \in T PROVE n \in T
    BY <1>1, <1>9, <2>2
  <2> HIDE DEF T
  <2>3. \A n \in Nodes : n \in T
    BY <2>1, <2>2, NodeInduction
  <2> QED BY <2>3 DEF T
<1> QED BY <1>7, <1>8, <1>9, <1>10 DEF Add

LEMMA PathDef ==
    /\ Path[1] = {1}
    /\ \A n \in Nodes : n # 1 => Path[n] = Path[n \div 2] \cup {n}
<1> DEFINE up == [n \in Nodes |-> [x \in SUBSET Nodes |-> x \cup {n}]]
           f  == CHOOSE f : f = [n \in Nodes |-> IF n = 1 THEN {1} ELSE f[n \div 2] \cup {n}]
<1>2. up \in [1..(2 * Inner + 1) -> [SUBSET Nodes -> SUBSET Nodes]]
  BY ConstTypes
<1>3. \A n \in Nodes, x \in SUBSET Nodes : up[n][x] = x \cup {n}
  OBVIOUS
<1> HIDE DEF up
<1>4. PICK g \in [1..(2 * Inner + 1) -> SUBSET Nodes] :
         g[1] = {1} /\ \A n \in 2..(2 * Inner + 1) : g[n] = up[n][g[n \div 2]]
  <2>1. {1} \in SUBSET Nodes
    BY ConstTypes
  <2> DEFINE N == 2 * Inner + 1
             S == SUBSET Nodes
  <2>2. N \in Nat \ {0} /\ up \in [1..N -> [S -> S]] /\ {1} \in S
    BY <1>2, <2>1, ConstTypes
  <2> HIDE DEF N, S
  <2>3. \E g \in [1..N -> S] : TreeRec(g, {1}, N, up)
    BY <2>2, TreeRecExists
  <2> QED BY <2>3 DEF N, S, TreeRec
<1>5. g \in [Nodes -> SUBSET Nodes] /\ g[1] = {1} /\ \A n \in Nodes : n # 1 => g[n] = g[n \div 2] \cup {n}
  <2>1. g \in [Nodes -> SUBSET Nodes] /\ g[1] = {1}
    BY <1>4, ConstTypes
  <2>2. ASSUME NEW n \in Nodes, n # 1 PROVE g[n] = g[n \div 2] \cup {n}
    <3>1. n \div 2 \in Nodes /\ n \in 2..(2 * Inner + 1)
      BY <2>2, Halves, ConstTypes
    <3>2. g[n \div 2] \in SUBSET Nodes
      BY <2>1, <3>1
    <3> QED BY <1>3, <1>4, <3>1, <3>2
  <2> QED BY <2>1, <2>2
<1>6. g = [n \in Nodes |-> IF n = 1 THEN {1} ELSE g[n \div 2] \cup {n}]
  BY <1>5
<1>7. f = [n \in Nodes |-> IF n = 1 THEN {1} ELSE f[n \div 2] \cup {n}]
  BY <1>6, Zenon
<1>8. Path = f
  BY DEF Path
<1> HIDE DEF f
<1> QED BY <1>7, <1>8, ConstTypes

-----------------------------------------------------------------------------
(* Paths from the root. *)

LEMMA PathBasic ==
    \A n \in Nodes : /\ n \in Path[n] /\ 1 \in Path[n]
                     /\ \A m \in Path[n] : m \in Nodes /\ m <= n
<1> DEFINE T == {n \in Nodes : n \in Path[n] /\ 1 \in Path[n] /\ \A m \in Path[n] : m \in Nodes /\ m <= n}
<1>1. 1 \in T
  BY PathDef, ConstTypes
<1>2. ASSUME NEW n \in Nodes, n # 1, n \div 2 \in T PROVE n \in T
  <2>1. Path[n] = Path[n \div 2] \cup {n}
    BY <1>2, PathDef
  <2>2. n \in Nat /\ n \div 2 < n /\ n \div 2 \in Nat
    BY <1>2, Halves
  <2>3. \A m \in Path[n \div 2] : m \in Nodes /\ m \in Nat /\ m <= n \div 2
    BY <1>2, Halves
  <2> QED BY <1>2, <2>1, <2>2, <2>3
<1> HIDE DEF T
<1>3. \A n \in Nodes : n \in T
  BY <1>1, <1>2, NodeInduction
<1> QED BY <1>3 DEF T

(* Above n, or n itself. *)
LEMMA PathUp ==
    ASSUME NEW n \in Nodes, NEW m \in Path[n], m # n
    PROVE  n # 1 /\ n \div 2 \in Nodes /\ m \in Path[n \div 2] /\ m < n /\ m <= n \div 2
<1>1. n # 1
  BY PathDef
<1>2. m \in Path[n \div 2] /\ n \div 2 \in Nodes /\ n \div 2 < n
  BY <1>1, PathDef, Halves
<1>3. m \in Nat /\ n \in Nat /\ m <= n \div 2 /\ n \div 2 \in Nat
  BY <1>2, PathBasic, Halves
<1> QED BY <1>1, <1>2, <1>3

LEMMA PathTrans ==
    ASSUME NEW n \in Nodes, NEW m \in Path[n]
    PROVE  Path[m] \subseteq Path[n]
<1> DEFINE T == {k \in Nodes : \A j \in Path[k] : Path[j] \subseteq Path[k]}
<1>1. 1 \in T
  BY PathDef, ConstTypes
<1>2. ASSUME NEW k \in Nodes, k # 1, k \div 2 \in T PROVE k \in T
  <2>1. Path[k] = Path[k \div 2] \cup {k}
    BY <1>2, PathDef
  <2> QED BY <1>2, <2>1
<1> HIDE DEF T
<1>3. n \in T
  BY <1>1, <1>2, NodeInduction
<1> QED BY <1>3 DEF T

(* The nodes above one node are above each other. *)
LEMMA PathChain ==
    ASSUME NEW n \in Nodes, NEW p \in Path[n], NEW q \in Path[n], p <= q
    PROVE  p \in Path[q]
<1> DEFINE T == {k \in Nodes : \A i, j \in Path[k] : i <= j => i \in Path[j]}
<1>1. 1 \in T
  BY PathDef, ConstTypes
<1>2. ASSUME NEW k \in Nodes, k # 1, k \div 2 \in T PROVE k \in T
  <2>1. Path[k] = Path[k \div 2] \cup {k}
    BY <1>2, PathDef
  <2>2. ASSUME NEW i \in Path[k], NEW j \in Path[k], i <= j PROVE i \in Path[j]
    <3>1. CASE j = k
      BY <3>1
    <3>2. CASE j # k
      <4>1. j < k /\ j \in Path[k \div 2] /\ j \in Nat /\ k \in Nat /\ i \in Nat
        BY <3>2, PathUp, PathBasic, Halves
      <4>2. i # k
        BY <2>2, <4>1
      <4> QED BY <1>2, <2>1, <2>2, <4>1, <4>2
    <3> QED BY <3>1, <3>2
  <2> QED BY <1>2, <2>2
<1> HIDE DEF T
<1>3. n \in T
  BY <1>1, <1>2, NodeInduction
<1> QED BY <1>3 DEF T

(* Strictly below p is below one of its halves. *)
LEMMA PathDown ==
    ASSUME NEW n \in Nodes, NEW p \in Path[n], p # n
    PROVE  /\ p \in Nodes /\ p <= Inner /\ 2 * p \in Nodes /\ 2 * p + 1 \in Nodes
           /\ 2 * p \in Path[n] \/ 2 * p + 1 \in Path[n]
<1> DEFINE T == {k \in Nodes : \A j \in Path[k] : j # k => j <= Inner /\ (2 * j \in Path[k] \/ 2 * j + 1 \in Path[k])}
<1>1. 1 \in T
  BY PathDef, ConstTypes
<1>2. ASSUME NEW k \in Nodes, k # 1, k \div 2 \in T PROVE k \in T
  <2> DEFINE h == k \div 2
  <2>1. Path[k] = Path[h] \cup {k} /\ h <= Inner /\ (k = 2 * h \/ k = 2 * h + 1)
    BY <1>2, PathDef, Halves
  <2>2. \A j \in Path[h] : j # h => j <= Inner /\ (2 * j \in Path[h] \/ 2 * j + 1 \in Path[h])
    BY <1>2
  <2> HIDE DEF h
  <2>3. ASSUME NEW j \in Path[k], j # k PROVE j <= Inner /\ (2 * j \in Path[k] \/ 2 * j + 1 \in Path[k])
    <3>1. CASE j = h
      BY <2>1, <3>1
    <3>2. CASE j # h
      BY <2>1, <2>2, <2>3, <3>2
    <3> QED BY <3>1, <3>2
  <2> QED BY <2>3
<1> HIDE DEF T
<1>3. n \in T
  BY <1>1, <1>2, NodeInduction
<1>4. p \in Nodes /\ p <= Inner /\ (2 * p \in Path[n] \/ 2 * p + 1 \in Path[n])
  BY <1>3, PathBasic DEF T
<1> QED BY <1>4, Halves

-----------------------------------------------------------------------------
(* Where the nodes lie. *)

End(n) == NodeIdx[n] + NodeSize[n]
NodesApart(m, n) == End(m) <= NodeIdx[n] \/ End(n) <= NodeIdx[m]

LEMMA Places ==
    \A n \in Nodes : NodeIdx[n] \in Nat /\ NodeSize[n] \in Nat /\ End(n) \in Nat
  BY NodeSizeDef, NodeIdxDef DEF End

(* A node lies inside its parent, the left half before the right one. *)
LEMMA HalvesLie ==
    ASSUME NEW p \in Nodes, p <= Inner
    PROVE  /\ NodeSize[2 * p] = NodeSize[p] \div 2 /\ NodeSize[2 * p + 1] = NodeSize[p] \div 2
           /\ NodeIdx[2 * p] = NodeIdx[p] /\ NodeIdx[2 * p + 1] = End(2 * p)
           /\ End(2 * p) <= End(p) /\ End(2 * p + 1) <= End(p)
<1> DEFINE l == 2 * p
           r == 2 * p + 1
<1>1. /\ l \in Nodes /\ r \in Nodes /\ l # 1 /\ r # 1 /\ l \div 2 = p /\ r \div 2 = p
      /\ l % 2 = 0 /\ r % 2 = 1
  BY Halves
<1> HIDE DEF l, r
<1>2. NodeSize[l] = NodeSize[p] \div 2 /\ NodeSize[r] = NodeSize[p] \div 2
  BY <1>1, NodeSizeDef
<1>3. NodeIdx[l] = NodeIdx[p] + 0 /\ NodeIdx[r] = NodeIdx[p] + NodeSize[p] \div 2
  BY <1>1, NodeIdxDef
<1>4. NodeSize[p] \in Nat /\ NodeIdx[p] \in Nat
  BY Places
<1> QED BY <1>2, <1>3, <1>4 DEF End, l, r

LEMMA Nested ==
    ASSUME NEW n \in Nodes, NEW m \in Path[n]
    PROVE  NodeIdx[m] <= NodeIdx[n] /\ End(n) <= End(m) /\ NodeSize[n] <= NodeSize[m]
<1> DEFINE In(j, k) == NodeIdx[j] <= NodeIdx[k] /\ End(k) <= End(j) /\ NodeSize[k] <= NodeSize[j]
           T == {k \in Nodes : \A j \in Path[k] : In(j, k)}
<1>1. 1 \in T
  BY PathDef, ConstTypes, Places
<1>2. ASSUME NEW k \in Nodes, k # 1, k \div 2 \in T PROVE k \in T
  <2> DEFINE h == k \div 2
  <2>1. Path[k] = Path[h] \cup {k} /\ h \in Nodes /\ h <= Inner /\ (k = 2 * h \/ k = 2 * h + 1)
    BY <1>2, PathDef, Halves
  <2>2. \A j \in Path[h] : In(j, h)
    BY <1>2
  <2> HIDE DEF h
  <2>3. In(h, k)
    BY <2>1, HalvesLie, Places DEF End
  <2>4. ASSUME NEW j \in Path[k] PROVE In(j, k)
    <3>1. CASE j = k
      BY <3>1, Places
    <3>2. CASE j # k
      <4>1. j \in Path[h] /\ j \in Nodes
        BY <2>1, <3>2, PathBasic
      <4> QED BY <2>1, <2>2, <2>3, <4>1, Places
    <3> QED BY <3>1, <3>2
  <2> QED BY <2>4
<1> HIDE DEF T
<1>3. n \in T
  BY <1>1, <1>2, NodeInduction
<1> QED BY <1>3 DEF T

(* Nodes of which neither is above the other do not overlap. *)
LEMMA Separate ==
    ASSUME NEW m \in Nodes, NEW n \in Nodes, n \notin Path[m], m \notin Path[n]
    PROVE  NodesApart(m, n)
<1> DEFINE T == {k \in Nodes : n \in Path[k] \/ k \in Path[n] \/ NodesApart(k, n)}
<1>1. 1 \in T
  BY PathBasic, ConstTypes
<1>2. ASSUME NEW k \in Nodes, k # 1, k \div 2 \in T PROVE k \in T
  <2> DEFINE h == k \div 2
  <2>1. Path[k] = Path[h] \cup {k} /\ h \in Nodes /\ h <= Inner /\ (k = 2 * h \/ k = 2 * h + 1)
    BY <1>2, PathDef, Halves
  <2>2. n \in Path[h] \/ h \in Path[n] \/ NodesApart(h, n)
    BY <1>2
  <2> HIDE DEF h
  <2>3. h \in Path[k] /\ NodeIdx[h] <= NodeIdx[k] /\ End(k) <= End(h)
    BY <2>1, PathBasic, Nested
  <2>4. CASE n \in Path[h]
    BY <2>1, <2>4
  <2>5. CASE NodesApart(h, n)
    BY <2>1, <2>3, <2>5, Places DEF NodesApart
  <2>6. CASE h \in Path[n] /\ h # n
    <3>1. 2 * h \in Path[n] \/ 2 * h + 1 \in Path[n]
      BY <2>6, PathDown
    <3>2. /\ 2 * h \in Nodes /\ 2 * h + 1 \in Nodes /\ NodeIdx[2 * h + 1] = End(2 * h)
      BY <2>1, HalvesLie, Halves
    <3>3. CASE k \in Path[n]
      BY <3>3
    <3>4. CASE k = 2 * h /\ 2 * h + 1 \in Path[n]
      <4>1. NodeIdx[2 * h + 1] <= NodeIdx[n]
        BY <3>4, Nested
      <4> QED BY <3>2, <3>4, <4>1 DEF NodesApart
    <3>5. CASE k = 2 * h + 1 /\ 2 * h \in Path[n]
      <4>1. End(n) <= End(2 * h)
        BY <3>5, Nested
      <4> QED BY <3>2, <3>5, <4>1 DEF NodesApart
    <3> QED BY <2>1, <3>1, <3>3, <3>4, <3>5
  <2>7. CASE h = n
    BY <2>1, <2>3, <2>7
  <2> QED BY <2>2, <2>4, <2>5, <2>6, <2>7
<1> HIDE DEF T
<1>3. m \in T
  BY <1>1, <1>2, NodeInduction
<1> QED BY <1>3 DEF T

-----------------------------------------------------------------------------
(* The inductive invariant.  A node exists iff its parent is split, no     *)
(* split has two free halves, and the ALLOC nodes are what is held.        *)

States == {"NONE", "FREE", "SPLIT", "ALLOC"}
Tree(s) == \A n \in Nodes : (s[n] # "NONE") <=> (n = 1 \/ s[n \div 2] = "SPLIT")
Useful(s) == \A n \in Nodes : s[n] = "SPLIT" => n <= Inner /\ ~(s[2 * n] = "FREE" /\ s[2 * n + 1] = "FREE")
AllocHeld(s) ==
    \A n \in Nodes : s[n] = "ALLOC" =>
        /\ act[n] \in Requests /\ act[n] <= NodeSize[n]
        /\ NodeIdx[n] \in DOMAIN live /\ live[NodeIdx[n]] = act[n]
HeldAlloc(s) == \A a \in DOMAIN live : \E n \in Nodes : s[n] = "ALLOC" /\ NodeIdx[n] = a

BIInv == TypeOK /\ Useful(st) /\ AllocHeld(st) /\ HeldAlloc(st)

LEMMA Above ==
    ASSUME NEW s, Tree(s), NEW n \in Nodes, s[n] # "NONE", NEW m \in Path[n], m # n
    PROVE  s[m] = "SPLIT"
<1> DEFINE T == {k \in Nodes : s[k] # "NONE" => \A j \in Path[k] : j # k => s[j] = "SPLIT"}
<1>1. 1 \in T
  BY PathDef, ConstTypes
<1>2. ASSUME NEW k \in Nodes, k # 1, k \div 2 \in T PROVE k \in T
  <2>1. Path[k] = Path[k \div 2] \cup {k} /\ k \div 2 \in Nodes
    BY <1>2, PathDef, Halves
  <2>2. s[k] # "NONE" => s[k \div 2] = "SPLIT"
    BY <1>2 DEF Tree
  <2> QED BY <1>2, <2>1, <2>2
<1> HIDE DEF T
<1>3. n \in T
  BY <1>1, <1>2, NodeInduction
<1> QED BY <1>3 DEF T

(* Two nodes in use or free do not overlap. *)
LEMMA LeavesApart ==
    ASSUME NEW s, Tree(s), NEW m \in Nodes, NEW n \in Nodes, m # n,
           s[m] \in {"FREE", "ALLOC"}, s[n] \in {"FREE", "ALLOC"}
    PROVE  NodesApart(m, n) /\ n \notin Path[m] /\ m \notin Path[n]
<1>1. n \notin Path[m] /\ m \notin Path[n]
  BY Above
<1> QED BY <1>1, Separate

LEMMA Greatest ==
    ASSUME NEW T \in SUBSET Nodes, T # {}
    PROVE  \E x \in T : \A y \in T : y <= x
<1> DEFINE N == 2 * Inner + 1
           U == {N - y : y \in T}
<1>1. N \in Nat /\ \A y \in T : y \in Nat /\ N - y \in Nat
  BY ConstTypes
<1> HIDE DEF N
<1>2. U \in SUBSET Nat /\ U # {}
  BY <1>1
<1>3. PICK u \in U : \A v \in U : u <= v
  <2> HIDE DEF U
  <2> QED BY <1>2, LeastElement
<1>4. PICK x \in T : u = N - x
  BY <1>3
<1>5. ASSUME NEW y \in T PROVE y <= x
  <2>1. N - x <= N - y
    BY <1>3, <1>4
  <2> QED BY <1>1, <2>1
<1> QED BY <1>5

(* Every split holds something. *)
LEMMA SplitHolds ==
    ASSUME BIInv, NEW n \in Nodes, st[n] = "SPLIT"
    PROVE  \E k \in Nodes : st[k] = "ALLOC" /\ n \in Path[k]
<1> DEFINE T == {k \in Nodes : st[k] = "SPLIT" /\ n \in Path[k]}
<1>1. T \in SUBSET Nodes /\ n \in T
  BY PathBasic
<1>2. PICK x \in T : \A y \in T : y <= x
  <2> HIDE DEF T
  <2> QED BY <1>1, Greatest
<1>3. x \in Nodes /\ x <= Inner /\ ~(st[2 * x] = "FREE" /\ st[2 * x + 1] = "FREE") /\ x \in Nat /\ x > 0
  BY <1>2, ConstTypes DEF BIInv, Useful
<1>4. ASSUME NEW c \in {2 * x, 2 * x + 1}
      PROVE  c \in Nodes /\ st[c] \in {"FREE", "ALLOC"} /\ n \in Path[c]
  <2>1. c \in Nodes /\ c # 1 /\ c \div 2 = x /\ c > x
    BY <1>3, Halves
  <2>2. Path[c] = Path[x] \cup {c}
    BY <2>1, PathDef
  <2>3. st[c] # "NONE" /\ st[c] \in States
    BY <1>2, <2>1 DEF BIInv, TypeOK, States
  <2>4. st[c] # "SPLIT"
    BY <1>2, <1>3, <2>1, <2>2
  <2> QED BY <1>2, <2>1, <2>2, <2>3, <2>4 DEF States
<1> QED BY <1>3, <1>4

(* The node a request takes. *)
LEMMA FirstFitFacts ==
    ASSUME NEW size, Fits(size) # {}
    PROVE  FirstFit(size) \in Nodes /\ st[FirstFit(size)] = "FREE" /\ NodeSize[FirstFit(size)] >= size
<1> DEFINE I == {NodeIdx[n] : n \in Fits(size)}
<1>1. I \in SUBSET Nat /\ I # {}
  BY Places DEF Fits
<1>2. PICK i \in I : \A j \in I : i <= j
  <2> HIDE DEF I
  <2> QED BY <1>1, LeastElement
<1>3. \E n \in Fits(size) : \A m \in Fits(size) : NodeIdx[n] <= NodeIdx[m]
  BY <1>2
<1>4. FirstFit(size) \in Fits(size)
  BY <1>3 DEF FirstFit
<1> QED BY <1>4 DEF Fits

LEMMA TargetFacts ==
    ASSUME NEW n \in Nodes, NEW size \in Requests, NodeSize[n] >= size
    PROVE  /\ Target(n, size) \in Nodes /\ n \in Path[Target(n, size)]
           /\ \A k \in Path[Target(n, size)] : k \notin Path[n] => k % 2 = 0
           /\ NodeSize[Target(n, size)] >= size
<1> DEFINE T == {m \in LeftFrom(n) : NodeSize[m] >= size}
<1>1. T \in SUBSET Nodes /\ n \in T
  BY PathBasic DEF LeftFrom, Below
<1>2. PICK x \in T : \A y \in T : y <= x
  <2> HIDE DEF T
  <2> QED BY <1>1, Greatest
<1>3. x \in Nodes /\ x \in LeftFrom(n) /\ NodeSize[x] >= size /\ x \in Nat /\ x > 0
  BY <1>1, <1>2, ConstTypes
<1>4. NodeSize[x] \div 2 < size
  <2> SUFFICES ASSUME ~(NodeSize[x] \div 2 < size) PROVE FALSE
    OBVIOUS
  <2>1. x <= Inner
    BY <1>3, BuddyAssumption, ConstTypes
  <2> DEFINE l == 2 * x
  <2>2. l \in Nodes /\ l # 1 /\ l \div 2 = x /\ l % 2 = 0 /\ l > x /\ NodeSize[l] = NodeSize[x] \div 2
    BY <1>3, <2>1, Halves, HalvesLie
  <2> HIDE DEF l
  <2>3. Path[l] = Path[x] \cup {l}
    BY <2>2, PathDef
  <2>4. l \in LeftFrom(n)
    BY <1>3, <2>2, <2>3 DEF LeftFrom, Below
  <2>5. NodeSize[l] >= size
    BY <1>3, <2>2, ConstTypes, Places
  <2> QED BY <1>2, <1>3, <2>2, <2>4, <2>5, Halves
<1>5. Target(n, size) \in LeftFrom(n) /\ NodeSize[Target(n, size)] >= size
  BY <1>3, <1>4 DEF Target
<1> QED BY <1>5 DEF LeftFrom, Below

-----------------------------------------------------------------------------
(* Splitting from n down to t. *)

LEMMA SiblingFacts ==
    ASSUME NEW n \in Nodes, n # 1
    PROVE  /\ Sibling(n) \in Nodes /\ Sibling(n) # 1 /\ Sibling(n) # n
           /\ Sibling(n) \div 2 = n \div 2 /\ Sibling(Sibling(n)) = n
           /\ n = 2 * (n \div 2) => Sibling(n) = 2 * (n \div 2) + 1
           /\ n = 2 * (n \div 2) + 1 => Sibling(n) = 2 * (n \div 2)
           /\ n % 2 = 0 => n = 2 * (n \div 2)
<1>1. PICK h \in Nodes : h = n \div 2 /\ h <= Inner /\ (n = 2 * h \/ n = 2 * h + 1)
  BY Halves
<1>2. h \in Nat /\ h > 0
  BY ConstTypes
<1>3. /\ 2 * h \in Nodes /\ 2 * h + 1 \in Nodes /\ (2 * h) \div 2 = h /\ (2 * h + 1) \div 2 = h
      /\ (2 * h) % 2 = 0 /\ (2 * h + 1) % 2 = 1
  BY <1>1, Halves
<1>4. Sibling(2 * h) = 2 * h + 1 /\ Sibling(2 * h + 1) = 2 * h
  BY <1>2, <1>3 DEF Sibling
<1>5. CASE n = 2 * h
  BY <1>1, <1>2, <1>3, <1>4, <1>5
<1>6. CASE n = 2 * h + 1
  BY <1>1, <1>2, <1>3, <1>4, <1>6
<1> QED BY <1>1, <1>5, <1>6

Spine(m, n, t) == n \in Path[m] /\ m \in Path[t]
Off(m, n, t) == m # 1 /\ Sibling(m) # n /\ Spine(Sibling(m), n, t)
SplitDown(s, n, t) ==
    [m \in Nodes |-> IF m = t THEN "ALLOC" ELSE IF Spine(m, n, t) THEN "SPLIT"
                     ELSE IF Off(m, n, t) THEN "FREE" ELSE s[m]]
LeftOnly(n, t) == n \in Path[t] /\ \A k \in Path[t] : k \notin Path[n] => k % 2 = 0

LEMMA StrictlyBelow ==
    ASSUME NEW p \in Nodes, p # 1, NEW n \in Path[p \div 2]
    PROVE  n \in Path[p] /\ n # p /\ p \notin Path[n] /\ n < p
<1>1. Path[p] = Path[p \div 2] \cup {p} /\ p \div 2 \in Nodes /\ p \div 2 < p /\ p \in Nat /\ p \div 2 \in Nat
  BY PathDef, Halves
<1>2. n \in Nodes /\ n \in Nat /\ n <= p \div 2
  BY <1>1, PathBasic, Halves
<1>3. n < p
  BY <1>1, <1>2
<1>4. p \notin Path[n]
  BY <1>1, <1>2, <1>3, PathBasic
<1> QED BY <1>1, <1>2, <1>3, <1>4

LEMMA SpineFacts ==
    ASSUME NEW n \in Nodes, NEW t \in Nodes, LeftOnly(n, t), NEW m \in Nodes
    PROVE  /\ Spine(n, n, t) /\ Spine(t, n, t)
           /\ Spine(m, n, t) /\ m # n => m # 1 /\ Spine(m \div 2, n, t) /\ m \div 2 # t /\ m = 2 * (m \div 2)
           /\ Spine(m, n, t) /\ m # t =>
                 m <= Inner /\ Spine(2 * m, n, t) /\ ~Spine(2 * m + 1, n, t) /\ Off(2 * m + 1, n, t)
           /\ Off(m, n, t) => /\ ~Spine(m, n, t) /\ n \in Path[m] /\ m # n /\ m # 1
                              /\ Spine(m \div 2, n, t) /\ m \div 2 # t
<1>1. Spine(n, n, t) /\ Spine(t, n, t)
  BY PathBasic DEF Spine, LeftOnly
<1>2. ASSUME NEW k \in Nodes, Spine(k, n, t), k # n
      PROVE  k # 1 /\ Spine(k \div 2, n, t) /\ k \div 2 # t /\ k = 2 * (k \div 2)
  <2>1. k # 1 /\ k \div 2 \in Nodes /\ n \in Path[k \div 2] /\ n < k
    BY <1>2, PathUp DEF Spine
  <2>2. k \div 2 \in Path[k] /\ k \div 2 < k /\ k \in Nat /\ k \div 2 \in Nat
    BY <2>1, PathDef, PathBasic, Halves
  <2>3. k \div 2 \in Path[t] /\ k <= t /\ t \in Nat
    BY <1>2, <2>2, PathTrans, PathBasic, Halves DEF Spine
  <2>4. k \notin Path[n]
    BY <2>1, StrictlyBelow
  <2>5. k % 2 = 0
    BY <1>2, <2>4 DEF LeftOnly, Spine
  <2>6. k = 2 * (k \div 2)
    BY <2>1, <2>5, SiblingFacts
  <2> QED BY <2>1, <2>2, <2>3, <2>6 DEF Spine
<1>3. ASSUME Spine(m, n, t), m # t
      PROVE  m <= Inner /\ Spine(2 * m, n, t) /\ ~Spine(2 * m + 1, n, t) /\ Off(2 * m + 1, n, t)
  <2> DEFINE l == 2 * m
             r == 2 * m + 1
  <2>1. /\ m <= Inner /\ l \in Nodes /\ r \in Nodes /\ (l \in Path[t] \/ r \in Path[t])
    BY <1>3, PathDown DEF Spine
  <2>2. l \div 2 = m /\ r \div 2 = m /\ r % 2 = 1 /\ l # 1 /\ r # 1 /\ r # 2 * (r \div 2)
    BY <2>1, Halves
  <2>3. Sibling(r) = l
    BY <2>1, <2>2, SiblingFacts
  <2> HIDE DEF l, r
  <2>4. n \in Path[l] /\ n # l /\ n \in Path[r] /\ n # r
    BY <1>3, <2>1, <2>2, StrictlyBelow DEF Spine
  <2>5. ~Spine(r, n, t)
    BY <1>2, <2>1, <2>2, <2>4
  <2>6. Spine(l, n, t)
    BY <2>1, <2>4, <2>5 DEF Spine
  <2>7. Off(r, n, t)
    BY <2>2, <2>3, <2>4, <2>6 DEF Off
  <2> QED BY <2>1, <2>5, <2>6, <2>7 DEF l, r
<1>4. ASSUME Off(m, n, t)
      PROVE  /\ ~Spine(m, n, t) /\ n \in Path[m] /\ m # n /\ m # 1
             /\ Spine(m \div 2, n, t) /\ m \div 2 # t
  <2> DEFINE q == Sibling(m)
  <2>1. m # 1 /\ q \in Nodes /\ q # n /\ Spine(q, n, t) /\ q \div 2 = m \div 2 /\ q # m /\ m \div 2 \in Nodes
    BY <1>4, SiblingFacts, Halves DEF Off
  <2>2. q = 2 * (m \div 2) /\ Spine(m \div 2, n, t) /\ m \div 2 # t
    <3> HIDE DEF q
    <3> QED BY <1>2, <2>1
  <2>3. n \in Path[m] /\ m # n
    BY <2>1, <2>2, StrictlyBelow DEF Spine
  <2>4. ~Spine(m, n, t)
    <3> SUFFICES ASSUME Spine(m, n, t) PROVE FALSE
      OBVIOUS
    <3>1. m = 2 * (m \div 2)
      BY <1>2, <2>3
    <3> QED BY <2>1, <2>2, <3>1
  <2> QED BY <2>1, <2>2, <2>3, <2>4
<1> QED BY <1>1, <1>2, <1>3, <1>4

(* Below a node that is not split there is nothing. *)
LEMMA NothingBelow ==
    ASSUME NEW s, Tree(s), NEW m \in Nodes, NEW n \in Path[m], m # n, s[n] # "SPLIT"
    PROVE  s[m] = "NONE"
  BY Above

LEMMA SplitDownTree ==
    ASSUME NEW s, Tree(s), NEW n \in Nodes, s[n] = "FREE", NEW t \in Nodes, LeftOnly(n, t)
    PROVE  Tree(SplitDown(s, n, t))
<1> DEFINE u == SplitDown(s, n, t)
<1>1. \A m \in Nodes : u[m] = IF m = t THEN "ALLOC" ELSE IF Spine(m, n, t) THEN "SPLIT"
                               ELSE IF Off(m, n, t) THEN "FREE" ELSE s[m]
  BY DEF SplitDown
<1>2. ASSUME NEW m \in Nodes PROVE (u[m] # "NONE") <=> (m = 1 \/ u[m \div 2] = "SPLIT")
  <2> HIDE DEF u
  <2>0. m # 1 => m \div 2 \in Nodes /\ m \div 2 < m /\ m \in Nat /\ m \div 2 \in Nat
    BY Halves
  <2>1. CASE m = n
    <3>1. u[m] # "NONE"
      BY <1>1, <2>1, SpineFacts
    <3>2. ASSUME m # 1 PROVE u[m \div 2] = "SPLIT"
      <4>1. s[m \div 2] = "SPLIT"
        BY <2>1, <3>2 DEF Tree
      <4>2. n \notin Path[m \div 2]
        BY <2>0, <2>1, <3>2, PathBasic
      <4>3. ~Spine(m \div 2, n, t) /\ ~Off(m \div 2, n, t) /\ m \div 2 # t
        BY <2>0, <3>2, <4>2, SpineFacts DEF Spine
      <4> QED BY <1>1, <2>0, <3>2, <4>1, <4>3
    <3> QED BY <3>1, <3>2
  <2>2. CASE m # n /\ Spine(m, n, t)
    <3>1. m # 1 /\ Spine(m \div 2, n, t) /\ m \div 2 # t
      BY <2>2, SpineFacts
    <3> QED BY <1>1, <2>0, <2>2, <3>1
  <2>3. CASE Off(m, n, t)
    <3>1. m # 1 /\ ~Spine(m, n, t) /\ Spine(m \div 2, n, t) /\ m \div 2 # t /\ m # t
      BY <2>3, SpineFacts
    <3> QED BY <1>1, <2>0, <2>3, <3>1
  <2>4. CASE ~Spine(m, n, t) /\ ~Off(m, n, t)
    <3>1. u[m] = s[m]
      BY <1>1, <2>4, SpineFacts
    <3>2. CASE m = 1
      BY <3>1, <3>2 DEF Tree
    <3>3. CASE m # 1
      <4> DEFINE p == m \div 2
      <4>1. p \in Nodes /\ ((s[m] # "NONE") <=> s[p] = "SPLIT")
        BY <2>0, <3>3 DEF Tree
      <4>2. m = 2 * p \/ m = 2 * p + 1
        BY <3>3, Halves
      <4>3. p \in Path[m]
        BY <2>0, <3>3, PathBasic, PathDef
      <4> HIDE DEF p
      <4>4. ~(Spine(p, n, t) /\ p # t)
        BY <2>4, <4>1, <4>2, SpineFacts
      <4>5. n \in Path[p] => s[m] = "NONE"
        BY <3>3, NothingBelow, StrictlyBelow DEF p
      <4>6. CASE p = t
        BY <1>1, <3>1, <3>3, <4>1, <4>5, <4>6 DEF LeftOnly, p
      <4>7. CASE p # t /\ Off(p, n, t)
        <5>1. n \in Path[p] /\ ~Spine(p, n, t)
          BY <4>1, <4>7, SpineFacts
        <5> QED BY <1>1, <3>1, <3>3, <4>1, <4>5, <4>7, <5>1 DEF p
      <4>8. CASE p # t /\ ~Off(p, n, t)
        <5>1. u[p] = s[p]
          BY <1>1, <4>1, <4>4, <4>8
        <5> QED BY <3>1, <3>3, <4>1, <5>1 DEF p
      <4> QED BY <4>6, <4>7, <4>8
    <3> QED BY <3>2, <3>3
  <2> QED BY <2>1, <2>2, <2>3, <2>4
<1> QED BY <1>2 DEF Tree

LEMMA SplitDownUseful ==
    ASSUME NEW s, Tree(s), Useful(s), NEW n \in Nodes, s[n] = "FREE", NEW t \in Nodes, LeftOnly(n, t)
    PROVE  Useful(SplitDown(s, n, t))
<1> DEFINE u == SplitDown(s, n, t)
<1>1. \A m \in Nodes : u[m] = IF m = t THEN "ALLOC" ELSE IF Spine(m, n, t) THEN "SPLIT"
                               ELSE IF Off(m, n, t) THEN "FREE" ELSE s[m]
  BY DEF SplitDown
<1>2. ASSUME NEW m \in Nodes, u[m] = "SPLIT" PROVE m <= Inner /\ ~(u[2 * m] = "FREE" /\ u[2 * m + 1] = "FREE")
  <2> HIDE DEF u
  <2>0. m # t
    BY <1>1, <1>2
  <2>1. CASE Spine(m, n, t)
    <3>1. m <= Inner /\ Spine(2 * m, n, t) /\ 2 * m \in Nodes
      BY <2>0, <2>1, SpineFacts, Halves
    <3> QED BY <1>1, <3>1
  <2>2. CASE ~Spine(m, n, t)
    <3>1. s[m] = "SPLIT"
      BY <1>1, <1>2, <2>0, <2>2
    <3>2. m <= Inner /\ ~(s[2 * m] = "FREE" /\ s[2 * m + 1] = "FREE")
      BY <3>1 DEF Useful
    <3>3. ASSUME NEW c \in {2 * m, 2 * m + 1}, u[c] = "FREE" PROVE s[c] = "FREE"
      <4>1. c \in Nodes /\ c \div 2 = m
        BY <3>2, Halves
      <4>2. ~Off(c, n, t)
        BY <2>2, <4>1, SpineFacts
      <4> QED BY <1>1, <3>3, <4>1, <4>2
    <3> QED BY <3>2, <3>3
  <2> QED BY <2>1, <2>2
<1> QED BY <1>2 DEF Useful

LEMMA TreeOfInv == BIInv => Tree(st)
  BY DEF BIInv, TypeOK, Tree

(* Nodes lie in the pool. *)
LEMMA InPool ==
    ASSUME NEW n \in Nodes
    PROVE  0 <= NodeIdx[n] /\ End(n) <= Pool
<1>1. 1 \in Path[n] /\ 1 \in Nodes
  BY PathBasic, ConstTypes
<1>2. End(n) <= End(1)
  BY <1>1, Nested
<1>3. End(1) = Pool
  BY NodeSizeDef, NodeIdxDef, ConstTypes DEF End
<1> QED BY <1>2, <1>3, Places

LEMMA InitInv == BuddyInit => BIInv
<1> SUFFICES ASSUME BuddyInit PROVE BIInv
  OBVIOUS
<1>1. st \in [Nodes -> {"NONE", "FREE", "SPLIT", "ALLOC"}] /\ act \in [Nodes -> {0} \cup Requests]
  BY DEF BuddyInit
<1>2. DOMAIN live = {}
  BY DEF BuddyInit
<1>3. Tree(st)
  BY Halves DEF BuddyInit, Tree
<1>4. TypeOK
  BY <1>1, <1>2, <1>3 DEF TypeOK, Tree
<1>5. Useful(st) /\ AllocHeld(st)
  BY DEF BuddyInit, Useful, AllocHeld
<1>6. HeldAlloc(st)
  BY <1>2 DEF HeldAlloc
<1> QED BY <1>4, <1>5, <1>6 DEF BIInv

LEMMA AllocStep ==
    ASSUME BIInv, NEW size \in Requests, BuddyAlloc(size)
    PROVE  BIInv'
<1> DEFINE n == FirstFit(size)
           t == Target(n, size)
<1>1. n \in Nodes /\ st[n] = "FREE" /\ NodeSize[n] >= size
  BY FirstFitFacts DEF BuddyAlloc
<1>2. t \in Nodes /\ LeftOnly(n, t) /\ NodeSize[t] >= size
  BY <1>1, TargetFacts DEF LeftOnly
<1>3. /\ st' = SplitDown(st, n, t)
      /\ act' = [act EXCEPT ![t] = size]
      /\ live' = [a \in DOMAIN live \cup {NodeIdx[t]} |-> IF a = NodeIdx[t] THEN size ELSE live[a]]
  BY DEF BuddyAlloc, SplitDown, Spine, Off, Below
<1> HIDE DEF n, t
<1>4. Tree(st) /\ Useful(st)
  BY TreeOfInv DEF BIInv
<1>5. Tree(st') /\ Useful(st')
  BY <1>1, <1>2, <1>3, <1>4, SplitDownTree, SplitDownUseful
<1>6. /\ size \in Nat /\ size > 0
      /\ NodeIdx[t] \in Nat /\ NodeSize[t] \in Nat /\ End(t) = NodeIdx[t] + NodeSize[t]
  BY <1>2, ConstTypes, Places DEF End
<1>7. n \in Path[t] /\ End(t) <= End(n) /\ NodeIdx[n] <= NodeIdx[t]
  BY <1>1, <1>2, Nested DEF LeftOnly
<1>8. ASSUME NEW m \in Nodes, st[m] = "ALLOC"
      PROVE  NodeIdx[m] # NodeIdx[t] /\ st'[m] = "ALLOC" /\ m # t
  <2>1. NodesApart(m, n)
    BY <1>1, <1>4, <1>8, LeavesApart
  <2>2. act[m] \in Nat /\ act[m] > 0 /\ act[m] <= NodeSize[m] /\ NodeIdx[m] \in Nat /\ NodeSize[m] \in Nat
    <3>1. act[m] \in Requests /\ act[m] <= NodeSize[m]
      BY <1>8 DEF BIInv, AllocHeld
    <3>2. \A x \in Requests : x \in Nat /\ x > 0
      BY ConstTypes
    <3> QED BY <3>1, <3>2, Places
  <2>3. NodeIdx[m] # NodeIdx[t]
    BY <1>1, <1>2, <1>6, <1>7, <2>1, <2>2, Places DEF NodesApart, End
  <2>4. ~Spine(m, n, t) /\ ~Off(m, n, t)
    <3>1. n \notin Path[m]
      BY <1>1, <1>4, <1>8, LeavesApart
    <3> QED BY <1>1, <1>2, <3>1, SpineFacts DEF Spine
  <2> QED BY <1>3, <1>8, <2>3, <2>4 DEF SplitDown
<1>9. ASSUME NEW m \in Nodes, st'[m] = "ALLOC", m # t PROVE st[m] = "ALLOC"
  BY <1>3, <1>9 DEF SplitDown
<1>10. st' \in [Nodes -> {"NONE", "FREE", "SPLIT", "ALLOC"}]
  BY <1>3 DEF BIInv, TypeOK, SplitDown
<1>11. act' \in [Nodes -> {0} \cup Requests]
  BY <1>3 DEF BIInv, TypeOK
<1>12. DOMAIN live' = DOMAIN live \cup {NodeIdx[t]} /\ NodeIdx[t] \in 0..(Pool - 1)
  BY <1>2, <1>3, <1>6, InPool, ConstTypes
<1>13. live'[NodeIdx[t]] = size /\ \A a \in DOMAIN live : a # NodeIdx[t] => live'[a] = live[a]
  BY <1>3
<1>14. TypeOK'
  BY <1>5, <1>10, <1>11, <1>12, <1>13 DEF BIInv, TypeOK, Tree
<1>15. AllocHeld(st)'
  <2>1. ASSUME NEW m \in Nodes, st'[m] = "ALLOC"
        PROVE  /\ act'[m] \in Requests /\ act'[m] <= NodeSize[m]
               /\ NodeIdx[m] \in DOMAIN live' /\ live'[NodeIdx[m]] = act'[m]
    <3>1. CASE m = t
      <4>1. act'[t] = size
        BY <1>2, <1>3 DEF BIInv, TypeOK
      <4> QED BY <1>2, <1>6, <1>12, <1>13, <3>1, <4>1
    <3>2. CASE m # t
      <4>1. st[m] = "ALLOC" /\ NodeIdx[m] # NodeIdx[t]
        BY <1>8, <1>9, <2>1, <3>2
      <4>2. act'[m] = act[m]
        BY <1>3, <3>2 DEF BIInv, TypeOK
      <4> QED BY <1>12, <1>13, <4>1, <4>2 DEF BIInv, AllocHeld
    <3> QED BY <3>1, <3>2
  <2> QED BY <2>1 DEF AllocHeld
<1>16. HeldAlloc(st)'
  <2>1. ASSUME NEW a \in DOMAIN live' PROVE \E m \in Nodes : st'[m] = "ALLOC" /\ NodeIdx[m] = a
    <3>1. CASE a = NodeIdx[t]
      <4>1. st'[t] = "ALLOC"
        BY <1>2, <1>3 DEF SplitDown
      <4> QED BY <1>2, <3>1, <4>1
    <3>2. CASE a # NodeIdx[t]
      BY <1>8, <1>12, <3>2 DEF BIInv, HeldAlloc
    <3> QED BY <3>1, <3>2
  <2> QED BY <2>1 DEF HeldAlloc
<1> QED BY <1>5, <1>14, <1>15, <1>16 DEF BIInv, Useful

-----------------------------------------------------------------------------
(* Freeing n and merging on the way up. *)

Gathered(s, n, p) == \A q \in Path[n] \ Path[p] : s[Sibling(q)] = "FREE"
IsTop(s, n, p) == Gathered(s, n, p) /\ \A q \in Path[n] : Gathered(s, n, q) => p <= q
Released(s, n) == [s EXCEPT ![n] = "FREE"]

LEMMA TopExists ==
    ASSUME NEW s, NEW n \in Nodes
    PROVE  \E p \in Path[n] : IsTop(s, n, p)
<1> DEFINE T == {p \in Path[n] : Gathered(s, n, p)}
<1>1. n \in T
  BY PathBasic DEF Gathered
<1>2. T \in SUBSET Nat
  BY PathBasic, Halves
<1>3. PICK p \in T : \A q \in T : p <= q
  <2> HIDE DEF T
  <2> QED BY <1>1, <1>2, LeastElement
<1> QED BY <1>3 DEF IsTop

LEMMA MergedFacts ==
    ASSUME NEW s \in [Nodes -> States], NEW n \in Nodes
    PROVE  \E p \in Path[n] :
              /\ IsTop(s, n, p)
              /\ Merged(s, n) = [m \in Nodes |-> IF m = p THEN "FREE" ELSE IF p \in Path[m] THEN "NONE" ELSE s[m]]
<1> DEFINE p == CHOOSE p \in Path[n] : IsTop(s, n, p)
<1>1. p \in Path[n] /\ IsTop(s, n, p)
  BY TopExists
<1>2. Merged(s, n) = [m \in Nodes |-> IF m = p THEN "FREE" ELSE IF p \in Path[m] THEN "NONE" ELSE s[m]]
  BY DEF Merged, IsTop, Gathered, Below
<1> QED BY <1>1, <1>2

LEMMA MergeKeeps ==
    ASSUME NEW s \in [Nodes -> States], Tree(s), Useful(s), NEW n \in Nodes, s[n] = "ALLOC"
    PROVE  LET u == Merged(Released(s, n), n)
           IN  /\ u \in [Nodes -> States] /\ Tree(u) /\ Useful(u)
               /\ \A k \in Nodes : u[k] = "ALLOC" <=> (s[k] = "ALLOC" /\ k # n)
<1> DEFINE r == Released(s, n)
           u == Merged(r, n)
<1>1. r \in [Nodes -> States] /\ r[n] = "FREE" /\ \A m \in Nodes : m # n => r[m] = s[m]
  BY DEF Released, States
<1>2. Tree(r)
  <2>1. ASSUME NEW m \in Nodes PROVE (r[m] # "NONE") <=> (m = 1 \/ r[m \div 2] = "SPLIT")
    <3>1. (s[m] # "NONE") <=> (m = 1 \/ s[m \div 2] = "SPLIT")
      BY DEF Tree
    <3>2. (r[m] # "NONE") <=> (s[m] # "NONE")
      BY <1>1
    <3>3. m # 1 => (r[m \div 2] = "SPLIT" <=> s[m \div 2] = "SPLIT")
      BY <1>1, Halves
    <3> QED BY <3>1, <3>2, <3>3
  <2> QED BY <2>1 DEF Tree
<1> HIDE DEF r
<1>3. PICK p \in Path[n] : /\ IsTop(r, n, p)
                           /\ u = [m \in Nodes |-> IF m = p THEN "FREE" ELSE IF p \in Path[m] THEN "NONE" ELSE r[m]]
  BY <1>1, MergedFacts
<1> HIDE DEF u
<1>4. \A m \in Nodes : u[m] = IF m = p THEN "FREE" ELSE IF p \in Path[m] THEN "NONE" ELSE r[m]
  BY <1>3
<1>5. p \in Nodes /\ p \in Nat /\ p \in Path[p]
  BY PathBasic, Halves
<1>6. u \in [Nodes -> States]
  BY <1>1, <1>3 DEF States
<1>7. r[p] # "NONE"
  BY <1>1, <1>2, Above
<1>8. Tree(u)
  <2>1. ASSUME NEW m \in Nodes PROVE (u[m] # "NONE") <=> (m = 1 \/ u[m \div 2] = "SPLIT")
    <3>0. ASSUME m # 1 PROVE m \div 2 \in Nodes /\ Path[m] = Path[m \div 2] \cup {m} /\ m \notin Path[m \div 2]
      <4>1. m \div 2 \in Nodes /\ m \div 2 < m /\ m \in Nat /\ m \div 2 \in Nat /\ Path[m] = Path[m \div 2] \cup {m}
        BY <3>0, Halves, PathDef
      <4> QED BY <4>1, PathBasic
    <3>1. (r[m] # "NONE") <=> (m = 1 \/ r[m \div 2] = "SPLIT")
      BY <1>2 DEF Tree
    <3>2. CASE m = p
      BY <1>4, <1>7, <3>0, <3>1, <3>2
    <3>3. CASE m # p /\ p \in Path[m]
      <4>1. m # 1 /\ p \in Path[m \div 2]
        BY <3>3, PathUp
      <4> QED BY <1>4, <3>0, <3>3, <4>1
    <3>4. CASE p \notin Path[m]
      <4>1. m # 1 => p \notin Path[m \div 2] /\ p # m \div 2
        BY <3>0, <3>4, PathBasic
      <4>2. m # p
        BY <3>4, PathBasic
      <4> QED BY <1>4, <3>0, <3>1, <3>4, <4>1, <4>2
    <3> QED BY <3>2, <3>3, <3>4
  <2> QED BY <2>1 DEF Tree
<1>9. Useful(u)
  <2>1. ASSUME NEW m \in Nodes, u[m] = "SPLIT" PROVE m <= Inner /\ ~(u[2 * m] = "FREE" /\ u[2 * m + 1] = "FREE")
    <3>1. p \notin Path[m] /\ r[m] = "SPLIT" /\ m # n /\ s[m] = "SPLIT"
      <4>1. p \notin Path[m] /\ r[m] = "SPLIT"
        BY <1>4, <1>5, <2>1
      <4> QED BY <1>1, <4>1
    <3>2. m <= Inner /\ ~(s[2 * m] = "FREE" /\ s[2 * m + 1] = "FREE")
      BY <3>1 DEF Useful
    <3> DEFINE c == 2 * m
               d == 2 * m + 1
    <3>3. /\ c \in Nodes /\ d \in Nodes /\ c \div 2 = m /\ d \div 2 = m /\ c # 1 /\ d # 1 /\ c # d
          /\ Sibling(c) = d /\ Sibling(d) = c
      <4>1. c \in Nodes /\ d \in Nodes /\ c \div 2 = m /\ d \div 2 = m /\ c # 1 /\ d # 1 /\ c # d
        BY <3>2, Halves
      <4> QED BY <4>1, SiblingFacts
    <3> HIDE DEF c, d
    <3>4. ASSUME u[c] = "FREE", u[d] = "FREE" PROVE FALSE
      <4>1. ASSUME NEW x \in {c, d} PROVE x = p \/ (p \notin Path[x] /\ r[x] = "FREE" /\ x # n)
        BY <1>4, <3>3, <3>4, <4>1
      <4>2. ~(r[c] = "FREE" /\ r[d] = "FREE" /\ c # n /\ d # n)
        BY <1>1, <3>2, <3>3 DEF c, d
      <4>3. ASSUME NEW x \in {c, d}, x = p, r[Sibling(x)] = "FREE" PROVE FALSE
        <5>1. p # 1 /\ p \div 2 = m /\ m < p /\ m \in Nat
          BY <3>3, <4>3, Halves
        <5>2. Path[p] = Path[m] \cup {p}
          BY <1>5, <5>1, PathDef
        <5>3. m \in Path[n]
          BY <5>2, PathBasic, PathTrans
        <5>4. Gathered(r, n, m)
          BY <1>3, <4>3, <5>2 DEF Gathered, IsTop
        <5>5. p <= m
          BY <1>3, <5>3, <5>4 DEF IsTop
        <5> QED BY <1>5, <5>1, <5>5
      <4> QED BY <3>3, <4>1, <4>2, <4>3
    <3> QED BY <3>2, <3>4 DEF c, d
  <2> QED BY <2>1 DEF Useful
<1>10. ASSUME NEW k \in Nodes, s[k] = "ALLOC", k # n PROVE p \notin Path[k]
  <2> SUFFICES ASSUME p \in Path[k] PROVE FALSE
    OBVIOUS
  <2> DEFINE T == Path[k] \cap Path[n]
  <2>1. T \in SUBSET Nodes /\ p \in T
    BY PathBasic
  <2>2. PICK x \in T : \A y \in T : y <= x
    <3> HIDE DEF T
    <3> QED BY <2>1, Greatest
  <2>3. x \in Path[k] /\ x \in Path[n] /\ x \in Nodes /\ x \in Nat /\ x > 0 /\ p <= x
    BY <2>1, <2>2, ConstTypes
  <2>4. k \notin Path[n] /\ n \notin Path[k]
    BY <1>10, LeavesApart
  <2>5. x # n /\ x # k
    BY <2>3, <2>4
  <2>6. /\ 2 * x \in Path[n] \/ 2 * x + 1 \in Path[n]
        /\ 2 * x \in Path[k] \/ 2 * x + 1 \in Path[k]
    BY <2>3, <2>5, PathDown
  <2>7. \A y \in Path[k] : y \in Path[n] => y <= x
    BY <2>2
  <2>8. PICK c, d \in Nodes : c \in Path[n] /\ d \in Path[k] /\ c > x /\ Sibling(c) = d
    <3>0. x <= Inner
      BY <2>3, <2>5, PathDown
    <3>1. 2 * x \in Nodes /\ 2 * x + 1 \in Nodes /\ (2 * x) \div 2 = x /\ (2 * x + 1) \div 2 = x
          /\ 2 * x > x /\ 2 * x + 1 > x /\ 2 * x # 1 /\ 2 * x + 1 # 1
      BY <2>3, <3>0, Halves
    <3>2. Sibling(2 * x) = 2 * x + 1 /\ Sibling(2 * x + 1) = 2 * x
      BY <3>1, SiblingFacts
    <3>3. ~(2 * x \in Path[k] /\ 2 * x \in Path[n]) /\ ~(2 * x + 1 \in Path[k] /\ 2 * x + 1 \in Path[n])
      BY <2>3, <2>7
    <3> QED BY <2>6, <3>1, <3>2, <3>3
  <2>9. c \notin Path[p]
    BY <1>5, <2>3, <2>8, PathBasic, Halves
  <2>10. r[d] = "FREE"
    BY <1>3, <2>8, <2>9 DEF IsTop, Gathered
  <2>11. r[k] = "ALLOC"
    BY <1>1, <1>10
  <2> QED BY <1>2, <2>8, <2>10, <2>11, Above
<1>11. ASSUME NEW k \in Nodes PROVE u[k] = "ALLOC" <=> (s[k] = "ALLOC" /\ k # n)
  <2>1. ASSUME u[k] = "ALLOC" PROVE s[k] = "ALLOC" /\ k # n
    BY <1>1, <1>4, <2>1
  <2>2. ASSUME s[k] = "ALLOC", k # n PROVE u[k] = "ALLOC"
    BY <1>1, <1>4, <1>10, <2>2, PathBasic
  <2> QED BY <2>1, <2>2
<1> QED BY <1>6, <1>8, <1>9, <1>11 DEF u, r

LEMMA FreeStep ==
    ASSUME BIInv, NEW a \in DOMAIN live, BuddyFree(a)
    PROVE  BIInv'
<1> DEFINE n == CHOOSE m \in Nodes : st[m] = "ALLOC" /\ NodeIdx[m] = a
           u == Merged(Released(st, n), n)
<1>1. n \in Nodes /\ st[n] = "ALLOC" /\ NodeIdx[n] = a
  <2>1. \E m \in Nodes : st[m] = "ALLOC" /\ NodeIdx[m] = a
    BY DEF BIInv, HeldAlloc
  <2> QED BY <2>1
<1>2. /\ st' = u
      /\ act' = [m \in Nodes |-> IF st'[m] = "ALLOC" THEN act[m] ELSE 0]
      /\ live' = [b \in DOMAIN live \ {a} |-> live[b]]
  BY DEF BuddyFree, Released
<1>3. st \in [Nodes -> States] /\ Tree(st) /\ Useful(st)
  BY TreeOfInv DEF BIInv, TypeOK, States
<1> HIDE DEF n
<1>4. /\ u \in [Nodes -> States] /\ Tree(u) /\ Useful(u)
      /\ \A k \in Nodes : u[k] = "ALLOC" <=> (st[k] = "ALLOC" /\ k # n)
  BY <1>1, <1>3, MergeKeeps
<1> HIDE DEF u
<1>5. /\ st' \in [Nodes -> States] /\ Tree(st') /\ Useful(st')
      /\ \A k \in Nodes : st'[k] = "ALLOC" <=> (st[k] = "ALLOC" /\ k # n)
  BY <1>2, <1>4
<1>6. ASSUME NEW k \in Nodes, st[k] = "ALLOC"
      PROVE  /\ act[k] \in Requests /\ act[k] <= NodeSize[k] /\ act[k] \in Nat /\ act[k] > 0
             /\ NodeIdx[k] \in DOMAIN live /\ live[NodeIdx[k]] = act[k]
  <2>1. \A x \in Requests : x \in Nat /\ x > 0
    BY ConstTypes
  <2>2. /\ act[k] \in Requests /\ act[k] <= NodeSize[k]
        /\ NodeIdx[k] \in DOMAIN live /\ live[NodeIdx[k]] = act[k]
    BY <1>6 DEF BIInv, AllocHeld
  <2> QED BY <2>1, <2>2
<1>7. ASSUME NEW k \in Nodes, st[k] = "ALLOC", k # n PROVE NodeIdx[k] # a
  <2>1. NodesApart(k, n)
    BY <1>1, <1>3, <1>7, LeavesApart
  <2>2. act[k] <= NodeSize[k] /\ act[k] > 0 /\ act[k] \in Nat /\ act[n] <= NodeSize[n] /\ act[n] > 0 /\ act[n] \in Nat
    BY <1>1, <1>6, <1>7
  <2> QED BY <1>1, <2>1, <2>2, Places DEF NodesApart, End
<1>8. DOMAIN live' = DOMAIN live \ {a} /\ \A b \in DOMAIN live : b # a => live'[b] = live[b]
  BY <1>2
<1>9. ASSUME NEW m \in Nodes, st'[m] = "ALLOC"
      PROVE  /\ act'[m] \in Requests /\ act'[m] <= NodeSize[m]
             /\ NodeIdx[m] \in DOMAIN live' /\ live'[NodeIdx[m]] = act'[m]
  <2>1. st[m] = "ALLOC" /\ m # n /\ act'[m] = act[m]
    BY <1>2, <1>5, <1>9
  <2> QED BY <1>6, <1>7, <1>8, <2>1
<1>10. act' \in [Nodes -> {0} \cup Requests]
  <2>1. act \in [Nodes -> {0} \cup Requests]
    BY DEF BIInv, TypeOK
  <2> QED BY <1>2, <2>1
<1>11. TypeOK'
  <2>1. DOMAIN live \subseteq 0..(Pool - 1) /\ \A b \in DOMAIN live : live[b] \in Requests
    BY DEF BIInv, TypeOK
  <2>2. DOMAIN live' \subseteq 0..(Pool - 1) /\ \A b \in DOMAIN live' : live'[b] \in Requests
    BY <1>8, <2>1
  <2> QED BY <1>5, <1>10, <2>2 DEF TypeOK, Tree, States
<1>12. AllocHeld(st)'
  BY <1>9 DEF AllocHeld
<1>13. HeldAlloc(st)'
  <2>1. ASSUME NEW b \in DOMAIN live' PROVE \E m \in Nodes : st'[m] = "ALLOC" /\ NodeIdx[m] = b
    <3>1. b \in DOMAIN live /\ b # a
      BY <1>8, <2>1
    <3>2. PICK m \in Nodes : st[m] = "ALLOC" /\ NodeIdx[m] = b
      BY <3>1 DEF BIInv, HeldAlloc
    <3> QED BY <1>1, <1>5, <3>1, <3>2
  <2> QED BY <2>1 DEF HeldAlloc
<1> QED BY <1>5, <1>11, <1>12, <1>13 DEF BIInv, Useful

(* In every reachable state a node exists iff its parent is split, no      *)
(* split has two free halves, and the ALLOC nodes are exactly what the     *)
(* callers of alloc_slm_range hold, each at least as large as asked for:   *)
(* the splits of _buddy_alloc and the merges of _buddy_free keep the tree. *)
THEOREM TreeAlwaysSound == BuddySpec => []BIInv
<1>1. BIInv /\ [BuddyNext]_treeVars => BIInv'
  <2> SUFFICES ASSUME BIInv, [BuddyNext]_treeVars PROVE BIInv'
    OBVIOUS
  <2>1. ASSUME NEW s \in Requests, BuddyAlloc(s) PROVE BIInv'
    BY <2>1, AllocStep
  <2>2. ASSUME UNCHANGED treeVars PROVE BIInv'
    <3>1. st' = st /\ act' = act /\ live' = live
      BY <2>2 DEF treeVars
    <3>2. TypeOK' /\ Useful(st)'
      BY <3>1 DEF BIInv, TypeOK, Useful
    <3>3. AllocHeld(st)' /\ HeldAlloc(st)'
      BY <3>1 DEF BIInv, AllocHeld, HeldAlloc
    <3> QED BY <3>2, <3>3 DEF BIInv
  <2>3. ASSUME NEW s \in Requests, BuddyAllocFails(s) PROVE BIInv'
    BY <2>2, <2>3 DEF BuddyAllocFails
  <2>4. ASSUME NEW a \in DOMAIN live, BuddyFree(a) PROVE BIInv'
    BY <2>4, FreeStep
  <2> QED BY <2>1, <2>2, <2>3, <2>4 DEF BuddyNext
<1> QED BY InitInv, <1>1, PTL DEF BuddySpec

-----------------------------------------------------------------------------
(* What the callers see. *)

(* The block a caller holds is the only ALLOC node around its start.       *)
LEMMA HeldBlock ==
    ASSUME BIInv, NEW a \in DOMAIN live
    PROVE  \E n \in Nodes : /\ st[n] = "ALLOC" /\ NodeIdx[n] = a /\ live[a] \in Nat /\ live[a] > 0
                            /\ live[a] <= NodeSize[n] /\ BuddySize(a) = NodeSize[n]
<1>1. PICK n \in Nodes : st[n] = "ALLOC" /\ NodeIdx[n] = a
  BY DEF BIInv, HeldAlloc
<1>2. \A x \in Requests : x \in Nat /\ x > 0
  BY ConstTypes
<1>3. live[a] \in Nat /\ live[a] > 0 /\ live[a] <= NodeSize[n]
  BY <1>1, <1>2 DEF BIInv, AllocHeld
<1>4. a \in Nat /\ NodeSize[n] \in Nat /\ End(n) = a + NodeSize[n]
  BY <1>1, Places DEF End
<1>5. n \in Around(a)
  BY <1>1, <1>3, <1>4 DEF Around
<1>6. ASSUME NEW m \in Around(a) PROVE m = n
  <2>1. m \in Nodes /\ st[m] = "ALLOC" /\ NodeIdx[m] <= a /\ a <= NodeIdx[m] + NodeSize[m] - 1
    BY Places, <1>4 DEF Around
  <2>2. NodeIdx[m] \in Nat /\ NodeSize[m] \in Nat /\ End(m) = NodeIdx[m] + NodeSize[m]
    BY <2>1, Places DEF End
  <2>3. ~NodesApart(m, n)
    BY <1>1, <1>3, <1>4, <2>1, <2>2 DEF NodesApart
  <2> QED BY <1>1, <2>1, <2>3, LeavesApart, TreeOfInv
<1>7. (CHOOSE m \in Around(a) : TRUE) = n
  BY <1>5, <1>6
<1>8. BuddySize(a) = NodeIdx[n] + NodeSize[n] - a
  BY <1>5, <1>7 DEF BuddySize
<1> QED BY <1>1, <1>3, <1>4, <1>8

LEMMA InvHeldApart == BIInv => HeldApart
<1> SUFFICES ASSUME BIInv PROVE HeldApart
  OBVIOUS
<1>1. TypeOK
  BY DEF BIInv
<1>2. LeakCheckExact
  <2>1. ASSUME st[1] # "FREE" PROVE DOMAIN live # {}
    <3>1. st[1] \in {"SPLIT", "ALLOC"} /\ 1 \in Nodes
      BY <1>1, <2>1, ConstTypes DEF TypeOK
    <3>2. \E k \in Nodes : st[k] = "ALLOC"
      BY <3>1, SplitHolds
    <3> QED BY <3>2 DEF BIInv, AllocHeld
  <2>2. ASSUME NEW a \in DOMAIN live, st[1] = "FREE" PROVE FALSE
    <3>1. PICK n \in Nodes : st[n] = "ALLOC"
      BY DEF BIInv, HeldAlloc
    <3>2. 1 \in Nodes /\ 1 \in Path[n] /\ n # 1
      BY <2>2, <3>1, ConstTypes, PathBasic
    <3> QED BY <2>2, <3>1, <3>2, TreeOfInv, LeavesApart
  <2> QED BY <2>1, <2>2 DEF LeakCheckExact
<1>3. ASSUME NEW a \in DOMAIN live, NEW b \in DOMAIN live, a # b PROVE Held(a) \cap Held(b) = {}
  <2>1. PICK m \in Nodes : /\ st[m] = "ALLOC" /\ NodeIdx[m] = a /\ live[a] \in Nat /\ live[a] > 0
                           /\ live[a] <= NodeSize[m]
    BY HeldBlock
  <2>2. PICK n \in Nodes : /\ st[n] = "ALLOC" /\ NodeIdx[n] = b /\ live[b] \in Nat /\ live[b] > 0
                           /\ live[b] <= NodeSize[n]
    BY HeldBlock
  <2>3. NodesApart(m, n)
    BY <1>3, <2>1, <2>2, LeavesApart, TreeOfInv
  <2>4. a \in Nat /\ b \in Nat /\ NodeSize[m] \in Nat /\ NodeSize[n] \in Nat
    BY <2>1, <2>2, Places
  <2> QED BY <2>1, <2>2, <2>3, <2>4 DEF NodesApart, End, Held
<1>4. ASSUME NEW a \in DOMAIN live PROVE Held(a) \subseteq 0..(Pool - 1) /\ BuddySize(a) >= live[a]
  <2>1. PICK n \in Nodes : /\ st[n] = "ALLOC" /\ NodeIdx[n] = a /\ live[a] \in Nat /\ live[a] > 0
                           /\ live[a] <= NodeSize[n] /\ BuddySize(a) = NodeSize[n]
    BY HeldBlock
  <2>2. a \in Nat /\ NodeSize[n] \in Nat /\ a + NodeSize[n] <= Pool
    BY <2>1, Places, InPool DEF End
  <2> QED BY <2>1, <2>2, ConstTypes DEF Held
<1> QED BY <1>1, <1>2, <1>3, <1>4 DEF HeldApart

(* No two callers of alloc_slm_range ever hold the same byte, nobody holds *)
(* a byte beyond the pool, buddy_size covers what was asked for, and the   *)
(* leak check of /proc is exact, whatever the pool size and the requests.  *)
THEOREM AlwaysHeldApart == BuddySpec => []HeldApart
  BY TreeAlwaysSound, InvHeldApart, PTL

LEMMA InvRefused == BIInv => RefusedForCause
<1> SUFFICES ASSUME BIInv, NEW s \in Requests, Fits(s) = {}, NEW n \in Nodes, NodeSize[n] >= s
             PROVE  \E a \in DOMAIN live :
                a..(a + BuddySize(a) - 1) \cap NodeIdx[n]..(NodeIdx[n] + NodeSize[n] - 1) # {}
  BY DEF RefusedForCause
<1>1. \A m \in Nodes : st[m] = "FREE" => NodeSize[m] < s
  <2>1. s \in Nat
    BY ConstTypes
  <2>2. \A m \in Nodes : st[m] = "FREE" => ~(NodeSize[m] >= s)
    BY DEF Fits
  <2> QED BY <2>1, <2>2, Places
<1>2. s \in Nat /\ s > 0 /\ Tree(st) /\ st \in [Nodes -> States]
  BY ConstTypes, TreeOfInv DEF BIInv, TypeOK, States
(* It suffices to find an ALLOC node above n or below it. *)
<1>3. ASSUME NEW k \in Nodes, st[k] = "ALLOC", k \in Path[n] \/ n \in Path[k]
      PROVE  \E a \in DOMAIN live :
                a..(a + BuddySize(a) - 1) \cap NodeIdx[n]..(NodeIdx[n] + NodeSize[n] - 1) # {}
  <2> DEFINE a == NodeIdx[k]
  <2>1. a \in DOMAIN live
    BY <1>3 DEF BIInv, AllocHeld
  <2>2. PICK j \in Nodes : /\ st[j] = "ALLOC" /\ NodeIdx[j] = a /\ live[a] \in Nat /\ live[a] > 0
                           /\ live[a] <= NodeSize[j] /\ BuddySize(a) = NodeSize[j]
    BY <2>1, HeldBlock
  <2>3. /\ NodeIdx[j] \in Nat /\ NodeSize[j] \in Nat /\ End(j) = NodeIdx[j] + NodeSize[j]
        /\ NodeIdx[n] \in Nat /\ NodeSize[n] \in Nat /\ End(n) = NodeIdx[n] + NodeSize[n]
        /\ NodeIdx[k] \in Nat /\ NodeSize[k] \in Nat /\ End(k) = NodeIdx[k] + NodeSize[k]
    BY Places DEF End
  <2>4. NodeSize[k] > 0
    <3>1. \A x \in Requests : x \in Nat /\ x > 0
      BY ConstTypes
    <3>2. act[k] \in Requests /\ act[k] <= NodeSize[k]
      BY <1>3 DEF BIInv, AllocHeld
    <3> QED BY <2>3, <3>1, <3>2
  <2>5. j = k
    <3> SUFFICES ASSUME j # k PROVE FALSE
      OBVIOUS
    <3>1. NodesApart(j, k)
      BY <1>2, <1>3, <2>2, LeavesApart
    <3> QED BY <2>2, <2>3, <2>4, <3>1 DEF NodesApart
  <2>6. CASE k \in Path[n]
    <3>1. NodeIdx[k] <= NodeIdx[n] /\ End(n) <= End(k)
      BY <2>6, Nested
    <3>2. NodeIdx[n] \in a..(a + BuddySize(a) - 1) /\ NodeIdx[n] \in NodeIdx[n]..(NodeIdx[n] + NodeSize[n] - 1)
      BY <1>2, <2>2, <2>3, <2>5, <3>1
    <3> QED BY <2>1, <3>2
  <2>7. CASE n \in Path[k]
    <3>1. NodeIdx[n] <= NodeIdx[k] /\ End(k) <= End(n)
      BY <2>7, Nested
    <3>2. a \in a..(a + BuddySize(a) - 1) /\ a \in NodeIdx[n]..(NodeIdx[n] + NodeSize[n] - 1)
      BY <2>2, <2>3, <2>4, <2>5, <3>1
    <3> QED BY <2>1, <3>2
  <2> QED BY <1>3, <2>6, <2>7
<1>4. CASE st[n] = "ALLOC"
  BY <1>3, <1>4, PathBasic
<1>5. CASE st[n] = "SPLIT"
  BY <1>3, <1>5, SplitHolds
<1>6. CASE st[n] = "FREE"
  <2>1. NodeSize[n] < s
    BY <1>1, <1>6
  <2> QED BY <1>2, <2>1, Places
(* n was never split off: the lowest node above it that exists is a leaf,  *)
(* and large enough.                                                       *)
<1>7. CASE st[n] = "NONE"
  <2> DEFINE T == {k \in Path[n] : st[k] # "NONE"}
  <2>1. T \in SUBSET Nodes /\ 1 \in T
    BY <1>2, PathBasic, ConstTypes DEF Tree
  <2>2. PICK x \in T : \A y \in T : y <= x
    <3> HIDE DEF T
    <3> QED BY <2>1, Greatest
  <2>3. x \in Path[n] /\ st[x] # "NONE" /\ x \in Nodes /\ x # n /\ x \in Nat /\ x > 0
    BY <1>7, <2>1, <2>2, ConstTypes
  <2>4. st[x] # "SPLIT"
    <3> SUFFICES ASSUME st[x] = "SPLIT" PROVE FALSE
      OBVIOUS
    <3>1. x <= Inner /\ (2 * x \in Path[n] \/ 2 * x + 1 \in Path[n])
      BY <2>3, PathDown
    <3>2. PICK c \in Path[n] : c \in Nodes /\ c # 1 /\ c \div 2 = x /\ c > x
      <4>1. \A c \in {2 * x, 2 * x + 1} : c \in Nodes /\ c # 1 /\ c \div 2 = x /\ c > x
        BY <2>3, <3>1, Halves
      <4> QED BY <3>1, <4>1
    <3>3. st[c] # "NONE"
      BY <1>2, <3>2 DEF Tree
    <3>4. c <= x
      BY <2>2, <3>3
    <3> QED BY <2>3, <3>2, <3>4, Halves
  <2>5. NodeSize[n] <= NodeSize[x]
    BY <2>3, Nested
  <2>6. st[x] # "FREE"
    BY <1>1, <1>2, <2>3, <2>5, Places
  <2>7. st[x] = "ALLOC"
    BY <1>2, <2>3, <2>4, <2>6 DEF States
  <2> QED BY <1>3, <2>3, <2>7
<1> QED BY <1>2, <1>4, <1>5, <1>6, <1>7 DEF States

(* alloc_slm_range refuses a request only when every block of the pool     *)
(* that could serve it overlaps memory somebody holds: the merges of       *)
(* _buddy_free never leave free memory split, in any sequence of calls.    *)
THEOREM AlwaysRefusedForCause == BuddySpec => []RefusedForCause
  BY TreeAlwaysSound, InvRefused, PTL

-----------------------------------------------------------------------------
(* The output that the host reads.                                         *)

ProgPcs == {"probe", "miss", "spin", "flip", "flipPublish", "record", "publish", "read",
            "emit", "total", "head", "done"}

OutTypes ==
    /\ file \in Layouts
    /\ prog \in [pc : ProgPcs, i : Int]
    /\ out \in [written : Nat, head : Nat, done : BOOLEAN, total : Nat]
    /\ reader \in [pc : {"ask", "compare", "end"}, off : Nat, len : Nat]

(* The length is final from FinalizeTotal on, and until FinalizeHead the   *)
(* head counts whole pages that have been written.                         *)
OutWritten ==
    /\ out.written <= file.out.len
    /\ prog.pc \in {"head", "done"} => out.done = TRUE
    /\ out.done = TRUE => prog.pc \in {"head", "done"} /\ out.total = out.written
    /\ prog.pc # "done" => out.head <= out.written /\ out.head % PAGE = 0

(* A read between its two looks has seen the final length and keeps to it, *)
(* or it asks for all it wants of an output whose last page does not count *)
(* yet.                                                                    *)
ReadSound ==
    /\ reader.off <= out.written
    /\ reader.pc = "end" => out.done = TRUE /\ reader.off = out.total
    /\ reader.pc = "compare" =>
          \/ /\ out.done = TRUE /\ reader.off + reader.len <= out.total
             /\ reader.len < file.out.ask => reader.off + reader.len = out.total
          \/ reader.len = file.out.ask /\ prog.pc # "done"

OutInv == OutTypes /\ OutWritten /\ ReadSound

LEMMA LayoutFacts ==
    ASSUME NEW f \in Layouts
    PROVE  f.out.len \in Nat /\ f.out.piece \in Nat \ {0} /\ f.out.ask \in Nat \ {0}
BY DemandAssumption

LEMMA PageFacts == PAGE \in Nat \ {0}
BY DemandAssumption

LEMMA OutInvInit == Init => OutInv
<1> SUFFICES ASSUME Init PROVE OutInv
  OBVIOUS
<1>1. OutTypes
  BY DEF Init, OutTypes, ProgPcs
<1>2. 0 % PAGE = 0
  BY PageFacts
<1>3. file.out.len \in Nat
  BY <1>1, LayoutFacts DEF OutTypes
<1> QED BY <1>1, <1>2, <1>3 DEF Init, OutInv, OutWritten, ReadSound

(* A step that leaves file, output and reader alone and moves the program  *)
(* among the places before its output keeps the invariant.                 *)
Apart ==
    /\ file' = file /\ out' = out /\ reader' = reader
    /\ prog' \in [pc : ProgPcs, i : Int]
    /\ \/ prog'.pc = prog.pc
       \/ {prog.pc, prog'.pc} \cap {"total", "head", "done"} = {}

LEMMA ApartKeeps == ASSUME OutInv, Apart PROVE OutInv'
<1>1. OutTypes'
  BY DEF OutInv, OutTypes, Apart
<1>2. OutWritten'
  BY DEF OutInv, OutWritten, Apart
<1>3. ReadSound'
  BY DEF OutInv, ReadSound, OutWritten, Apart
<1> QED BY <1>1, <1>2, <1>3 DEF OutInv

LEMMA ProbesApart ==
    ASSUME OutInv,
           \/ ProbeHit \/ ProbeMiss \/ WaitForStream \/ Flip \/ FlipDemand \/ FlipPublish
           \/ FlipRecord \/ MapBlock \/ FlipNatural \/ MapNatural \/ Publish \/ ReadBlock
    PROVE  Apart
<1>1. prog \in [pc : ProgPcs, i : Int]
  BY DEF OutInv, OutTypes
<1>2. CASE ProbeHit
  BY <1>1, <1>2 DEF ProbeHit, At, Apart, outs, ProgPcs
<1>3. CASE ProbeMiss
  BY <1>1, <1>3 DEF ProbeMiss, At, Apart, outs, ProgPcs
<1>4. CASE WaitForStream
  BY <1>1, <1>4 DEF WaitForStream, At, Apart, outs, ProgPcs
<1>5. CASE Flip
  BY <1>1, <1>5 DEF Flip, At, Apart, outs, ProgPcs
<1>6. CASE FlipDemand
  BY <1>1, <1>6 DEF FlipDemand, At, Apart, outs, ProgPcs
<1>7. CASE FlipPublish
  BY <1>1, <1>7 DEF FlipPublish, At, Apart, outs, ProgPcs
<1>8. CASE FlipRecord
  BY <1>1, <1>8 DEF FlipRecord, At, Apart, outs, ProgPcs
<1>9. CASE MapBlock
  <2>1. prog.pc = "miss" /\ outs' = outs /\ file' = file
    BY <1>9 DEF MapBlock
  <2>2. At("spin") \/ At("publish")
    BY <1>9 DEF MapBlock
  <2> QED BY <1>1, <2>1, <2>2 DEF At, Apart, outs, ProgPcs
<1>10. CASE FlipNatural
  BY <1>1, <1>10 DEF FlipNatural, Apart, outs
<1>11. CASE MapNatural
  <2>1. prog.pc = "miss" /\ outs' = outs /\ file' = file
    BY <1>11 DEF MapNatural
  <2>2. At("spin") \/ At("publish")
    BY <1>11 DEF MapNatural
  <2> QED BY <1>1, <2>1, <2>2 DEF At, Apart, outs, ProgPcs
<1>12. CASE Publish
  BY <1>1, <1>12 DEF Publish, At, Apart, outs, ProgPcs
<1>13. CASE ReadBlock
  BY <1>1, <1>13 DEF ReadBlock, Apart, outs, ProgPcs
<1> QED BY <1>2, <1>3, <1>4, <1>5, <1>6, <1>7, <1>8, <1>9, <1>10, <1>11, <1>12, <1>13

(* The other threads touch neither the program nor its output. *)
LEMMA OthersApart ==
    ASSUME OutInv, Helper \/ (\E w \in 1..Lists : Worker(w)) \/ Dispatcher \/ UNCHANGED vars
    PROVE  Apart
<1>1. prog \in [pc : ProgPcs, i : Int]
  BY DEF OutInv, OutTypes
<1>2. outs' = outs /\ file' = file /\ prog' = prog
  <2>1. CASE Helper
    BY <2>1 DEF Helper, StartDemand, StartSequential, NothingToRequest, IssueChunk, ReclaimOrphan,
        ReclaimPark, ReclaimPublish, ReclaimDone, NextList, EndLoad
  <2>2. CASE \E w \in 1..Lists : Worker(w)
    BY <2>2 DEF Worker, BeginCopy, SkipOrphan, EndCopy
  <2>3. CASE Dispatcher
    BY <2>3 DEF Dispatcher, ReclaimLoad, FinishLookup, Free
  <2>4. CASE UNCHANGED vars
    BY <2>4 DEF vars
  <2> QED BY <2>1, <2>2, <2>3, <2>4
<1> QED BY <1>1, <1>2 DEF Apart, outs

(* ht_advance_head_page: the head moves to a page that is full. *)
LEMMA PublishedFacts ==
    ASSUME OutTypes, OutWritten, prog.pc # "done", NEW end \in Nat, out.written <= end
    PROVE  /\ PublishedHead(end) \in Nat /\ PublishedHead(end) <= end
           /\ PublishedHead(end) % PAGE = 0
<1> DEFINE q == end \div PAGE
           a == q * PAGE
<1>1. PAGE \in Nat \ {0} /\ out.head \in Nat /\ out.written \in Nat
  BY PageFacts DEF OutTypes
<1>2. q \in Nat /\ a \in Nat /\ a <= end
  BY <1>1, DivFacts, AlignDownFacts
<1>3. AlignDown(end) = a
  BY DEF AlignDown
<1>4. a % PAGE = 0
  <2> HIDE DEF q
  <2> QED BY <1>1, <1>2, MultipleOf
<1> HIDE DEF a
<1>5. PublishedHead(end) \in {out.head, a}
  BY <1>3 DEF PublishedHead, Greater
<1>6. out.head <= end /\ out.head % PAGE = 0
  BY <1>1 DEF OutWritten
<1> QED BY <1>1, <1>2, <1>4, <1>5, <1>6

LEMMA EmitKeeps == ASSUME OutInv, Emit PROVE OutInv'
<1> DEFINE end == Lesser(out.written + file.out.piece, file.out.len)
           h   == IF file.out.pages THEN PublishedHead(end) ELSE out.head
           pc  == IF end < file.out.len THEN "emit" ELSE "total"
<1>1. /\ OutTypes /\ OutWritten /\ ReadSound /\ prog.pc = "emit"
      /\ out.written \in Nat /\ out.head \in Nat /\ reader.off \in Nat
  BY DEF OutInv, OutTypes, Emit
<1>2. file.out.len \in Nat /\ file.out.piece \in Nat \ {0}
  BY <1>1, LayoutFacts DEF OutTypes
<1>3. out' = [out EXCEPT !.written = end, !.head = h]
  BY DEF Emit
<1>4. prog' = [prog EXCEPT !.pc = pc]
  BY DEF Emit, At
<1>5. file' = file /\ reader' = reader
  BY DEF Emit, program
<1>6. out.done # TRUE /\ out.done = FALSE
  BY <1>1 DEF OutWritten, OutTypes
<1>7. out.written <= file.out.len
  BY <1>1 DEF OutWritten
<1>8. OutInv'
  <2>1. end \in Nat /\ out.written <= end /\ end <= file.out.len
    BY <1>1, <1>2, <1>7 DEF Lesser
  <2> HIDE DEF end
  <2>2. h \in Nat /\ h <= end /\ h % PAGE = 0
    <3>1. PublishedHead(end) \in Nat /\ PublishedHead(end) <= end /\ PublishedHead(end) % PAGE = 0
      BY <1>1, <2>1, PublishedFacts
    <3>2. out.head <= out.written /\ out.head % PAGE = 0
      BY <1>1 DEF OutWritten
    <3> QED BY <1>1, <2>1, <3>1, <3>2
  <2> HIDE DEF h
  <2>3. /\ out'.written = end /\ out'.head = h /\ out'.done = out.done /\ out'.total = out.total
        /\ out' \in [written : Nat, head : Nat, done : BOOLEAN, total : Nat]
    BY <1>1, <1>3, <2>1, <2>2 DEF OutTypes
  <2>4. prog'.pc = pc /\ prog' \in [pc : ProgPcs, i : Int] /\ pc \in {"emit", "total"}
    BY <1>1, <1>4 DEF OutTypes, ProgPcs
  <2> HIDE DEF pc
  <2>5. OutTypes'
    BY <1>1, <1>5, <2>3, <2>4 DEF OutTypes
  <2>6. OutWritten'
    BY <1>5, <1>6, <2>1, <2>2, <2>3, <2>4 DEF OutWritten
  <2>7. ReadSound'
    <3>1. reader.off <= out'.written
      BY <1>1, <2>1, <2>3 DEF ReadSound
    <3>2. reader.pc # "end"
      BY <1>1, <1>6 DEF ReadSound
    <3>3. reader.pc = "compare" => reader.len = file.out.ask /\ prog'.pc # "done"
      BY <1>1, <1>6, <2>4 DEF ReadSound
    <3> QED BY <1>5, <3>1, <3>2, <3>3 DEF ReadSound
  <2> QED BY <2>5, <2>6, <2>7 DEF OutInv
<1> QED BY <1>8

LEMMA FinalizeTotalKeeps == ASSUME OutInv, FinalizeTotal PROVE OutInv'
<1>1. /\ OutTypes /\ OutWritten /\ ReadSound /\ prog.pc = "total"
      /\ out.written \in Nat
  BY DEF OutInv, OutTypes, FinalizeTotal
<1>2. out' = [out EXCEPT !.done = TRUE, !.total = out.written] /\ prog' = [prog EXCEPT !.pc = "head"]
  BY DEF FinalizeTotal, At
<1>3. file' = file /\ reader' = reader
  BY DEF FinalizeTotal, program
<1>4. /\ out'.written = out.written /\ out'.head = out.head /\ out'.done = TRUE /\ out'.total = out.written
      /\ out' \in [written : Nat, head : Nat, done : BOOLEAN, total : Nat]
      /\ prog'.pc = "head" /\ prog' \in [pc : ProgPcs, i : Int]
  BY <1>1, <1>2 DEF OutTypes, ProgPcs
<1>5. OutTypes'
  BY <1>1, <1>3, <1>4 DEF OutTypes
<1>6. OutWritten'
  BY <1>1, <1>3, <1>4 DEF OutWritten
<1>7. out.done # TRUE
  BY <1>1 DEF OutWritten
<1>8. ReadSound'
  BY <1>1, <1>3, <1>4, <1>7 DEF ReadSound
<1> QED BY <1>5, <1>6, <1>8 DEF OutInv

LEMMA FinalizeHeadKeeps == ASSUME OutInv, FinalizeHead, Prompt = TRUE PROVE OutInv'
<1> DEFINE h == Greater(out.head, (out.total \div PAGE + 1) * PAGE)
<1>1. /\ OutTypes /\ OutWritten /\ ReadSound /\ prog.pc = "head" /\ reader.pc # "compare"
      /\ out.total \in Nat /\ out.head \in Nat
  BY DEF OutInv, OutTypes, FinalizeHead
<1>2. out' = [out EXCEPT !.head = h] /\ prog' = [prog EXCEPT !.pc = "done"]
  BY DEF FinalizeHead, At
<1>3. file' = file /\ reader' = reader
  BY DEF FinalizeHead, program
<1>4. h \in Nat
  <2> DEFINE q == out.total \div PAGE
  <2>1. q \in Nat
    BY <1>1, PageFacts, DivFacts
  <2> HIDE DEF q
  <2>2. (q + 1) * PAGE \in Nat
    BY <2>1, PageFacts
  <2> QED BY <1>1, <2>2 DEF Greater, q
<1> HIDE DEF h
<1>5. /\ out'.written = out.written /\ out'.done = out.done /\ out'.total = out.total
      /\ out' \in [written : Nat, head : Nat, done : BOOLEAN, total : Nat]
      /\ prog'.pc = "done" /\ prog' \in [pc : ProgPcs, i : Int]
  BY <1>1, <1>2, <1>4 DEF OutTypes, ProgPcs
<1>6. OutTypes'
  BY <1>1, <1>3, <1>5 DEF OutTypes
<1>7. OutWritten'
  BY <1>1, <1>3, <1>5 DEF OutWritten
<1>8. ReadSound'
  BY <1>1, <1>3, <1>5 DEF ReadSound
<1> QED BY <1>6, <1>7, <1>8 DEF OutInv

LEMMA HostAsksKeeps == ASSUME OutInv, HostAsks PROVE OutInv'
<1> DEFINE n == IF out.done THEN Lesser(file.out.ask, out.total - reader.off) ELSE file.out.ask
<1>1. /\ OutTypes /\ OutWritten /\ ReadSound /\ reader.pc = "ask" /\ file.out.ask \in Nat \ {0}
      /\ out.written \in Nat /\ out.total \in Nat /\ reader.off \in Nat
  BY LayoutFacts DEF OutInv, OutTypes, HostAsks
<1>2. file' = file /\ out' = out /\ prog' = prog
  BY DEF HostAsks, program
<1>3. CASE out.done = TRUE /\ reader.off >= out.total
  <2>1. reader' = [reader EXCEPT !.pc = "end"]
    BY <1>3 DEF HostAsks
  <2>2. /\ reader'.pc = "end" /\ reader'.off = reader.off
        /\ reader' \in [pc : {"ask", "compare", "end"}, off : Nat, len : Nat]
    BY <1>1, <2>1 DEF OutTypes
  <2>3. reader.off = out.total
    BY <1>1, <1>3 DEF OutWritten, ReadSound
  <2>4. OutTypes' /\ OutWritten'
    BY <1>1, <1>2, <2>2 DEF OutTypes, OutWritten
  <2>5. ReadSound'
    BY <1>1, <1>2, <1>3, <2>2, <2>3 DEF ReadSound
  <2> QED BY <2>4, <2>5 DEF OutInv
<1>4. CASE ~(out.done = TRUE /\ reader.off >= out.total)
  <2>1. reader' = [reader EXCEPT !.pc = "compare", !.len = n]
    BY <1>1, <1>4 DEF HostAsks, OutTypes
  <2>2. n \in Nat /\ (out.done = TRUE => reader.off + n <= out.total
                                         /\ (n < file.out.ask => reader.off + n = out.total))
                  /\ (out.done # TRUE => n = file.out.ask)
    <3>1. CASE out.done = TRUE
      <4> DEFINE x == out.total - reader.off
      <4>1. x \in Nat /\ reader.off + x = out.total
        BY <1>1, <1>4, <3>1
      <4>2. n = Lesser(file.out.ask, x)
        BY <3>1
      <4> HIDE DEF n, x
      <4>3. n \in Nat /\ n <= x /\ (n < file.out.ask => n = x)
        BY <1>1, <4>1, <4>2 DEF Lesser
      <4>4. reader.off + n <= out.total /\ (n < file.out.ask => reader.off + n = out.total)
        BY <1>1, <4>1, <4>3
      <4> QED BY <3>1, <4>3, <4>4
    <3>2. CASE out.done # TRUE
      <4>1. out.done = FALSE
        BY <1>1, <3>2 DEF OutTypes
      <4> QED BY <1>1, <3>2, <4>1
    <3> QED BY <3>1, <3>2
  <2> HIDE DEF n
  <2>3. /\ reader'.pc = "compare" /\ reader'.off = reader.off /\ reader'.len = n
        /\ reader' \in [pc : {"ask", "compare", "end"}, off : Nat, len : Nat]
    BY <1>1, <2>1, <2>2 DEF OutTypes
  <2>4. OutTypes' /\ OutWritten'
    BY <1>1, <1>2, <2>3 DEF OutTypes, OutWritten
  <2>5. out.done # TRUE => prog.pc # "done"
    BY <1>1 DEF OutWritten
  <2>6. ReadSound'
    <3>1. reader.off <= out.written
      BY <1>1 DEF ReadSound
    <3> QED BY <1>2, <2>2, <2>3, <2>5, <3>1 DEF ReadSound
  <2> QED BY <2>4, <2>6 DEF OutInv
<1> QED BY <1>3, <1>4

(* A read whose last page counts ends within whole pages of the head. *)
LEMMA BelowHead ==
    ASSUME NEW e \in Nat \ {0}, NEW h \in Nat, h % PAGE = 0, (e - 1) \div PAGE < DivUp(h, PAGE)
    PROVE  e <= h
<1> DEFINE q == (e - 1) \div PAGE
           p == DivUp(h, PAGE)
<1>1. PAGE \in Nat \ {0} /\ e - 1 \in Nat
  BY PageFacts
<1>2. q \in Nat /\ e - 1 < q * PAGE + PAGE
  BY <1>1, DivFacts, AlignDownFacts
<1>3. p * PAGE = h
  BY <1>1, RoundUp DEF DivUp
<1>4. p \in Nat
  <2>1. h + PAGE - 1 \in Nat
    BY <1>1
  <2> QED BY <1>1, <2>1, DivFacts DEF DivUp
<1>5. q < p
  OBVIOUS
<1> HIDE DEF q, p
<1>6. (p - q) * PAGE >= PAGE
  BY <1>1, <1>2, <1>4, <1>5
<1>7. (p - q) * PAGE = p * PAGE - q * PAGE
  BY <1>1, <1>2, <1>4
<1>8. q * PAGE \in Nat
  BY <1>1, <1>2
<1> QED BY <1>1, <1>2, <1>3, <1>6, <1>7, <1>8

LEMMA HostComparesKeeps == ASSUME OutInv, HostCompares PROVE OutInv'
<1> DEFINE e == reader.off + reader.len
           lastPage == (reader.off + reader.len - 1) \div PAGE
<1>1. /\ OutTypes /\ OutWritten /\ ReadSound /\ reader.pc = "compare" /\ file.out.ask \in Nat \ {0}
      /\ out.written \in Nat /\ out.head \in Nat /\ out.total \in Nat
      /\ reader.off \in Nat /\ reader.len \in Nat
  BY LayoutFacts DEF OutInv, OutTypes, HostCompares
<1>2. file' = file /\ out' = out /\ prog' = prog
  BY DEF HostCompares, program
<1> DEFINE told == [reader EXCEPT !.off = reader.off + reader.len,
                              !.pc = IF reader.len < file.out.ask THEN "end" ELSE "ask"]
<1>0. reader' = IF lastPage < DivUp(out.head, PAGE) THEN told ELSE [reader EXCEPT !.pc = "ask"]
  BY DEF HostCompares
<1> HIDE DEF lastPage
<1>3. CASE lastPage < DivUp(out.head, PAGE)
  <2> DEFINE pc == IF reader.len < file.out.ask THEN "end" ELSE "ask"
  <2>1. reader' = [reader EXCEPT !.off = e, !.pc = pc]
    BY <1>0, <1>3
  <2>2. /\ reader'.pc = pc /\ reader'.off = e
        /\ reader' \in [pc : {"ask", "compare", "end"}, off : Nat, len : Nat]
    <3>1. e \in Nat /\ pc \in {"ask", "end"}
      BY <1>1
    <3> HIDE DEF e, pc
    <3> QED BY <1>1, <2>1, <3>1 DEF OutTypes
  <2>3. e <= out.written /\ (reader.len < file.out.ask => out.done = TRUE /\ e = out.total)
    <3>1. CASE /\ out.done = TRUE /\ reader.off + reader.len <= out.total
               /\ reader.len < file.out.ask => reader.off + reader.len = out.total
      BY <1>1, <3>1 DEF OutWritten
    <3>2. CASE reader.len = file.out.ask /\ prog.pc # "done"
      <4>1. e \in Nat \ {0} /\ out.head % PAGE = 0 /\ out.head <= out.written
        BY <1>1, <3>2 DEF OutWritten
      <4> HIDE DEF e
      <4>2. e <= out.head
        <5>1. reader.off + (reader.len - 1) = e - 1
          BY <1>1 DEF e
        <5>2. (e - 1) \div PAGE < DivUp(out.head, PAGE)
          BY <1>3, <5>1 DEF lastPage
        <5> QED BY <1>1, <4>1, <5>2, BelowHead
      <4> QED BY <1>1, <3>2, <4>1, <4>2
    <3> QED BY <1>1, <3>1, <3>2 DEF ReadSound
  <2>4. OutTypes' /\ OutWritten'
    BY <1>1, <1>2, <2>2 DEF OutTypes, OutWritten
  <2>5. ReadSound'
    BY <1>2, <2>2, <2>3 DEF ReadSound
  <2> QED BY <2>4, <2>5 DEF OutInv
<1>4. CASE ~(lastPage < DivUp(out.head, PAGE))
  <2>1. reader' = [reader EXCEPT !.pc = "ask"]
    BY <1>0, <1>4
  <2>2. /\ reader'.pc = "ask" /\ reader'.off = reader.off
        /\ reader' \in [pc : {"ask", "compare", "end"}, off : Nat, len : Nat]
    BY <1>1, <2>1 DEF OutTypes
  <2>3. OutTypes' /\ OutWritten'
    BY <1>1, <1>2, <2>2 DEF OutTypes, OutWritten
  <2>4. ReadSound'
    BY <1>1, <1>2, <2>2 DEF ReadSound
  <2> QED BY <2>3, <2>4 DEF OutInv
<1> QED BY <1>3, <1>4

LEMMA OutInvNext == ASSUME OutInv, [Next]_vars, Prompt = TRUE PROVE OutInv'
<1>1. CASE Emit
  BY <1>1, EmitKeeps
<1>2. CASE FinalizeTotal
  BY <1>2, FinalizeTotalKeeps
<1>3. CASE FinalizeHead
  BY <1>3, FinalizeHeadKeeps
<1>4. CASE Reader
  BY <1>4, HostAsksKeeps, HostComparesKeeps DEF Reader
<1>5. CASE \/ ProbeHit \/ ProbeMiss \/ WaitForStream \/ Flip \/ FlipDemand \/ FlipPublish
           \/ FlipRecord \/ MapBlock \/ FlipNatural \/ MapNatural \/ Publish \/ ReadBlock
  BY <1>5, ProbesApart, ApartKeeps
<1>6. CASE Helper \/ (\E w \in 1..Lists : Worker(w)) \/ Dispatcher \/ UNCHANGED vars
  BY <1>6, OthersApart, ApartKeeps
<1> QED BY <1>1, <1>2, <1>3, <1>4, <1>5, <1>6 DEF Next, Program

(* For every layout and every length of output, piece and read: the host   *)
(* never counts a byte check_output_slm_data_ready let pass that is not    *)
(* written, and a short or empty answer is the end of the finalised output *)
(* - as long as finalize_slm_data_ready does not raise the head between    *)
(* the two looks of one check (Prompt).                                    *)
THEOREM HostAlwaysToldExact == Prompt = TRUE /\ Spec => []HostToldExact
<1>1. OutInv => HostToldExact
  BY DEF OutInv, ReadSound, HostToldExact
<1>2. CASE Prompt = TRUE
  <2>1. Spec => []OutInv
    <3>1. Init => OutInv
      BY OutInvInit
    <3>2. OutInv /\ [Next]_vars => OutInv'
      BY <1>2, OutInvNext
    <3> QED BY <3>1, <3>2, PTL DEF Spec
  <2> QED BY <1>1, <2>1, PTL
<1>3. CASE Prompt # TRUE
  BY <1>3
<1> QED BY <1>2, <1>3

=============================================================================
