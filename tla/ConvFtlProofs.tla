--------------------------- MODULE ConvFtlProofs ----------------------------
(***************************************************************************)
(* The conventional FTL, for every geometry, number of lines and logical   *)
(* pages: the maps agree, the bookkeeping of the lines is exact, and a     *)
(* free line is there when a write pointer needs one.                      *)
(***************************************************************************)
EXTENDS ConvFtl, NumberFacts, SequenceTheorems

-----------------------------------------------------------------------------
(* The victim queue.  First the order alone: f is the priority at every    *)
(* place of a heap with n places, at is the place of the moving node.      *)

HeapOrder(f, n) == \A k \in 2..n : f[k \div 2] <= f[k]

UpOrder(f, n, at) ==
    /\ \A k \in 2..n : k # at => f[k \div 2] <= f[k]
    /\ \A k \in 2..n : k \div 2 = at /\ at > 1 => f[at \div 2] <= f[k]

DownOrder(f, n, at) ==
    /\ \A k \in 2..n : k \div 2 # at => f[k \div 2] <= f[k]
    /\ \A k \in 2..n : k \div 2 = at /\ at > 1 => f[at \div 2] <= f[k]

Swapped(f, g, n, i, j) ==
    g[i] = f[j] /\ g[j] = f[i] /\ \A k \in 1..n : k # i /\ k # j => g[k] = f[k]

(* The parent of a place lies before it. *)
LEMMA Parents == \A k \in Nat : k >= 2 => k \div 2 \in 1..(k - 1)
  OBVIOUS

IsParent(p, k) == p = k \div 2

(* A round of bubble_up keeps the order but for the moving node. *)
LEMMA UpExchange ==
    ASSUME NEW n \in Nat, NEW f \in [1..n -> Int], NEW g \in [1..n -> Int],
           NEW at \in 2..n, NEW p, IsParent(p, at), f[p] > f[at], UpOrder(f, n, at),
           Swapped(f, g, n, at, p)
    PROVE  UpOrder(g, n, p)
<1>1. p \in 1..n /\ p < at /\ p = at \div 2
  BY Parents DEF IsParent
<1>2. ASSUME NEW k \in 2..n, k # p PROVE g[k \div 2] <= g[k]
  <2> DEFINE h == k \div 2
  <2>1. h \in 1..n /\ k \in 1..n /\ h < k
    BY Parents
  <2>2. h = at /\ at > 1 => f[p] <= f[k]
    BY <1>1 DEF UpOrder
  <2>3. k # at => f[h] <= f[k]
    BY DEF UpOrder
  <2>4. k = at => h = p
    BY <1>1
  <2> HIDE DEF h
  <2>5. g[h] <= g[k]
    <3>0. f[h] \in Int /\ f[k] \in Int /\ f[p] \in Int /\ f[at] \in Int
      BY <1>1, <2>1
    <3>1. CASE k = at
      BY <1>1, <2>4, <3>0, <3>1 DEF Swapped
    <3>2. CASE k # at /\ h = at
      BY <1>1, <1>2, <2>1, <2>2, <3>0, <3>2 DEF Swapped
    <3>3. CASE k # at /\ h = p
      BY <1>1, <1>2, <2>1, <2>3, <3>0, <3>3 DEF Swapped
    <3>4. CASE k # at /\ h # p /\ h # at
      BY <1>1, <1>2, <2>1, <2>3, <3>0, <3>4 DEF Swapped
    <3> QED BY <3>1, <3>2, <3>3, <3>4
  <2> QED BY <2>5 DEF h
<1>3. ASSUME NEW k \in 2..n, k \div 2 = p, p > 1 PROVE g[p \div 2] <= g[k]
  <2> DEFINE h == p \div 2
  <2>1. h \in 1..n /\ h < p /\ k \in 1..n /\ p < k
    BY <1>1, <1>3, Parents
  <2>2. f[h] <= f[p]
    BY <1>1, <1>3 DEF UpOrder
  <2>3. k # at => f[p] <= f[k]
    BY <1>3 DEF UpOrder
  <2> HIDE DEF h
  <2>4. g[h] <= g[k]
    BY <1>1, <2>1, <2>2, <2>3 DEF Swapped
  <2> QED BY <2>4 DEF h
<1> QED BY <1>2, <1>3 DEF UpOrder

(* c is the child of at that percolate_down goes to. *)
Lesser(f, n, at, c) ==
    c \in 2..n /\ c \div 2 = at /\ \A k \in 2..n : k \div 2 = at => f[c] <= f[k]

LEMMA DownExchange ==
    ASSUME NEW n \in Nat, NEW f \in [1..n -> Int], NEW g \in [1..n -> Int],
           NEW at \in 1..n, NEW c, Lesser(f, n, at, c), f[at] > f[c], DownOrder(f, n, at),
           Swapped(f, g, n, at, c)
    PROVE  DownOrder(g, n, c)
<1>1. c \in 2..n /\ c \div 2 = at /\ at < c /\ c \in 1..n
  BY Parents DEF Lesser
<1>2. ASSUME NEW k \in 2..n, k \div 2 # c PROVE g[k \div 2] <= g[k]
  <2> DEFINE h == k \div 2
  <2>1. h \in 1..n /\ k \in 1..n /\ h < k /\ h # c
    BY <1>2, Parents
  <2>2. h # at => f[h] <= f[k]
    BY DEF DownOrder
  <2>3. h = at => f[c] <= f[k]
    BY DEF Lesser
  <2>4. k = at => f[h] <= f[c]
    BY <1>1 DEF DownOrder
  <2> HIDE DEF h
  <2>5. g[h] <= g[k]
    BY <1>1, <2>1, <2>2, <2>3, <2>4 DEF Swapped
  <2> QED BY <2>5 DEF h
<1>3. ASSUME NEW k \in 2..n, k \div 2 = c PROVE g[c \div 2] <= g[k]
  <2>1. k \in 1..n /\ c < k /\ f[c] <= f[k]
    BY <1>1, <1>3, Parents DEF DownOrder
  <2> QED BY <1>1, <2>1 DEF Swapped
<1> QED BY <1>2, <1>3 DEF DownOrder

LEMMA DownEnds ==
    ASSUME NEW n \in Nat, NEW f \in [1..n -> Int], NEW at \in 1..n, NEW c,
           DownOrder(f, n, at),
           (\A k \in 2..n : k \div 2 # at) \/ (Lesser(f, n, at, c) /\ f[at] <= f[c])
    PROVE  HeapOrder(f, n)
<1> SUFFICES ASSUME NEW k \in 2..n PROVE f[k \div 2] <= f[k]
  BY DEF HeapOrder
<1>1. CASE k \div 2 # at
  BY <1>1 DEF DownOrder
<1>2. CASE k \div 2 = at
  <2>1. Lesser(f, n, at, c) /\ f[at] <= f[c]
    BY <1>2
  <2>2. c \in 1..n /\ f[c] \in Int /\ f[at] \in Int /\ f[k] \in Int /\ f[c] <= f[k]
    BY <1>2, <2>1 DEF Lesser
  <2> QED BY <1>2, <2>1, <2>2
<1> QED BY <1>1, <1>2

-----------------------------------------------------------------------------
(* The queue: every node knows its place.                                  *)

Lists == {"free", "open", "full", "victim", "gc"}
LineRec == [vpc : Int, ipc : Int, pos : Nat, on : Lists]

QTyped(s) == s.heap \in Seq(Lines) /\ s.line \in [Lines -> LineRec]

PriOf(s) == [i \in 1..Len(s.heap) |-> Pri(s, i)]

Placed(s) == \A i \in 1..Len(s.heap) : s.line[s.heap[i]].pos = i

Queued(s, b) == \E i \in 1..Len(s.heap) : s.heap[i] = b

(* Nothing but the places of queued lines differs. *)
Same(s, r) ==
    /\ Len(r.heap) = Len(s.heap)
    /\ \A b \in Lines :
         /\ r.line[b].vpc = s.line[b].vpc /\ r.line[b].ipc = s.line[b].ipc
         /\ r.line[b].on = s.line[b].on
         /\ Queued(r, b) <=> Queued(s, b)
         /\ ~Queued(s, b) => r.line[b].pos = s.line[b].pos

LEMMA QFacts ==
    ASSUME NEW s, QTyped(s)
    PROVE  /\ Len(s.heap) \in Nat
           /\ \A i \in 1..Len(s.heap) : s.heap[i] \in Lines
           /\ \A b \in Lines : /\ s.line[b] \in LineRec /\ s.line[b].vpc \in Int /\ s.line[b].ipc \in Int
                               /\ s.line[b].pos \in Nat /\ s.line[b].on \in Lists
           /\ PriOf(s) \in [1..Len(s.heap) -> Int]
           /\ \A i \in 1..Len(s.heap) : PriOf(s)[i] = Pri(s, i) /\ Pri(s, i) \in Int
<1>1. /\ Len(s.heap) \in Nat
      /\ \A i \in 1..Len(s.heap) : s.heap[i] \in Lines
  BY DEF QTyped
<1>2. \A b \in Lines : s.line[b] \in LineRec
  BY DEF QTyped
<1>3. \A b \in Lines : /\ s.line[b].vpc \in Int /\ s.line[b].ipc \in Int
                       /\ s.line[b].pos \in Nat /\ s.line[b].on \in Lists
  BY <1>2 DEF LineRec
<1>4. \A i \in 1..Len(s.heap) : Pri(s, i) \in Int
  BY <1>1, <1>3 DEF Pri
<1> QED BY <1>1, <1>2, <1>3, <1>4 DEF PriOf

LEMMA SameTrans ==
    ASSUME NEW s, NEW r, NEW q, Same(s, r), Same(r, q)
    PROVE  Same(s, q)
  BY DEF Same

LEMMA MovingFacts ==
    ASSUME NEW s, QTyped(s), NEW i \in 1..Len(s.heap),
           \A k \in 1..Len(s.heap) : k # i => s.heap[k] # s.heap[i] /\ s.line[s.heap[k]].pos = k
    PROVE  /\ QTyped(Moving(s, i)) /\ Placed(Moving(s, i)) /\ Same(s, Moving(s, i))
           /\ Moving(s, i).at = i /\ Moving(s, i).heap = s.heap
           /\ \A k \in 1..Len(s.heap) : Pri(Moving(s, i), k) = Pri(s, k)
<1> DEFINE r == Moving(s, i)
           m == s.heap[i]
<1>1. r.heap = s.heap /\ r.at = i /\ r.line = [s.line EXCEPT ![m].pos = i]
  BY DEF Moving
<1>2. m \in Lines /\ \A b \in Lines : s.line[b] \in LineRec
  BY QFacts
<1>0. s.line \in [Lines -> LineRec] /\ i \in Nat
  BY QFacts DEF QTyped
<1> HIDE DEF r, m
<1>3. \A b \in Lines : /\ r.line[b] \in LineRec
                       /\ r.line[b].vpc = s.line[b].vpc /\ r.line[b].ipc = s.line[b].ipc
                       /\ r.line[b].on = s.line[b].on
                       /\ r.line[b].pos = IF b = m THEN i ELSE s.line[b].pos
  <2> SUFFICES ASSUME NEW b \in Lines
               PROVE  /\ r.line[b] \in LineRec
                      /\ r.line[b].vpc = s.line[b].vpc /\ r.line[b].ipc = s.line[b].ipc
                      /\ r.line[b].on = s.line[b].on
                      /\ r.line[b].pos = IF b = m THEN i ELSE s.line[b].pos
    OBVIOUS
  <2>1. r.line[b] = IF b = m THEN [s.line[b] EXCEPT !.pos = i] ELSE s.line[b]
    BY <1>0, <1>1, <1>2
  <2> QED BY <1>0, <1>2, <2>1 DEF LineRec
<1>4. QTyped(r)
  <2>1. r.line \in [Lines -> LineRec]
    BY <1>0, <1>1, <1>2, <1>3
  <2> QED BY <1>1, <2>1 DEF QTyped
<1>5. Placed(r)
  <2> SUFFICES ASSUME NEW k \in 1..Len(s.heap) PROVE r.line[s.heap[k]].pos = k
    BY <1>1 DEF Placed
  <2>1. s.heap[k] \in Lines
    BY QFacts
  <2> QED BY <1>3, <2>1 DEF m
<1>6. Same(s, r)
  <2>1. \A b \in Lines : ~Queued(s, b) => b # m
    BY DEF Queued, m
  <2> QED BY <1>1, <1>3, <2>1 DEF Same, Queued
<1>7. \A k \in 1..Len(s.heap) : Pri(r, k) = Pri(s, k)
  BY <1>1, <1>3, QFacts DEF Pri
<1> QED BY <1>1, <1>4, <1>5, <1>6, <1>7 DEF r

LEMMA ExchangeFacts ==
    ASSUME NEW r, QTyped(r), Placed(r), NEW j \in 1..Len(r.heap), r.at \in 1..Len(r.heap), r.at # j
    PROVE  /\ QTyped(Exchange(r, j)) /\ Placed(Exchange(r, j)) /\ Same(r, Exchange(r, j))
           /\ Exchange(r, j).at = j
           /\ Swapped(PriOf(r), PriOf(Exchange(r, j)), Len(r.heap), r.at, j)
<1> DEFINE q == Exchange(r, j)
           a == r.at
           x == r.heap[a]
           y == r.heap[j]
<1>1. /\ q.heap = [r.heap EXCEPT ![a] = y, ![j] = x]
      /\ q.line = [r.line EXCEPT ![y].pos = a, ![x].pos = j]
      /\ q.at = j
  BY DEF Exchange
<1>2. x \in Lines /\ y \in Lines /\ \A b \in Lines : r.line[b] \in LineRec
  BY QFacts
<1>0. /\ r.line \in [Lines -> LineRec] /\ a \in Nat /\ j \in Nat /\ a # j
      /\ r.heap \in Seq(Lines) /\ Len(r.heap) \in Nat /\ a \in 1..Len(r.heap)
  BY QFacts DEF QTyped
<1>p. x # y
  BY <1>0 DEF Placed
<1> HIDE DEF q, a, x, y
<1>3. \A b \in Lines : /\ q.line[b] \in LineRec
                       /\ q.line[b].vpc = r.line[b].vpc /\ q.line[b].ipc = r.line[b].ipc
                       /\ q.line[b].on = r.line[b].on
                       /\ q.line[b].pos = IF b = x THEN j ELSE IF b = y THEN a ELSE r.line[b].pos
  <2> SUFFICES ASSUME NEW b \in Lines
               PROVE  /\ q.line[b] \in LineRec
                      /\ q.line[b].vpc = r.line[b].vpc /\ q.line[b].ipc = r.line[b].ipc
                      /\ q.line[b].on = r.line[b].on
                      /\ q.line[b].pos = IF b = x THEN j ELSE IF b = y THEN a ELSE r.line[b].pos
    OBVIOUS
  <2>1. q.line[b] = IF b = x THEN [r.line[b] EXCEPT !.pos = j]
                    ELSE IF b = y THEN [r.line[b] EXCEPT !.pos = a] ELSE r.line[b]
    BY <1>0, <1>1, <1>2, <1>p
  <2> QED BY <1>0, <1>2, <2>1 DEF LineRec
<1>4. /\ q.heap \in Seq(Lines) /\ Len(q.heap) = Len(r.heap)
      /\ \A k \in 1..Len(r.heap) : q.heap[k] = IF k = j THEN x ELSE IF k = a THEN y ELSE r.heap[k]
  BY <1>0, <1>1, <1>2
<1>5. QTyped(q)
  <2>1. q.line \in [Lines -> LineRec]
    BY <1>0, <1>1, <1>2, <1>3
  <2> QED BY <1>4, <2>1 DEF QTyped
<1>6. Placed(q)
  <2> SUFFICES ASSUME NEW k \in 1..Len(r.heap) PROVE q.line[q.heap[k]].pos = k
    BY <1>4 DEF Placed
  <2>1. r.heap[k] \in Lines /\ r.line[r.heap[k]].pos = k
    BY QFacts DEF Placed
  <2>2. r.line[x].pos = a /\ r.line[y].pos = j
    BY <1>0 DEF Placed, x, y
  <2> QED BY <1>2, <1>3, <1>4, <1>p, <2>1, <2>2
<1>7. Same(r, q)
  <2>1. ASSUME NEW b \in Lines PROVE Queued(q, b) <=> Queued(r, b)
    <3>1. ASSUME NEW k \in 1..Len(r.heap), q.heap[k] = b PROVE Queued(r, b)
      BY <1>0, <1>4, <3>1 DEF Queued, x, y
    <3>2. ASSUME NEW k \in 1..Len(r.heap), r.heap[k] = b PROVE Queued(q, b)
      <4>1. q.heap[j] = x /\ q.heap[a] = y
        BY <1>0, <1>4
      <4>2. CASE k = j
        BY <1>0, <1>4, <3>2, <4>1, <4>2 DEF Queued, y
      <4>3. CASE k = a
        BY <1>0, <1>4, <3>2, <4>1, <4>3 DEF Queued, x
      <4>4. CASE k # a /\ k # j
        BY <1>0, <1>4, <3>2, <4>4 DEF Queued
      <4> QED BY <4>2, <4>3, <4>4
    <3> QED BY <1>4, <3>1, <3>2 DEF Queued
  <2>2. \A b \in Lines : ~Queued(r, b) => b # x /\ b # y
    BY <1>0 DEF Queued, x, y
  <2> QED BY <1>3, <1>4, <2>1, <2>2 DEF Same
<1>8. Swapped(PriOf(r), PriOf(q), Len(r.heap), a, j)
  <2>1. \A k \in 1..Len(r.heap) : PriOf(q)[k] = q.line[q.heap[k]].vpc /\ PriOf(r)[k] = r.line[r.heap[k]].vpc
    BY <1>4 DEF PriOf, Pri
  <2>2. \A k \in 1..Len(r.heap) : PriOf(q)[k] = r.line[q.heap[k]].vpc
    BY <1>2, <1>3, <1>4, <2>1, QFacts
  <2> QED BY <1>0, <1>4, <2>1, <2>2 DEF Swapped, x, y
<1> QED BY <1>1, <1>5, <1>6, <1>7, <1>8 DEF q, a

(* The states of the loops. *)
Moves == {r \in [heap : Seq(Lines), line : [Lines -> LineRec], at : Nat] :
            r.at \in 1..Len(r.heap) /\ Placed(r)}

UpMore(r) == r.at > 1 /\ CmpPri(Pri(r, r.at \div 2), Pri(r, r.at))
DownMore(r) == MaxChild(r, r.at) # 0 /\ CmpPri(Pri(r, r.at), Pri(r, MaxChild(r, r.at)))

LEMMA MovesFacts ==
    ASSUME NEW r \in Moves
    PROVE  QTyped(r) /\ Placed(r) /\ r.at \in 1..Len(r.heap) /\ Len(r.heap) \in Nat
  BY DEF Moves, QTyped

LEMMA ExchangeMoves ==
    ASSUME NEW r \in Moves, NEW j \in 1..Len(r.heap), r.at # j
    PROVE  Exchange(r, j) \in Moves /\ Same(r, Exchange(r, j)) /\ Exchange(r, j).at = j
<1>1. /\ QTyped(Exchange(r, j)) /\ Placed(Exchange(r, j)) /\ Same(r, Exchange(r, j))
      /\ Exchange(r, j).at = j
  BY MovesFacts, ExchangeFacts
<1> DEFINE h == [r.heap EXCEPT ![r.at] = r.heap[j], ![j] = r.heap[r.at]]
           l == [r.line EXCEPT ![r.heap[j]].pos = r.at, ![r.heap[r.at]].pos = j]
<1>2. Exchange(r, j) = [heap |-> h, line |-> l, at |-> j]
  BY DEF Exchange
<1> HIDE DEF h, l
<1>3. h \in Seq(Lines) /\ l \in [Lines -> LineRec] /\ j \in Nat /\ Len(h) = Len(r.heap)
  BY <1>1, <1>2, MovesFacts DEF QTyped, Same
<1> QED BY <1>1, <1>2, <1>3 DEF Moves

LEMMA UpRoundFacts ==
    ASSUME NEW r \in Moves
    PROVE  /\ UpRound(r) \in Moves /\ Same(r, UpRound(r))
           /\ UpOrder(PriOf(r), Len(r.heap), r.at) =>
                UpOrder(PriOf(UpRound(r)), Len(r.heap), UpRound(r).at)
           /\ ~UpMore(r) => UpRound(r) = r
           /\ UpMore(r) => UpRound(r).at < r.at
<1>0. QTyped(r) /\ Placed(r) /\ r.at \in 1..Len(r.heap) /\ Len(r.heap) \in Nat
  BY MovesFacts
<1>1. CASE ~UpMore(r)
  <2>1. UpRound(r) = r
    BY <1>1 DEF UpRound, UpMore
  <2>2. Same(r, r)
    BY DEF Same
  <2> QED BY <1>1, <2>1, <2>2
<1>2. CASE UpMore(r)
  <2> DEFINE p == r.at \div 2
             q == Exchange(r, p)
             n == Len(r.heap)
  <2>1. UpRound(r) = q /\ r.at > 1 /\ Pri(r, p) > Pri(r, r.at)
    BY <1>2 DEF UpRound, UpMore, CmpPri
  <2>2. r.at \in 2..n /\ p \in 1..n /\ p < r.at /\ p # r.at /\ p = r.at \div 2
    BY <1>0, <2>1, Parents
  <2> HIDE DEF p
  <2>3. q \in Moves /\ Same(r, q) /\ q.at = p
    BY <2>2, ExchangeMoves
  <2>4. Swapped(PriOf(r), PriOf(q), n, r.at, p)
    BY <1>0, <2>2, ExchangeFacts
  <2>5. Len(q.heap) = n /\ QTyped(q)
    BY <2>3, MovesFacts DEF Same
  <2>6. PriOf(r) \in [1..n -> Int] /\ PriOf(q) \in [1..n -> Int] /\ PriOf(r)[p] > PriOf(r)[r.at]
    BY <1>0, <2>1, <2>2, <2>5, QFacts
  <2> HIDE DEF q, n
  <2>7. UpOrder(PriOf(r), n, r.at) => UpOrder(PriOf(q), n, p)
    <3> DEFINE at == r.at
               f == PriOf(r)
               g == PriOf(q)
    <3>1. /\ at \in 2..n /\ IsParent(p, at) /\ f \in [1..n -> Int] /\ g \in [1..n -> Int]
          /\ f[p] > f[at] /\ Swapped(f, g, n, at, p) /\ n \in Nat
      BY <1>0, <2>2, <2>4, <2>6 DEF n, IsParent
    <3> HIDE DEF at, f, g
    <3>2. UpOrder(f, n, at) => UpOrder(g, n, p)
      <4> SUFFICES ASSUME UpOrder(f, n, at) PROVE UpOrder(g, n, p)
        OBVIOUS
      <4> QED BY <3>1, UpExchange
    <3> QED BY <3>2 DEF at, f, g
  <2> QED BY <1>2, <2>1, <2>2, <2>3, <2>7 DEF n
<1> QED BY <1>1, <1>2

(* maxchild finds the child with the lesser priority. *)
LEMMA MaxChildFacts ==
    ASSUME NEW r, QTyped(r), NEW i \in 1..Len(r.heap)
    PROVE  /\ MaxChild(r, i) = 0 => \A k \in 2..Len(r.heap) : k \div 2 # i
           /\ MaxChild(r, i) # 0 => Lesser(PriOf(r), Len(r.heap), i, MaxChild(r, i))
<1> DEFINE n == Len(r.heap)
           f == PriOf(r)
           c == MaxChild(r, i)
<1>0. n \in Nat /\ i \in Nat /\ i >= 1 /\ \A k \in 1..n : f[k] = Pri(r, k) /\ f[k] \in Int
  BY QFacts
<1>1. \A k \in Nat : k \div 2 = i => k = 2 * i \/ k = 2 * i + 1
  BY <1>0
<1>2. (2 * i) \div 2 = i /\ (2 * i + 1) \div 2 = i
  BY <1>0
<1>3. CASE 2 * i > n
  <2>1. c = 0
    BY <1>3 DEF MaxChild
  <2>2. \A k \in 2..n : k \div 2 # i
    BY <1>0, <1>1, <1>3
  <2> QED BY <2>1, <2>2
<1>4. CASE 2 * i <= n
  <2>0. 2 * i \in 2..n /\ 2 * i \in 1..n
    BY <1>0, <1>4
  <2>1. CASE 2 * i + 1 <= n /\ Pri(r, 2 * i) > Pri(r, 2 * i + 1)
    <3>1. c = 2 * i + 1 /\ 2 * i + 1 \in 2..n /\ 2 * i + 1 \in 1..n
      BY <1>0, <1>4, <2>1 DEF MaxChild, CmpPri
    <3>2. \A k \in 2..n : k \div 2 = i => f[2 * i + 1] <= f[k]
      BY <1>0, <1>1, <2>0, <2>1, <3>1
    <3> QED BY <1>0, <1>2, <3>1, <3>2 DEF Lesser
  <2>2. CASE ~(2 * i + 1 <= n /\ Pri(r, 2 * i) > Pri(r, 2 * i + 1))
    <3>1. c = 2 * i
      BY <1>0, <1>4, <2>2 DEF MaxChild, CmpPri
    <3>2. \A k \in 2..n : k \div 2 = i => f[2 * i] <= f[k]
      BY <1>0, <1>1, <2>0, <2>2
    <3> QED BY <1>0, <1>2, <2>0, <3>1, <3>2 DEF Lesser
  <2> QED BY <2>1, <2>2
<1> QED BY <1>0, <1>3, <1>4

LEMMA DownRoundFacts ==
    ASSUME NEW r \in Moves
    PROVE  /\ DownRound(r) \in Moves /\ Same(r, DownRound(r))
           /\ DownOrder(PriOf(r), Len(r.heap), r.at) =>
                DownOrder(PriOf(DownRound(r)), Len(r.heap), DownRound(r).at)
           /\ ~DownMore(r) => DownRound(r) = r
           /\ DownMore(r) => DownRound(r).at > r.at
<1>0. QTyped(r) /\ Placed(r) /\ r.at \in 1..Len(r.heap) /\ Len(r.heap) \in Nat
  BY MovesFacts
<1>1. CASE ~DownMore(r)
  <2>1. DownRound(r) = r
    BY <1>1 DEF DownRound, DownMore
  <2>2. Same(r, r)
    BY DEF Same
  <2> QED BY <1>1, <2>1, <2>2
<1>2. CASE DownMore(r)
  <2> DEFINE c == MaxChild(r, r.at)
             q == Exchange(r, c)
             n == Len(r.heap)
  <2>1. DownRound(r) = q /\ c # 0 /\ Pri(r, r.at) > Pri(r, c)
    BY <1>2 DEF DownRound, DownMore, CmpPri
  <2>2. Lesser(PriOf(r), n, r.at, c)
    BY <1>0, <2>1, MaxChildFacts
  <2> HIDE DEF c
  <2>3. c \in 1..n /\ c > r.at /\ r.at # c
    BY <1>0, <2>2, Parents DEF Lesser
  <2>4. q \in Moves /\ Same(r, q) /\ q.at = c
    BY <2>3, ExchangeMoves
  <2>5. Swapped(PriOf(r), PriOf(q), n, r.at, c)
    BY <1>0, <2>3, ExchangeFacts
  <2>6. Len(q.heap) = n /\ QTyped(q)
    BY <2>4, MovesFacts DEF Same
  <2>7. PriOf(r) \in [1..n -> Int] /\ PriOf(q) \in [1..n -> Int] /\ PriOf(r)[r.at] > PriOf(r)[c]
    BY <1>0, <2>1, <2>3, <2>6, QFacts
  <2> HIDE DEF q, n
  <2>8. DownOrder(PriOf(r), n, r.at) => DownOrder(PriOf(q), n, c)
    <3> DEFINE at == r.at
               f == PriOf(r)
               g == PriOf(q)
    <3>1. /\ at \in 1..n /\ f \in [1..n -> Int] /\ g \in [1..n -> Int]
          /\ Lesser(f, n, at, c) /\ f[at] > f[c] /\ Swapped(f, g, n, at, c) /\ n \in Nat
      BY <1>0, <2>2, <2>5, <2>7 DEF n
    <3> HIDE DEF at, f, g
    <3>2. DownOrder(f, n, at) => DownOrder(g, n, c)
      BY <3>1, DownExchange
    <3> QED BY <3>2 DEF at, f, g
  <2> QED BY <1>2, <2>1, <2>3, <2>4, <2>8 DEF n
<1> QED BY <1>1, <1>2

QRec == [heap : Seq(Lines), line : [Lines -> LineRec]]

(* Only the node at i may not know its place. *)
Movable(s, i) ==
    /\ i \in 1..Len(s.heap)
    /\ \A k \in 1..Len(s.heap) : k # i => s.heap[k] # s.heap[i] /\ s.line[s.heap[k]].pos = k

(* What both loops leave behind. *)
Arranged(s, t) == t \in QRec /\ Placed(t) /\ Same(s, t) /\ HeapOrder(PriOf(t), Len(t.heap))

LEMMA MovingMoves ==
    ASSUME NEW s, QTyped(s), NEW i, Movable(s, i)
    PROVE  /\ Moving(s, i) \in Moves /\ Same(s, Moving(s, i)) /\ Moving(s, i).at = i
           /\ Len(Moving(s, i).heap) = Len(s.heap) /\ PriOf(Moving(s, i)) = PriOf(s)
<1> DEFINE r == Moving(s, i)
           l == [s.line EXCEPT ![s.heap[i]].pos = i]
<1>0. i \in 1..Len(s.heap)
  BY DEF Movable
<1>1. /\ QTyped(r) /\ Placed(r) /\ Same(s, r) /\ r.at = i /\ r.heap = s.heap
      /\ \A k \in 1..Len(s.heap) : Pri(r, k) = Pri(s, k)
  BY MovingFacts DEF Movable
<1>2. r = [heap |-> s.heap, line |-> l, at |-> i]
  BY DEF Moving
<1>3. s.heap \in Seq(Lines) /\ l \in [Lines -> LineRec] /\ i \in Nat
  <2>1. r.line = l
    BY <1>2
  <2> HIDE DEF r, l
  <2> QED BY <1>0, <1>1, <2>1, QFacts DEF QTyped
<1>4. r \in Moves
  <2> HIDE DEF l
  <2>1. r \in [heap : Seq(Lines), line : [Lines -> LineRec], at : Nat]
    BY <1>2, <1>3
  <2> HIDE DEF r
  <2> QED BY <1>0, <1>1, <2>1 DEF Moves
<1>5. PriOf(r) = PriOf(s)
  <2> HIDE DEF r
  <2> QED BY <1>1 DEF PriOf
<1> QED BY <1>1, <1>4, <1>5

(* What is left of a loop's last state is in order. *)
LEMMA LoopResult ==
    ASSUME NEW s, NEW r \in Moves, Same(s, r), HeapOrder(PriOf(r), Len(r.heap)),
           NEW t, t = [heap |-> r.heap, line |-> r.line]
    PROVE  Arranged(s, t)
<1>1. t.heap = r.heap /\ t.line = r.line
  OBVIOUS
<1>2. t \in QRec
  BY DEF Moves, QRec
<1>3. PriOf(t) = PriOf(r)
  BY <1>1 DEF PriOf, Pri
<1>4. Placed(t)
  BY <1>1, MovesFacts DEF Placed
<1>5. Same(s, t)
  BY <1>1 DEF Same, Queued
<1> QED BY <1>1, <1>2, <1>3, <1>4, <1>5 DEF Arranged

LEMMA BubbleUpFacts ==
    ASSUME NEW s, QTyped(s), NEW i, Movable(s, i), UpOrder(PriOf(s), Len(s.heap), i)
    PROVE  Arranged(s, BubbleUp(s, i))
<1> DEFINE n == Len(s.heap)
           c == Moving(s, i)
           tu == [r \in Moves |-> UpRound(r)]
           st == [m \in 1..n |-> tu]
           f == CHOOSE f : f = [m \in 0..n |-> IF m = 0 THEN c ELSE UpRound(f[m - 1])]
<1>0. n \in Nat /\ i \in 1..n
  BY QFacts DEF Movable
<1>1. c \in Moves /\ Same(s, c) /\ c.at = i /\ Len(c.heap) = n /\ PriOf(c) = PriOf(s)
  BY MovingMoves
<1>2. tu \in [Moves -> Moves] /\ \A r \in Moves : tu[r] = UpRound(r)
  BY UpRoundFacts
<1> HIDE DEF tu
<1>3. st \in [1..n -> [Moves -> Moves]] /\ \A m \in 1..n : st[m] = tu
  BY <1>2
<1> HIDE DEF st
<1>4. PICK g \in [0..n -> Moves] : g[0] = c /\ \A m \in 1..n : g[m] = st[m][g[m - 1]]
  <2> HIDE DEF c, n
  <2>1. n \in Nat /\ c \in Moves
    BY <1>0, <1>1
  <2>2. st \in [1..n -> [Moves -> Moves]]
    BY <1>3
  <2> QED BY <2>1, <2>2, RecExists
<1>5. \A m \in 1..n : g[m - 1] \in Moves /\ g[m] = UpRound(g[m - 1])
  <2> SUFFICES ASSUME NEW m \in 1..n PROVE g[m - 1] \in Moves /\ g[m] = UpRound(g[m - 1])
    OBVIOUS
  <2>1. g[m - 1] \in Moves
    BY <1>0, <1>4
  <2> QED BY <1>2, <1>3, <1>4, <2>1
<1>6. g = [m \in 0..n |-> IF m = 0 THEN c ELSE UpRound(g[m - 1])]
  <2> HIDE DEF c, n
  <2> DEFINE B(m) == IF m = 0 THEN c ELSE UpRound(g[m - 1])
  <2>1. ASSUME NEW m \in 0..n PROVE g[m] = B(m)
    BY <1>0, <1>4, <1>5
  <2>2. g = [m \in 0..n |-> g[m]]
    BY <1>4
  <2> HIDE DEF B
  <2>3. g = [m \in 0..n |-> B(m)]
    BY <2>1, <2>2
  <2> QED BY <2>3 DEF B
<1>7. f = [m \in 0..n |-> IF m = 0 THEN c ELSE UpRound(f[m - 1])]
  <2> HIDE DEF c, n
  <2> QED BY <1>6, Zenon
<1>8. BubbleUp(s, i) = [heap |-> f[n].heap, line |-> f[n].line]
  BY DEF BubbleUp
<1> HIDE DEF f, c, n
<1>9. f[0] = c /\ \A m \in 1..n : f[m] = UpRound(f[m - 1])
  BY <1>0, <1>7
<1> DEFINE T == {m \in Nat : m <= n =>
                   /\ f[m] \in Moves /\ Same(s, f[m])
                   /\ UpOrder(PriOf(f[m]), n, f[m].at)
                   /\ ~UpMore(f[m]) \/ f[m].at + m <= i}
<1>10. 0 \in T
  <2>1. UpOrder(PriOf(c), n, c.at)
    BY <1>1 DEF n
  <2> QED BY <1>0, <1>1, <1>9, <2>1
<1>11. ASSUME NEW m \in T PROVE m + 1 \in T
  <2> SUFFICES ASSUME m + 1 <= n
               PROVE  /\ f[m + 1] \in Moves /\ Same(s, f[m + 1])
                      /\ UpOrder(PriOf(f[m + 1]), n, f[m + 1].at)
                      /\ ~UpMore(f[m + 1]) \/ f[m + 1].at + (m + 1) <= i
    BY <1>11
  <2> DEFINE r == f[m]
             q == f[m + 1]
  <2>0. m \in Nat /\ m <= n
    BY <1>0, <1>11
  <2>1. /\ r \in Moves /\ Same(s, r) /\ UpOrder(PriOf(r), n, r.at)
        /\ ~UpMore(r) \/ r.at + m <= i
    BY <1>11, <2>0
  <2>2. q = UpRound(r)
    <3>1. m + 1 \in 1..n /\ (m + 1) - 1 = m
      BY <1>0, <2>0
    <3> QED BY <1>9, <3>1
  <2> HIDE DEF r, q
  <2>3. Len(r.heap) = n
    BY <2>1 DEF Same, n
  <2>4. /\ q \in Moves /\ Same(r, q) /\ UpOrder(PriOf(q), n, q.at)
        /\ ~UpMore(r) => q = r
        /\ UpMore(r) => q.at < r.at
    BY <2>1, <2>2, <2>3, UpRoundFacts
  <2>5. Same(s, q)
    BY <2>1, <2>4, SameTrans
  <2>6. ~UpMore(q) \/ q.at + (m + 1) <= i
    <3>1. q.at \in Nat /\ r.at \in Nat
      BY <2>1, <2>4 DEF Moves
    <3> QED BY <1>0, <2>0, <2>1, <2>4, <3>1
  <2> QED BY <2>4, <2>5, <2>6 DEF q
<1>12. n \in T
  <2> HIDE DEF T
  <2>1. T \in SUBSET Nat
    BY DEF T
  <2> QED BY <1>0, <1>10, <1>11, <2>1, SetInduction
<1> DEFINE r == f[n]
<1>13. /\ r \in Moves /\ Same(s, r) /\ UpOrder(PriOf(r), n, r.at)
       /\ ~UpMore(r) \/ r.at + n <= i
  BY <1>0, <1>12
<1> HIDE DEF r
<1>14. ~UpMore(r) /\ QTyped(r) /\ Len(r.heap) = n /\ r.at \in 1..n
  BY <1>0, <1>13, MovesFacts DEF Same, n
<1>15. HeapOrder(PriOf(r), n)
  <2> DEFINE at == r.at
             h == PriOf(r)
  <2>1. h \in [1..n -> Int] /\ at \in 1..n /\ UpOrder(h, n, at)
    BY <1>13, <1>14, QFacts
  <2>2. ~(at > 1 /\ h[at \div 2] > h[at])
    <3>1. at > 1 => at \div 2 \in 1..n
      BY <1>14, Parents
    <3> QED BY <1>14, <3>1, QFacts DEF UpMore, CmpPri
  <2> HIDE DEF at, h
  <2>3. HeapOrder(h, n)
    <3>1. ASSUME at > 1 PROVE h[at \div 2] <= h[at]
      <4>1. at \div 2 \in 1..n
        BY <1>0, <2>1, <3>1, Parents
      <4> QED BY <2>1, <2>2, <3>1, <4>1
    <3> SUFFICES ASSUME NEW k \in 2..n PROVE h[k \div 2] <= h[k]
      BY DEF HeapOrder
    <3> QED BY <2>1, <3>1 DEF UpOrder
  <2> QED BY <2>3 DEF h
<1> QED BY <1>8, <1>13, <1>14, <1>15, LoopResult DEF r

LEMMA PercolateDownFacts ==
    ASSUME NEW s, QTyped(s), NEW i, Movable(s, i), DownOrder(PriOf(s), Len(s.heap), i)
    PROVE  Arranged(s, PercolateDown(s, i))
<1> DEFINE n == Len(s.heap)
           c == Moving(s, i)
           tu == [r \in Moves |-> DownRound(r)]
           st == [m \in 1..n |-> tu]
           f == CHOOSE f : f = [m \in 0..n |-> IF m = 0 THEN c ELSE DownRound(f[m - 1])]
<1>0. n \in Nat /\ i \in 1..n
  BY QFacts DEF Movable
<1>1. c \in Moves /\ Same(s, c) /\ c.at = i /\ Len(c.heap) = n /\ PriOf(c) = PriOf(s)
  BY MovingMoves
<1>2. tu \in [Moves -> Moves] /\ \A r \in Moves : tu[r] = DownRound(r)
  BY DownRoundFacts
<1> HIDE DEF tu
<1>3. st \in [1..n -> [Moves -> Moves]] /\ \A m \in 1..n : st[m] = tu
  BY <1>2
<1> HIDE DEF st
<1>4. PICK g \in [0..n -> Moves] : g[0] = c /\ \A m \in 1..n : g[m] = st[m][g[m - 1]]
  <2> HIDE DEF c, n
  <2>1. n \in Nat /\ c \in Moves
    BY <1>0, <1>1
  <2>2. st \in [1..n -> [Moves -> Moves]]
    BY <1>3
  <2> QED BY <2>1, <2>2, RecExists
<1>5. \A m \in 1..n : g[m - 1] \in Moves /\ g[m] = DownRound(g[m - 1])
  <2> SUFFICES ASSUME NEW m \in 1..n PROVE g[m - 1] \in Moves /\ g[m] = DownRound(g[m - 1])
    OBVIOUS
  <2>1. g[m - 1] \in Moves
    BY <1>0, <1>4
  <2> QED BY <1>2, <1>3, <1>4, <2>1
<1>6. g = [m \in 0..n |-> IF m = 0 THEN c ELSE DownRound(g[m - 1])]
  <2> HIDE DEF c, n
  <2> DEFINE B(m) == IF m = 0 THEN c ELSE DownRound(g[m - 1])
  <2>1. ASSUME NEW m \in 0..n PROVE g[m] = B(m)
    BY <1>0, <1>4, <1>5
  <2>2. g = [m \in 0..n |-> g[m]]
    BY <1>4
  <2> HIDE DEF B
  <2>3. g = [m \in 0..n |-> B(m)]
    BY <2>1, <2>2
  <2> QED BY <2>3 DEF B
<1>7. f = [m \in 0..n |-> IF m = 0 THEN c ELSE DownRound(f[m - 1])]
  <2> HIDE DEF c, n
  <2> QED BY <1>6, Zenon
<1>8. PercolateDown(s, i) = [heap |-> f[n].heap, line |-> f[n].line]
  BY DEF PercolateDown
<1> HIDE DEF f, c, n
<1>9. f[0] = c /\ \A m \in 1..n : f[m] = DownRound(f[m - 1])
  BY <1>0, <1>7
<1> DEFINE T == {m \in Nat : m <= n =>
                   /\ f[m] \in Moves /\ Same(s, f[m])
                   /\ DownOrder(PriOf(f[m]), n, f[m].at)
                   /\ ~DownMore(f[m]) \/ f[m].at >= i + m}
<1>10. 0 \in T
  <2>1. DownOrder(PriOf(c), n, c.at)
    BY <1>1 DEF n
  <2> QED BY <1>0, <1>1, <1>9, <2>1
<1>11. ASSUME NEW m \in T PROVE m + 1 \in T
  <2> SUFFICES ASSUME m + 1 <= n
               PROVE  /\ f[m + 1] \in Moves /\ Same(s, f[m + 1])
                      /\ DownOrder(PriOf(f[m + 1]), n, f[m + 1].at)
                      /\ ~DownMore(f[m + 1]) \/ f[m + 1].at >= i + (m + 1)
    BY <1>11
  <2> DEFINE r == f[m]
             q == f[m + 1]
  <2>0. m \in Nat /\ m <= n
    BY <1>0, <1>11
  <2>1. /\ r \in Moves /\ Same(s, r) /\ DownOrder(PriOf(r), n, r.at)
        /\ ~DownMore(r) \/ r.at >= i + m
    BY <1>11, <2>0
  <2>2. q = DownRound(r)
    <3>1. m + 1 \in 1..n /\ (m + 1) - 1 = m
      BY <1>0, <2>0
    <3> QED BY <1>9, <3>1
  <2> HIDE DEF r, q
  <2>3. Len(r.heap) = n
    BY <2>1 DEF Same, n
  <2>4. /\ q \in Moves /\ Same(r, q) /\ DownOrder(PriOf(q), n, q.at)
        /\ ~DownMore(r) => q = r
        /\ DownMore(r) => q.at > r.at
    BY <2>1, <2>2, <2>3, DownRoundFacts
  <2>5. Same(s, q)
    BY <2>1, <2>4, SameTrans
  <2>6. ~DownMore(q) \/ q.at >= i + (m + 1)
    <3>1. q.at \in Nat /\ r.at \in Nat
      BY <2>1, <2>4 DEF Moves
    <3> QED BY <1>0, <2>0, <2>1, <2>4, <3>1
  <2> QED BY <2>4, <2>5, <2>6 DEF q
<1>12. n \in T
  <2> HIDE DEF T
  <2>1. T \in SUBSET Nat
    BY DEF T
  <2> QED BY <1>0, <1>10, <1>11, <2>1, SetInduction
<1> DEFINE r == f[n]
<1>13. /\ r \in Moves /\ Same(s, r) /\ DownOrder(PriOf(r), n, r.at)
       /\ ~DownMore(r) \/ r.at >= i + n
  BY <1>0, <1>12
<1> HIDE DEF r
<1>14. ~DownMore(r) /\ QTyped(r) /\ Len(r.heap) = n /\ r.at \in 1..n
  BY <1>0, <1>13, MovesFacts DEF Same, n
<1>15. HeapOrder(PriOf(r), n)
  <2> DEFINE at == r.at
             h == PriOf(r)
             ch == MaxChild(r, r.at)
  <2>1. h \in [1..n -> Int] /\ at \in 1..n /\ DownOrder(h, n, at)
    BY <1>13, <1>14, QFacts
  <2>2. (\A k \in 2..n : k \div 2 # at) \/ (Lesser(h, n, at, ch) /\ h[at] <= h[ch])
    <3>1. CASE ch = 0
      BY <1>14, <3>1, MaxChildFacts
    <3>2. CASE ch # 0
      <4>1. Lesser(h, n, at, ch)
        BY <1>14, <3>2, MaxChildFacts
      <4>2. ch \in 1..n
        BY <1>0, <4>1 DEF Lesser
      <4>3. ~(Pri(r, at) > Pri(r, ch))
        BY <1>14, <3>2 DEF DownMore, CmpPri
      <4> HIDE DEF ch
      <4>4. h[at] = Pri(r, at) /\ h[ch] = Pri(r, ch) /\ h[at] \in Int /\ h[ch] \in Int
        BY <1>14, <4>2, QFacts
      <4>5. h[at] <= h[ch]
        <5> HIDE DEF h, at
        <5> QED BY <4>3, <4>4
      <4> QED BY <4>1, <4>5
    <3> QED BY <3>1, <3>2
  <2> HIDE DEF at, h, ch
  <2>3. HeapOrder(h, n)
    BY <1>0, <2>1, <2>2, DownEnds
  <2> QED BY <2>3 DEF h
<1> QED BY <1>8, <1>13, <1>14, <1>15, LoopResult DEF r

-----------------------------------------------------------------------------
(* The operations of the queue.                                            *)

QOk(s) ==
    /\ s \in QRec /\ Placed(s) /\ HeapOrder(PriOf(s), Len(s.heap))
    /\ \A b \in Lines : ~Queued(s, b) => s.line[b].pos = 0

(* t is s but for the line b, whose fields are now v, i, p and o. *)
Edited(s, t, b, v, i, p, o) ==
    /\ t \in QRec /\ t.heap = s.heap
    /\ \A c \in Lines \ {b} : t.line[c] = s.line[c]
    /\ t.line[b] = [vpc |-> v, ipc |-> i, pos |-> p, on |-> o]

WithVpc(s, b, e) == [s EXCEPT !.line[b].vpc = e]
WithIpc(s, b, e) == [s EXCEPT !.line[b].ipc = e]
WithPos(s, b, e) == [s EXCEPT !.line[b].pos = e]
WithOn(s, b, e) == [s EXCEPT !.line[b].on = e]

LEMMA EditFacts ==
    ASSUME NEW s \in QRec, NEW b \in Lines
    PROVE  LET n == s.line[b]
           IN  /\ \A e \in Int : Edited(s, WithVpc(s, b, e), b, e, n.ipc, n.pos, n.on)
               /\ \A e \in Int : Edited(s, WithIpc(s, b, e), b, n.vpc, e, n.pos, n.on)
               /\ \A e \in Nat : Edited(s, WithPos(s, b, e), b, n.vpc, n.ipc, e, n.on)
               /\ \A e \in Lists : Edited(s, WithOn(s, b, e), b, n.vpc, n.ipc, n.pos, e)
<1> DEFINE n == s.line[b]
           l == s.line
<1>0. s = [heap |-> s.heap, line |-> l] /\ s.heap \in Seq(Lines) /\ l \in [Lines -> LineRec]
  BY DEF QRec
<1>1. /\ n \in LineRec /\ n = [vpc |-> n.vpc, ipc |-> n.ipc, pos |-> n.pos, on |-> n.on]
      /\ n.vpc \in Int /\ n.ipc \in Int /\ n.pos \in Nat /\ n.on \in Lists
  BY <1>0 DEF LineRec
<1>2. ASSUME NEW e \in Int PROVE Edited(s, WithVpc(s, b, e), b, e, n.ipc, n.pos, n.on)
  <2> DEFINE x == [n EXCEPT !.vpc = e]
             k == [l EXCEPT ![b] = x]
  <2>1. WithVpc(s, b, e) = [heap |-> s.heap, line |-> k]
    BY <1>0 DEF WithVpc
  <2>2. x = [vpc |-> e, ipc |-> n.ipc, pos |-> n.pos, on |-> n.on] /\ x \in LineRec
    BY <1>1 DEF LineRec
  <2> HIDE DEF x
  <2>3. k \in [Lines -> LineRec] /\ k[b] = x /\ \A c \in Lines \ {b} : k[c] = l[c]
    BY <1>0, <2>2
  <2> HIDE DEF k, n
  <2> QED BY <1>0, <2>1, <2>2, <2>3 DEF Edited, QRec
<1>3. ASSUME NEW e \in Int PROVE Edited(s, WithIpc(s, b, e), b, n.vpc, e, n.pos, n.on)
  <2> DEFINE x == [n EXCEPT !.ipc = e]
             k == [l EXCEPT ![b] = x]
  <2>1. WithIpc(s, b, e) = [heap |-> s.heap, line |-> k]
    BY <1>0 DEF WithIpc
  <2>2. x = [vpc |-> n.vpc, ipc |-> e, pos |-> n.pos, on |-> n.on] /\ x \in LineRec
    BY <1>1 DEF LineRec
  <2> HIDE DEF x
  <2>3. k \in [Lines -> LineRec] /\ k[b] = x /\ \A c \in Lines \ {b} : k[c] = l[c]
    BY <1>0, <2>2
  <2> HIDE DEF k, n
  <2> QED BY <1>0, <2>1, <2>2, <2>3 DEF Edited, QRec
<1>4. ASSUME NEW e \in Nat PROVE Edited(s, WithPos(s, b, e), b, n.vpc, n.ipc, e, n.on)
  <2> DEFINE x == [n EXCEPT !.pos = e]
             k == [l EXCEPT ![b] = x]
  <2>1. WithPos(s, b, e) = [heap |-> s.heap, line |-> k]
    BY <1>0 DEF WithPos
  <2>2. x = [vpc |-> n.vpc, ipc |-> n.ipc, pos |-> e, on |-> n.on] /\ x \in LineRec
    BY <1>1 DEF LineRec
  <2> HIDE DEF x
  <2>3. k \in [Lines -> LineRec] /\ k[b] = x /\ \A c \in Lines \ {b} : k[c] = l[c]
    BY <1>0, <2>2
  <2> HIDE DEF k, n
  <2> QED BY <1>0, <2>1, <2>2, <2>3 DEF Edited, QRec
<1>5. ASSUME NEW e \in Lists PROVE Edited(s, WithOn(s, b, e), b, n.vpc, n.ipc, n.pos, e)
  <2> DEFINE x == [n EXCEPT !.on = e]
             k == [l EXCEPT ![b] = x]
  <2>1. WithOn(s, b, e) = [heap |-> s.heap, line |-> k]
    BY <1>0 DEF WithOn
  <2>2. x = [vpc |-> n.vpc, ipc |-> n.ipc, pos |-> n.pos, on |-> e] /\ x \in LineRec
    BY <1>1 DEF LineRec
  <2> HIDE DEF x
  <2>3. k \in [Lines -> LineRec] /\ k[b] = x /\ \A c \in Lines \ {b} : k[c] = l[c]
    BY <1>0, <2>2
  <2> HIDE DEF k, n
  <2> QED BY <1>0, <2>1, <2>2, <2>3 DEF Edited, QRec
<1> QED BY <1>2, <1>3, <1>4, <1>5

(* Lines are edited outside their places and the priorities of queued ones.*)
Harmless(s, t) ==
    /\ t \in QRec /\ t.heap = s.heap
    /\ \A c \in Lines : t.line[c].pos = s.line[c].pos /\ (Queued(s, c) => t.line[c].vpc = s.line[c].vpc)

LEMMA HarmlessOk ==
    ASSUME NEW s, QOk(s), NEW t, Harmless(s, t)
    PROVE  QOk(t) /\ \A c \in Lines : Queued(t, c) <=> Queued(s, c)
<1>1. t.heap = s.heap /\ t \in QRec /\ QTyped(s)
  BY DEF Harmless, QOk, QRec, QTyped
<1>2. \A c \in Lines : Queued(t, c) <=> Queued(s, c)
  BY <1>1 DEF Queued
<1>3. \A c \in Lines : t.line[c].pos = s.line[c].pos /\ (Queued(s, c) => t.line[c].vpc = s.line[c].vpc)
  BY DEF Harmless
<1>4. \A k \in 1..Len(s.heap) : s.heap[k] \in Lines /\ Queued(s, s.heap[k])
  BY <1>1, QFacts DEF Queued
<1>5. PriOf(t) = PriOf(s)
  BY <1>1, <1>3, <1>4 DEF PriOf, Pri
<1>6. Placed(t)
  BY <1>1, <1>3, <1>4 DEF Placed, QOk
<1> QED BY <1>1, <1>2, <1>3, <1>5, <1>6 DEF QOk

(* Same lines on the same lists with the same counts. *)
Kept(s, t) ==
    \A c \in Lines : /\ t.line[c].vpc = s.line[c].vpc /\ t.line[c].ipc = s.line[c].ipc
                     /\ t.line[c].on = s.line[c].on

LEMMA InsertFacts ==
    ASSUME NEW s, QOk(s), NEW b \in Lines, ~Queued(s, b)
    PROVE  /\ QOk(PqueueInsert(s, b)) /\ Kept(s, PqueueInsert(s, b))
           /\ \A c \in Lines : Queued(PqueueInsert(s, b), c) <=> Queued(s, c) \/ c = b
<1> DEFINE n == Len(s.heap)
           h == Append(s.heap, b)
           u == [s EXCEPT !.heap = Append(@, b)]
           t == PqueueInsert(s, b)
<1>0. s \in QRec /\ QTyped(s) /\ n \in Nat /\ n + 1 \in Nat
  BY QFacts DEF QOk, QRec, QTyped
<1>1. u.heap = h /\ u.line = s.line
  BY <1>0 DEF QRec
<1>2. /\ h \in Seq(Lines) /\ Len(h) = n + 1 /\ h[n + 1] = b
      /\ \A k \in 1..n : h[k] = s.heap[k]
  BY <1>0 DEF QTyped
<1>3. t = BubbleUp(u, n + 1)
  BY DEF PqueueInsert
<1> HIDE DEF u, h, t
<1>4. QTyped(u)
  BY <1>0, <1>1, <1>2 DEF QTyped
<1>5. \A k \in 1..(n + 1) : k # n + 1 => k \in 1..n
  BY <1>0
<1>6. Movable(u, n + 1)
  <2>1. \A k \in 1..n : s.heap[k] # b /\ s.line[s.heap[k]].pos = k
    BY DEF Queued, QOk, Placed
  <2>2. n + 1 \in 1..(n + 1)
    BY <1>0
  <2> HIDE DEF n
  <2> QED BY <1>1, <1>2, <1>5, <2>1, <2>2 DEF Movable
<1>7. UpOrder(PriOf(u), Len(u.heap), n + 1)
  <2>1. Len(u.heap) = n + 1
    BY <1>1, <1>2
  <2>2. \A k \in 1..n : PriOf(u)[k] = PriOf(s)[k]
    <3>1. \A k \in 1..n : k \in 1..(n + 1) /\ Pri(u, k) = Pri(s, k)
      BY <1>0, <1>1, <1>2 DEF Pri
    <3> QED BY <1>0, <2>1, <3>1 DEF PriOf
  <2>3. ASSUME NEW k \in 2..(n + 1), k # n + 1 PROVE PriOf(u)[k \div 2] <= PriOf(u)[k]
    <3>1. k \in 2..n /\ k \in 1..n /\ k \div 2 \in 1..n
      BY <1>0, <2>3, Parents
    <3>2. PriOf(s)[k \div 2] <= PriOf(s)[k]
      BY <3>1 DEF QOk, HeapOrder
    <3> QED BY <2>2, <3>1, <3>2
  <2>4. \A k \in 2..(n + 1) : k \div 2 # n + 1
    BY <1>0, Parents
  <2> HIDE DEF n
  <2> QED BY <2>1, <2>3, <2>4 DEF UpOrder
<1>8. Arranged(u, t)
  <2> HIDE DEF n
  <2> QED BY <1>3, <1>4, <1>6, <1>7, BubbleUpFacts
<1>9. Kept(s, t)
  BY <1>1, <1>8 DEF Arranged, Same, Kept
<1>10. \A c \in Lines : Queued(u, c) <=> Queued(s, c) \/ c = b
  <2> SUFFICES ASSUME NEW c \in Lines PROVE Queued(u, c) <=> Queued(s, c) \/ c = b
    OBVIOUS
  <2>1. Len(u.heap) = n + 1
    BY <1>1, <1>2
  <2>2. ASSUME NEW k \in 1..(n + 1), h[k] = c PROVE Queued(s, c) \/ c = b
    BY <1>2, <1>5, <2>2 DEF Queued
  <2>3. ASSUME NEW k \in 1..n, s.heap[k] = c PROVE \E j \in 1..(n + 1) : h[j] = c
    BY <1>0, <1>2, <2>3
  <2>4. \E j \in 1..(n + 1) : h[j] = b
    BY <1>0, <1>2
  <2> QED BY <1>1, <2>1, <2>2, <2>3, <2>4 DEF Queued
<1>11. \A c \in Lines : Queued(t, c) <=> Queued(s, c) \/ c = b
  BY <1>8, <1>10 DEF Arranged, Same
<1>12. \A c \in Lines : ~Queued(t, c) => t.line[c].pos = 0
  BY <1>1, <1>8, <1>10 DEF Arranged, Same, QOk
<1>13. QOk(t)
  BY <1>8, <1>12 DEF Arranged, QOk
<1> QED BY <1>9, <1>11, <1>13 DEF t

LEMMA ChangeFacts ==
    ASSUME NEW s, QOk(s), NEW b \in Lines, Queued(s, b), NEW e \in Int, e < s.line[b].vpc
    PROVE  LET t == PqueueChangePriority(s, e, b)
           IN  /\ QOk(t) /\ \A c \in Lines : Queued(t, c) <=> Queued(s, c)
               /\ \A c \in Lines : /\ t.line[c].vpc = IF c = b THEN e ELSE s.line[c].vpc
                                   /\ t.line[c].ipc = s.line[c].ipc /\ t.line[c].on = s.line[c].on
<1> DEFINE n == Len(s.heap)
           i == s.line[b].pos
           u == WithVpc(s, b, e)
           t == PqueueChangePriority(s, e, b)
<1>0. s \in QRec /\ QTyped(s) /\ n \in Nat
  BY QFacts DEF QOk, QRec, QTyped
<1>1. i \in 1..n /\ s.heap[i] = b
  BY DEF QOk, Queued, Placed
<1>2. Edited(s, u, b, e, s.line[b].ipc, i, s.line[b].on)
  BY <1>0, EditFacts
<1>3. t = BubbleUp(u, i)
  <2>1. u = [s EXCEPT !.line[b].vpc = e]
    BY DEF WithVpc
  <2>2. u.line[b].pos = i
    BY <1>2 DEF Edited
  <2>3. CmpPri(s.line[b].vpc, e)
    BY <1>0, QFacts DEF CmpPri
  <2> QED BY <2>1, <2>2, <2>3 DEF PqueueChangePriority
<1> HIDE DEF u, t, i
<1>4. QTyped(u) /\ u.heap = s.heap
  BY <1>2 DEF Edited, QRec, QTyped
<1>5. \A c \in Lines : /\ u.line[c].vpc = (IF c = b THEN e ELSE s.line[c].vpc)
                       /\ u.line[c].ipc = s.line[c].ipc /\ u.line[c].on = s.line[c].on
                       /\ u.line[c].pos = s.line[c].pos
  BY <1>2 DEF Edited, i
<1>6. \A k \in 1..n : s.heap[k] \in Lines /\ s.line[s.heap[k]].pos = k
  BY <1>0, QFacts DEF QOk, Placed
<1>7. Movable(u, i)
  BY <1>1, <1>4, <1>5, <1>6 DEF Movable
<1> DEFINE f == PriOf(s)
           g == PriOf(u)
<1>8. /\ \A k \in 1..n : g[k] = IF k = i THEN e ELSE f[k]
      /\ f \in [1..n -> Int] /\ f[i] = s.line[b].vpc
  <2>1. \A k \in 1..n : g[k] = u.line[s.heap[k]].vpc /\ f[k] = s.line[s.heap[k]].vpc
    BY <1>4 DEF PriOf, Pri
  <2>2. \A k \in 1..n : s.heap[k] = b <=> k = i
    BY <1>1, <1>6
  <2>3. f \in [1..n -> Int]
    BY <1>0, QFacts
  <2> HIDE DEF f, g
  <2> QED BY <1>1, <1>5, <1>6, <2>1, <2>2, <2>3
<1>9. HeapOrder(f, n)
  BY DEF QOk
<1> HIDE DEF f, g
<1>10. UpOrder(g, n, i)
  <2> HIDE DEF n
  <2>1. ASSUME NEW k \in 2..n, k # i PROVE g[k \div 2] <= g[k]
    <3> DEFINE j == k \div 2
    <3>1. j \in 1..n /\ k \in 1..n /\ f[j] <= f[k]
      BY <1>0, <1>9, Parents DEF HeapOrder
    <3> HIDE DEF j
    <3>2. g[j] <= g[k]
      BY <1>1, <1>8, <2>1, <3>1
    <3> QED BY <3>2 DEF j
  <2>2. ASSUME NEW k \in 2..n, k \div 2 = i, i > 1 PROVE g[i \div 2] <= g[k]
    <3> DEFINE j == i \div 2
    <3>1. /\ j \in 1..n /\ j < i /\ k \in 1..n /\ i < k /\ f[j] <= f[i]
      BY <1>0, <1>1, <1>9, <2>2, Parents DEF HeapOrder
    <3>2. f[i] <= f[k]
      BY <1>9, <2>2 DEF HeapOrder
    <3> HIDE DEF j
    <3>3. g[j] <= g[k]
      BY <1>1, <1>8, <3>1, <3>2
    <3> QED BY <3>3 DEF j
  <2> QED BY <2>1, <2>2 DEF UpOrder
<1>11. Arranged(u, t)
  BY <1>3, <1>4, <1>7, <1>10, BubbleUpFacts DEF g
<1>12. \A c \in Lines : Queued(u, c) <=> Queued(s, c)
  BY <1>4 DEF Queued
<1>13. \A c \in Lines : Queued(t, c) <=> Queued(s, c)
  BY <1>11, <1>12 DEF Arranged, Same
<1>14. \A c \in Lines : ~Queued(t, c) => t.line[c].pos = 0
  BY <1>5, <1>11, <1>12 DEF Arranged, Same, QOk
<1>15. QOk(t)
  BY <1>11, <1>14 DEF Arranged, QOk
<1>16. \A c \in Lines : /\ t.line[c].vpc = IF c = b THEN e ELSE s.line[c].vpc
                        /\ t.line[c].ipc = s.line[c].ipc /\ t.line[c].on = s.line[c].on
  BY <1>5, <1>11 DEF Arranged, Same
<1> QED BY <1>13, <1>15, <1>16 DEF t

(* After a pop only the line that is taken out does not know its place.    *)
Popped(s, t, v) ==
    /\ t \in QRec /\ Placed(t) /\ HeapOrder(PriOf(t), Len(t.heap)) /\ Kept(s, t)
    /\ \A c \in Lines : Queued(t, c) <=> Queued(s, c) /\ c # v
    /\ \A c \in Lines : ~Queued(t, c) /\ c # v => t.line[c].pos = 0

LEMMA PopFacts ==
    ASSUME NEW s, QOk(s), s.heap # << >>
    PROVE  /\ PqueuePeek(s) \in Lines /\ Queued(s, PqueuePeek(s))
           /\ Popped(s, PqueuePop(s), PqueuePeek(s))
<1> DEFINE n == Len(s.heap)
           v == PqueuePeek(s)
           t == PqueuePop(s)
<1>0. s \in QRec /\ QTyped(s) /\ n \in Nat /\ n >= 1 /\ s.heap \in Seq(Lines)
  BY QFacts DEF QOk, QRec, QTyped
<1>1. v = s.heap[1] /\ v \in Lines /\ Queued(s, v)
  BY <1>0, QFacts DEF PqueuePeek, Queued
<1>2. \A k \in 1..n : s.heap[k] \in Lines /\ s.line[s.heap[k]].pos = k
  BY <1>0, QFacts DEF QOk, Placed
<1>3. \A k \in 1..n : s.heap[k] = v <=> k = 1
  BY <1>0, <1>1, <1>2
<1> HIDE DEF v
<1>4. CASE n = 1
  <2>1. t = [s EXCEPT !.heap = << >>]
    BY <1>4 DEF PqueuePop
  <2>2. t.heap = << >> /\ t.line = s.line /\ t \in QRec
    <3>1. << >> \in Seq(Lines)
      OBVIOUS
    <3> QED BY <1>0, <2>1, <3>1 DEF QRec
  <2> HIDE DEF t
  <2>3. Len(t.heap) = 0
    BY <2>2
  <2>4. Placed(t) /\ HeapOrder(PriOf(t), Len(t.heap))
    BY <2>3 DEF Placed, HeapOrder
  <2>5. \A c \in Lines : ~Queued(t, c)
    BY <2>3 DEF Queued
  <2>6. \A c \in Lines : Queued(s, c) => c = v
    BY <1>3, <1>4 DEF Queued
  <2>7. Kept(s, t) /\ \A c \in Lines : c # v => t.line[c].pos = 0
    BY <2>2, <2>6 DEF Kept, QOk
  <2>8. Popped(s, t, v)
    BY <2>2, <2>4, <2>5, <2>6, <2>7 DEF Popped
  <2> QED BY <1>1, <2>8 DEF t, v
<1>5. CASE n # 1
  <2> DEFINE h == [i \in 1..(n - 1) |-> s.heap[IF i = 1 THEN n ELSE i]]
             u == [s EXCEPT !.heap = h]
             m == n - 1
  <2>0. m \in Nat /\ m >= 1 /\ n = m + 1
    <3> HIDE DEF n
    <3> QED BY <1>0, <1>5
  <2>1. t = PercolateDown(u, 1)
    BY <1>5 DEF PqueuePop
  <2>2. u.heap = h /\ u.line = s.line
    BY <1>0 DEF QRec
  <2>3. /\ \A k \in 1..m : h[k] = s.heap[IF k = 1 THEN n ELSE k] /\ h[k] \in Lines
        /\ h \in Seq(Lines) /\ Len(h) = m
    <3>1. \A k \in 1..m : (IF k = 1 THEN n ELSE k) \in 1..n
      BY <2>0
    <3>2. \A k \in 1..m : h[k] = s.heap[IF k = 1 THEN n ELSE k]
      OBVIOUS
    <3>3. \A k \in 1..m : h[k] \in Lines
      BY <1>2, <3>1, <3>2
    <3>4. h \in [1..m -> Lines]
      BY <1>2, <3>1
    <3> HIDE DEF h, m, n
    <3>5. h \in Seq(Lines) /\ Len(h) = m
      <4>1. DOMAIN h = 1..m /\ h \in Seq(Lines)
        BY <2>0, <3>4, SeqDef
      <4>2. Len(h) \in Nat /\ DOMAIN h = 1..Len(h)
        BY <4>1, LenProperties
      <4> QED BY <2>0, <4>1, <4>2
    <3> QED BY <3>2, <3>3, <3>5
  <2> HIDE DEF h, u, t, m
  <2>4. QTyped(u) /\ Len(u.heap) = m
    BY <1>0, <2>2, <2>3 DEF QTyped, QRec
  <2>5. Movable(u, 1)
    BY <1>2, <2>0, <2>2, <2>3, <2>4 DEF Movable
  <2>6. DownOrder(PriOf(u), m, 1)
    <3>1. \A k \in 2..m : PriOf(u)[k] = PriOf(s)[k]
      <4>1. \A k \in 2..m : k \in 1..m /\ k \in 1..n /\ k # 1
        BY <2>0
      <4>2. \A k \in 2..m : Pri(u, k) = Pri(s, k)
        BY <2>2, <2>3, <4>1 DEF Pri
      <4> QED BY <2>4, <4>1, <4>2 DEF PriOf
    <3>2. ASSUME NEW k \in 2..m, k \div 2 # 1 PROVE PriOf(u)[k \div 2] <= PriOf(u)[k]
      <4>1. k \div 2 \in 2..m /\ k \in 2..n
        BY <2>0, <3>2
      <4>2. PriOf(s)[k \div 2] <= PriOf(s)[k]
        BY <4>1 DEF QOk, HeapOrder
      <4> QED BY <3>1, <4>1, <4>2
    <3> QED BY <3>2 DEF DownOrder
  <2>7. Arranged(u, t)
    BY <2>1, <2>4, <2>5, <2>6, PercolateDownFacts
  <2>8. \A c \in Lines : Queued(u, c) <=> Queued(s, c) /\ c # v
    <3> SUFFICES ASSUME NEW c \in Lines PROVE Queued(u, c) <=> Queued(s, c) /\ c # v
      OBVIOUS
    <3>1. ASSUME NEW k \in 1..m, h[k] = c PROVE Queued(s, c) /\ c # v
      <4> DEFINE j == IF k = 1 THEN n ELSE k
      <4>1. j \in 1..n /\ j # 1 /\ s.heap[j] = c
        BY <2>0, <2>3, <3>1
      <4> HIDE DEF j
      <4> QED BY <1>3, <4>1 DEF Queued
    <3>2. ASSUME NEW k \in 1..n, s.heap[k] = c, c # v PROVE \E j \in 1..m : h[j] = c
      <4>1. CASE k = n
        <5>1. 1 \in 1..m /\ h[1] = c
          BY <2>0, <2>3, <3>2, <4>1
        <5> QED BY <5>1
      <4>2. CASE k # n
        <5>1. k \in 1..m /\ h[k] = c
          BY <1>3, <2>0, <2>3, <3>2, <4>2
        <5> QED BY <5>1
      <4> QED BY <4>1, <4>2
    <3> QED BY <2>2, <2>4, <3>1, <3>2 DEF Queued
  <2>9. \A c \in Lines : Queued(t, c) <=> Queued(s, c) /\ c # v
    BY <2>7, <2>8 DEF Arranged, Same
  <2>10. \A c \in Lines : ~Queued(t, c) /\ c # v => t.line[c].pos = 0
    BY <2>2, <2>7, <2>8 DEF Arranged, Same, QOk
  <2>11. Kept(s, t)
    BY <2>2, <2>7 DEF Arranged, Same, Kept
  <2>12. Popped(s, t, v)
    BY <2>7, <2>9, <2>10, <2>11 DEF Arranged, Popped
  <2> QED BY <1>1, <2>12 DEF t, v
<1> QED BY <1>4, <1>5

(* select_victim_line takes the head of the queue. *)
LEMMA SelectFacts ==
    ASSUME NEW s, QOk(s), s.heap # << >>
    PROVE  LET t == SelectVictimLine(s)
               v == PqueuePeek(s)
           IN  /\ v \in Lines /\ Queued(s, v) /\ QOk(t)
               /\ \A c \in Lines : Queued(t, c) <=> Queued(s, c) /\ c # v
               /\ \A c \in Lines : /\ t.line[c].vpc = s.line[c].vpc /\ t.line[c].ipc = s.line[c].ipc
                                   /\ t.line[c].on = IF c = v THEN "gc" ELSE s.line[c].on
<1> DEFINE v == PqueuePeek(s)
           p == PqueuePop(s)
           q == WithPos(p, v, 0)
           t == SelectVictimLine(s)
<1>1. v \in Lines /\ Queued(s, v) /\ Popped(s, p, v)
  BY PopFacts
<1>2. t = [p EXCEPT !.line[v].pos = 0, !.line[v].on = "gc"]
  BY DEF SelectVictimLine
<1> HIDE DEF v, p
<1>3. p \in QRec /\ "gc" \in Lists
  BY <1>1 DEF Popped, Lists
<1>4. Edited(p, q, v, p.line[v].vpc, p.line[v].ipc, 0, p.line[v].on)
  BY <1>1, <1>3, EditFacts
<1>5. t = WithOn(q, v, "gc")
  BY <1>1, <1>2, <1>3 DEF QRec, WithOn, WithPos
<1> HIDE DEF t, q
<1>6. Edited(q, t, v, q.line[v].vpc, q.line[v].ipc, q.line[v].pos, "gc")
  BY <1>1, <1>3, <1>4, <1>5, EditFacts DEF Edited
<1>7. t \in QRec /\ t.heap = p.heap /\ \A c \in Lines : t.line[c].vpc = s.line[c].vpc /\ t.line[c].ipc = s.line[c].ipc
  BY <1>1, <1>4, <1>6 DEF Edited, Popped, Kept
<1>8. \A c \in Lines : /\ t.line[c].on = (IF c = v THEN "gc" ELSE s.line[c].on)
                       /\ t.line[c].pos = (IF c = v THEN 0 ELSE p.line[c].pos)
  BY <1>1, <1>4, <1>6 DEF Edited, Popped, Kept
<1>9. \A c \in Lines : Queued(t, c) <=> Queued(s, c) /\ c # v
  BY <1>1, <1>7 DEF Popped, Queued
<1>10. QTyped(p) /\ \A k \in 1..Len(p.heap) : p.heap[k] \in Lines /\ p.heap[k] # v
  <2>1. QTyped(p)
    BY <1>3 DEF QRec, QTyped
  <2>2. ~Queued(p, v)
    BY <1>1 DEF Popped
  <2> QED BY <2>1, <2>2, QFacts DEF Queued
<1>11. Placed(t)
  BY <1>1, <1>7, <1>8, <1>10 DEF Popped, Placed
<1>12. PriOf(t) = PriOf(p)
  <2>1. \A c \in Lines : p.line[c].vpc = t.line[c].vpc
    BY <1>1, <1>7 DEF Popped, Kept
  <2> QED BY <1>7, <1>10, <2>1 DEF PriOf, Pri
<1>13. \A c \in Lines : ~Queued(t, c) => t.line[c].pos = 0
  BY <1>1, <1>8, <1>9 DEF Popped
<1>14. QOk(t)
  BY <1>1, <1>7, <1>11, <1>12, <1>13 DEF Popped, QOk
<1> QED BY <1>1, <1>7, <1>8, <1>9, <1>14 DEF t, v

-----------------------------------------------------------------------------
(* The two orders of the pages of a line.  Rank: in which a write pointer  *)
(* passes them.  VRank: in which a collection does.                        *)

Wordlines == PgsPerBlk \div Oneshot
Flashpgs == PgsPerBlk \div Flashpg

RankOf(a, l, c, r) == ((a * NLuns + l) * NChs + c) * Oneshot + r
Rank(p) == RankOf(p.pg \div Oneshot, p.lun, p.ch, p.pg % Oneshot)

VRankOf(a, c, l, r) == ((a * NChs + c) * NLuns + l) * Flashpg + r
VRank(p) == VRankOf(p.pg \div Flashpg, p.ch, p.lun, p.pg % Flashpg)

LEMMA FtlConsts ==
    /\ NLines \in Nat /\ NLines > 4
    /\ NChs \in Nat \ {0} /\ NLuns \in Nat \ {0} /\ Oneshot \in Nat \ {0} /\ Flashpg \in Nat \ {0}
    /\ PgsPerBlk \in Nat \ {0}
    /\ IsFiniteSet(Lpns) /\ InvalidLpn \notin Lpns /\ Unmapped \notin Ppas
    /\ Cardinality(Lpns) <= (NLines - 4) * PgsPerLine
  BY FtlAssumption, UnmappedAssumption DEF PgsPerLine

(* Two digits, the second of base B. *)
LEMMA Digits ==
    ASSUME NEW A \in Nat, NEW B \in Nat \ {0}, NEW a \in 0..(A - 1), NEW b \in 0..(B - 1)
    PROVE  a * B + b \in 0..(A * B - 1) /\ a * B \in Nat
<1>1. a * B \in Nat /\ a * B >= 0
  OBVIOUS
<1>2. (A - 1 - a) * B >= 0
  OBVIOUS
<1>3. (A - 1 - a) * B = A * B - B - a * B /\ A * B \in Nat
  OBVIOUS
<1> QED BY <1>1, <1>2, <1>3

LEMMA DigitsUnique ==
    ASSUME NEW B \in Nat \ {0}, NEW a \in Nat, NEW b \in 0..(B - 1), NEW c \in Nat, NEW d \in 0..(B - 1),
           a * B + b = c * B + d
    PROVE  a = c /\ b = d
<1>1. (a * B + b) % B = b /\ (a * B + b) \div B = a
  BY ModOf
<1>2. (c * B + d) % B = d /\ (c * B + d) \div B = c
  BY ModOf
<1> QED BY <1>1, <1>2

LEMMA Units ==
    /\ Wordlines \in Nat \ {0} /\ PgsPerBlk = Wordlines * Oneshot
    /\ Flashpgs \in Nat \ {0} /\ PgsPerBlk = Flashpgs * Flashpg
<1>1. PgsPerBlk % Flashpg = 0 /\ PgsPerBlk % Oneshot = 0
  <2>1. Oneshot % Flashpg = 0 /\ PgsPerBlk % Oneshot = 0 /\ PgsPerBlk \in Nat
    BY FtlAssumption, FtlConsts
  <2> QED BY <2>1, FtlConsts, MultipleTrans
<1>2. Wordlines \in Nat /\ PgsPerBlk = Oneshot * Wordlines + (PgsPerBlk % Oneshot)
  BY FtlConsts, DivFacts DEF Wordlines
<1>3. Flashpgs \in Nat /\ PgsPerBlk = Flashpg * Flashpgs + (PgsPerBlk % Flashpg)
  BY FtlConsts, DivFacts DEF Flashpgs
<1> QED BY <1>1, <1>2, <1>3, FtlConsts

(* A number below m * u in two digits. *)
LEMMA SplitDigits ==
    ASSUME NEW u \in Nat \ {0}, NEW m \in Nat, NEW g \in Nat, g < m * u
    PROVE  /\ g \div u \in 0..(m - 1) /\ g % u \in 0..(u - 1)
           /\ g = (g \div u) * u + (g % u)
<1> DEFINE q == g \div u
           r == g % u
<1>1. q \in Nat /\ g = u * q + r /\ r \in 0..(u - 1)
  BY DivFacts
<1> HIDE DEF q, r
<1>2. q < m
  <2> SUFFICES ASSUME q >= m PROVE FALSE
    BY <1>1
  <2>1. (q - m) * u >= 0
    BY <1>1
  <2>2. (q - m) * u = q * u - m * u
    BY <1>1
  <2> QED BY <1>1, <2>1, <2>2
<1>3. q \in 0..(m - 1) /\ r \in 0..(u - 1) /\ g = q * u + r
  BY <1>1, <1>2
<1> QED BY <1>3 DEF q, r

(* The page number in two digits, of either base. *)
LEMMA PageDigits ==
    ASSUME NEW g \in 0..(PgsPerBlk - 1)
    PROVE  /\ g \div Oneshot \in 0..(Wordlines - 1) /\ g % Oneshot \in 0..(Oneshot - 1)
           /\ g = (g \div Oneshot) * Oneshot + (g % Oneshot)
           /\ g \div Flashpg \in 0..(Flashpgs - 1) /\ g % Flashpg \in 0..(Flashpg - 1)
           /\ g = (g \div Flashpg) * Flashpg + (g % Flashpg)
<1>1. g \in Nat /\ g < Wordlines * Oneshot /\ g < Flashpgs * Flashpg
  BY Units, FtlConsts
<1>2. Wordlines \in Nat /\ Flashpgs \in Nat /\ Oneshot \in Nat \ {0} /\ Flashpg \in Nat \ {0}
  BY Units, FtlConsts
<1> QED BY <1>1, <1>2, SplitDigits

LEMMA LineSize ==
    /\ PgsPerLine \in Nat \ {0}
    /\ PgsPerLine = ((Wordlines * NLuns) * NChs) * Oneshot
    /\ PgsPerLine = ((Flashpgs * NChs) * NLuns) * Flashpg
<1>1. PgsPerLine = NChs * NLuns * (Wordlines * Oneshot)
  BY Units DEF PgsPerLine
<1>2. PgsPerLine = NChs * NLuns * (Flashpgs * Flashpg)
  BY Units DEF PgsPerLine
<1>3. NChs * NLuns \in Nat \ {0}
  BY FtlConsts
<1>4. PgsPerLine \in Nat \ {0}
  BY <1>3, FtlConsts DEF PgsPerLine
<1>5. \A a, b, c, d \in Nat : a * b * (c * d) = ((c * b) * a) * d /\ a * b * (c * d) = ((c * a) * b) * d
  OBVIOUS
<1> QED BY <1>1, <1>2, <1>4, <1>5, Units, FtlConsts

LEMMA RankOfFacts ==
    ASSUME NEW a \in 0..(Wordlines - 1), NEW l \in 0..(NLuns - 1), NEW c \in 0..(NChs - 1),
           NEW r \in 0..(Oneshot - 1)
    PROVE  RankOf(a, l, c, r) \in 0..(PgsPerLine - 1)
<1>1. a * NLuns + l \in 0..(Wordlines * NLuns - 1)
  BY Units, FtlConsts, Digits
<1> DEFINE x == a * NLuns + l
           X == Wordlines * NLuns
<1>2. X \in Nat /\ x \in 0..(X - 1)
  BY <1>1, Units, FtlConsts
<1> HIDE DEF x, X
<1>3. x * NChs + c \in 0..(X * NChs - 1) /\ X * NChs \in Nat
  BY <1>2, FtlConsts, Digits
<1> DEFINE y == x * NChs + c
           Y == X * NChs
<1>4. Y \in Nat /\ y \in 0..(Y - 1)
  BY <1>3
<1> HIDE DEF y, Y
<1>5. y * Oneshot + r \in 0..(Y * Oneshot - 1)
  BY <1>4, FtlConsts, Digits
<1> QED BY <1>5, LineSize DEF RankOf, y, Y, x, X

LEMMA VRankOfFacts ==
    ASSUME NEW a \in 0..(Flashpgs - 1), NEW l \in 0..(NLuns - 1), NEW c \in 0..(NChs - 1),
           NEW r \in 0..(Flashpg - 1)
    PROVE  VRankOf(a, c, l, r) \in 0..(PgsPerLine - 1)
<1>1. a * NChs + c \in 0..(Flashpgs * NChs - 1)
  BY Units, FtlConsts, Digits
<1> DEFINE x == a * NChs + c
           X == Flashpgs * NChs
<1>2. X \in Nat /\ x \in 0..(X - 1)
  BY <1>1, Units, FtlConsts
<1> HIDE DEF x, X
<1>3. x * NLuns + l \in 0..(X * NLuns - 1) /\ X * NLuns \in Nat
  BY <1>2, FtlConsts, Digits
<1> DEFINE y == x * NLuns + l
           Y == X * NLuns
<1>4. Y \in Nat /\ y \in 0..(Y - 1)
  BY <1>3
<1> HIDE DEF y, Y
<1>5. y * Flashpg + r \in 0..(Y * Flashpg - 1)
  BY <1>4, FtlConsts, Digits
<1> QED BY <1>5, LineSize DEF VRankOf, y, Y, x, X

LEMMA PpaFields ==
    ASSUME NEW p \in Ppas
    PROVE  /\ p.blk \in Lines /\ p.ch \in 0..(NChs - 1) /\ p.lun \in 0..(NLuns - 1)
           /\ p.pg \in 0..(PgsPerBlk - 1) /\ p.ch \in Nat /\ p.lun \in Nat /\ p.pg \in Nat
           /\ p = [blk |-> p.blk, ch |-> p.ch, lun |-> p.lun, pg |-> p.pg]
  BY FtlConsts DEF Ppas

LEMMA PpaEqual ==
    ASSUME NEW p \in Ppas, NEW q \in Ppas, p.blk = q.blk, p.ch = q.ch, p.lun = q.lun, p.pg = q.pg
    PROVE  p = q
  BY DEF Ppas

LEMMA RankUnique ==
    ASSUME NEW p \in Ppas, NEW q \in Ppas, p.blk = q.blk, Rank(p) = Rank(q)
    PROVE  p = q
<1> DEFINE a == p.pg \div Oneshot
           r == p.pg % Oneshot
           b == q.pg \div Oneshot
           s == q.pg % Oneshot
           x == a * NLuns + p.lun
           y == b * NLuns + q.lun
           X == x * NChs + p.ch
           Y == y * NChs + q.ch
<1>0. /\ p.ch \in 0..(NChs - 1) /\ p.lun \in 0..(NLuns - 1) /\ p.pg \in 0..(PgsPerBlk - 1)
      /\ q.ch \in 0..(NChs - 1) /\ q.lun \in 0..(NLuns - 1) /\ q.pg \in 0..(PgsPerBlk - 1)
  BY PpaFields
<1>1. /\ a \in Nat /\ r \in 0..(Oneshot - 1) /\ p.pg = a * Oneshot + r
      /\ b \in Nat /\ s \in 0..(Oneshot - 1) /\ q.pg = b * Oneshot + s
  BY <1>0, PageDigits, Units
<1>2. X * Oneshot + r = Y * Oneshot + s
  BY DEF Rank, RankOf
<1> HIDE DEF a, r, b, s
<1>3. x \in Nat /\ y \in Nat
  BY <1>0, <1>1, FtlConsts
<1> HIDE DEF x, y
<1>4. X \in Nat /\ Y \in Nat
  BY <1>0, <1>3, FtlConsts
<1> HIDE DEF X, Y
<1>5. X = Y /\ r = s
  BY <1>1, <1>2, <1>4, FtlConsts, DigitsUnique
<1>6. x = y /\ p.ch = q.ch
  BY <1>0, <1>3, <1>5, FtlConsts, DigitsUnique DEF X, Y
<1>7. a = b /\ p.lun = q.lun
  <2> DEFINE i == p.lun
             j == q.lun
  <2>1. i \in 0..(NLuns - 1) /\ j \in 0..(NLuns - 1) /\ a * NLuns + i = b * NLuns + j
    BY <1>0, <1>6 DEF x, y
  <2> HIDE DEF i, j
  <2>2. a = b /\ i = j
    BY <1>1, <2>1, FtlConsts, DigitsUnique
  <2> QED BY <2>2 DEF i, j
<1>8. p.pg = q.pg
  BY <1>1, <1>5, <1>7
<1> QED BY <1>6, <1>7, <1>8, PpaEqual

LEMMA RankRange ==
    ASSUME NEW p \in Ppas
    PROVE  Rank(p) \in 0..(PgsPerLine - 1) /\ Rank(p) \in Nat /\ VRank(p) \in 0..(PgsPerLine - 1) /\ VRank(p) \in Nat
<1>1. Rank(p) \in 0..(PgsPerLine - 1)
  BY PpaFields, PageDigits, RankOfFacts DEF Rank
<1>2. VRank(p) \in 0..(PgsPerLine - 1)
  BY PpaFields, PageDigits, VRankOfFacts DEF VRank
<1> QED BY <1>1, <1>2, LineSize

LEMMA StartFacts ==
    ASSUME NEW b \in Lines
    PROVE  StartOf(b) \in Ppas /\ StartOf(b).blk = b /\ Rank(StartOf(b)) = 0
<1>1. StartOf(b) \in Ppas /\ StartOf(b).blk = b /\ StartOf(b).pg = 0 /\ StartOf(b).ch = 0 /\ StartOf(b).lun = 0
  BY FtlConsts DEF StartOf, Ppas
<1>2. 0 \div Oneshot = 0 /\ 0 % Oneshot = 0
  BY FtlConsts
<1>3. RankOf(0, 0, 0, 0) = 0
  BY FtlConsts DEF RankOf
<1> QED BY <1>1, <1>2, <1>3 DEF Rank

(* A page given by its digits. *)
LEMMA RankAt ==
    ASSUME NEW w \in Ppas, NEW a \in 0..(Wordlines - 1), NEW r \in 0..(Oneshot - 1), w.pg = a * Oneshot + r
    PROVE  Rank(w) = RankOf(a, w.lun, w.ch, r)
<1>1. a \in Nat /\ w.pg \div Oneshot = a /\ w.pg % Oneshot = r
  BY Units, FtlConsts, ModOf
<1> QED BY <1>1 DEF Rank

(* advance_write_pointer goes through the line page by page. *)
LEMMA NextPageFacts ==
    ASSUME NEW w \in Ppas
    PROVE  /\ UsesUp(w) <=> Rank(w) = PgsPerLine - 1
           /\ ~UsesUp(w) => /\ NextPage(w) \in Ppas /\ NextPage(w).blk = w.blk
                            /\ Rank(NextPage(w)) = Rank(w) + 1
<1> DEFINE a == w.pg \div Oneshot
           r == w.pg % Oneshot
           v == NextPage(w)
           up == (w.pg + 1) % Oneshot # 0
           base == w.pg + 1 - Oneshot
           l == w.lun
           c == w.ch
           O == Oneshot
<1>0. /\ w.blk \in Lines /\ c \in 0..(NChs - 1) /\ l \in 0..(NLuns - 1) /\ w.pg \in 0..(PgsPerBlk - 1)
      /\ c \in Nat /\ l \in Nat /\ w.pg \in Nat
      /\ w = [blk |-> w.blk, ch |-> c, lun |-> l, pg |-> w.pg]
  BY PpaFields
<1>1. /\ a \in 0..(Wordlines - 1) /\ a \in Nat /\ r \in 0..(O - 1) /\ w.pg = a * O + r
  BY <1>0, PageDigits, Units
<1>2. Rank(w) = RankOf(a, l, c, r) /\ Rank(w) \in Nat
  BY RankRange DEF Rank
<1>3. StartOf(w.blk) \in Ppas /\ Rank(StartOf(w.blk)) = 0
  BY <1>0, StartFacts
<1>k. O \in Nat \ {0} /\ NChs \in Nat \ {0} /\ NLuns \in Nat \ {0} /\ Wordlines \in Nat \ {0} /\ PgsPerBlk = Wordlines * O /\ a * O \in Nat
  BY <1>1, Units, FtlConsts
<1> HIDE DEF a, r, O
\* It is enough that the next page is one further, or that this was the last.
<1>4. SUFFICES \/ v \in Ppas /\ v.blk = w.blk /\ Rank(v) = Rank(w) + 1
               \/ v = StartOf(w.blk) /\ Rank(w) = PgsPerLine - 1
  <2>1. ASSUME v \in Ppas, v.blk = w.blk, Rank(v) = Rank(w) + 1
        PROVE  ~UsesUp(w) /\ Rank(w) # PgsPerLine - 1
    <3>1. Rank(v) \in 0..(PgsPerLine - 1)
      BY <2>1, RankRange
    <3> QED BY <1>2, <1>3, <2>1, <3>1, LineSize DEF UsesUp
  <2>2. v = StartOf(w.blk) => UsesUp(w)
    BY DEF UsesUp
  <2> HIDE DEF v
  <2> QED BY <1>4, <2>1, <2>2 DEF v
<1>5. CASE r + 1 < O
  <2>1. w.pg + 1 = a * O + (r + 1) /\ r + 1 \in 0..(O - 1)
    BY <1>0, <1>1, <1>5, <1>k
  <2>2. (a * O + (r + 1)) % O = r + 1
    BY <1>1, <2>1, <1>k, ModOf
  <2>3. up /\ w.pg + 1 \in 0..(PgsPerBlk - 1)
    <3>1. a * O + (r + 1) \in 0..(Wordlines * O - 1)
      BY <1>1, <2>1, <1>k, Digits
    <3> QED BY <2>1, <2>2, <3>1, <1>1, <1>k DEF O
  <2>4. v = [blk |-> w.blk, ch |-> c, lun |-> l, pg |-> w.pg + 1]
    <3>1. v = [w EXCEPT !.pg = w.pg + 1]
      BY <2>3 DEF NextPage
    <3> QED BY <1>0, <3>1
  <2>5. v \in Ppas /\ v.blk = w.blk /\ v.pg = a * O + (r + 1) /\ v.lun = l /\ v.ch = c
    BY <1>0, <2>1, <2>3, <2>4 DEF Ppas
  <2>6. Rank(v) = RankOf(a, l, c, r + 1)
    <3> HIDE DEF v
    <3> QED BY <1>1, <2>1, <2>5, RankAt DEF O
  <2>7. RankOf(a, l, c, r + 1) = RankOf(a, l, c, r) + 1
    <3> DEFINE z == ((a * NLuns + l) * NChs + c) * O
    <3>1. RankOf(a, l, c, r + 1) = z + (r + 1) /\ RankOf(a, l, c, r) = z + r
      BY DEF RankOf, O
    <3>2. z \in Int
      BY <1>0, <1>1, <1>k
    <3> HIDE DEF z
    <3> QED BY <3>1, <3>2, <1>1, <1>k
  <2> QED BY <1>2, <2>5, <2>6, <2>7
<1>6. CASE r + 1 >= O
  <2>1. r = O - 1 /\ w.pg + 1 = (a + 1) * O + 0 /\ base = a * O + 0 /\ 0 \in 0..(O - 1)
    <3>1. r = O - 1
      BY <1>1, <1>6, <1>k
    <3>2. (a + 1) * O = a * O + O
      BY <1>1, <1>k
    <3> QED BY <1>0, <1>1, <1>k, <3>1, <3>2 DEF O
  <2>2. ((a + 1) * O + 0) % O = 0
    BY <1>1, <2>1, <1>k, ModOf
  <2>3. ~up
    BY <2>1, <2>2 DEF O
  <2>b. base \in 0..(PgsPerBlk - 1)
    <3>1. a * O + 0 \in 0..(Wordlines * O - 1)
      BY <1>1, <2>1, <1>k, Digits
    <3> QED BY <2>1, <3>1, <1>k
  <2>4. CASE c + 1 # NChs
    <3>1. v = [blk |-> w.blk, ch |-> c + 1, lun |-> l, pg |-> base]
      <4>1. v = [w EXCEPT !.pg = base, !.ch = c + 1]
        BY <2>3, <2>4 DEF NextPage
      <4> HIDE DEF base
      <4> QED BY <1>0, <4>1
    <3>2. v \in Ppas /\ v.blk = w.blk /\ v.pg = base /\ v.lun = l /\ v.ch = c + 1
      <4> HIDE DEF base
      <4> QED BY <1>0, <2>b, <2>4, <3>1, <1>k DEF Ppas
    <3>3. Rank(v) = RankOf(a, l, c + 1, 0)
      <4>1. v.pg = a * O + 0
        BY <3>2, <2>1
      <4> HIDE DEF v, base
      <4> QED BY <1>1, <2>1, <3>2, <4>1, RankAt DEF O
    <3>4. RankOf(a, l, c + 1, 0) = RankOf(a, l, c, r) + 1
      <4> DEFINE z == (a * NLuns + l) * NChs + c
      <4>1. RankOf(a, l, c + 1, 0) = (((a * NLuns + l) * NChs) + (c + 1)) * O + 0 /\ RankOf(a, l, c, r) = z * O + r
        BY DEF RankOf, O
      <4>2. z \in Int /\ ((a * NLuns + l) * NChs) + (c + 1) = z + 1
        <5> DEFINE y == (a * NLuns + l) * NChs
        <5>1. y \in Int
          BY <1>0, <1>1, <1>k
        <5> HIDE DEF y
        <5>2. y + c \in Int /\ y + (c + 1) = (y + c) + 1
          BY <1>0, <5>1
        <5> QED BY <5>2 DEF y
      <4> HIDE DEF z
      <4>3. (z + 1) * O = z * O + O /\ z * O \in Int
        BY <4>2, <1>k
      <4> QED BY <4>1, <4>2, <4>3, <2>1, <1>k
    <3> QED BY <1>2, <3>2, <3>3, <3>4
  <2>5. CASE c + 1 = NChs /\ l + 1 # NLuns
    <3>1. v = [blk |-> w.blk, ch |-> 0, lun |-> l + 1, pg |-> base]
      <4>1. v = [w EXCEPT !.pg = base, !.ch = 0, !.lun = l + 1]
        BY <2>3, <2>5 DEF NextPage
      <4> HIDE DEF base
      <4> QED BY <1>0, <4>1
    <3>2. v \in Ppas /\ v.blk = w.blk /\ v.pg = base /\ v.lun = l + 1 /\ v.ch = 0
      <4> HIDE DEF base
      <4> QED BY <1>0, <2>b, <2>5, <3>1, <1>k DEF Ppas
    <3>3. Rank(v) = RankOf(a, l + 1, 0, 0)
      <4>1. v.pg = a * O + 0
        BY <3>2, <2>1
      <4> HIDE DEF v, base
      <4> QED BY <1>1, <2>1, <3>2, <4>1, RankAt DEF O
    <3>4. RankOf(a, l + 1, 0, 0) = RankOf(a, l, c, r) + 1
      <4> DEFINE z == a * NLuns + l
      <4>0. z \in Int /\ a * NLuns + (l + 1) = z + 1
        <5> DEFINE y == a * NLuns
        <5>1. y \in Int
          BY <1>1, <1>k
        <5> HIDE DEF y
        <5>2. y + l \in Int /\ y + (l + 1) = (y + l) + 1
          BY <1>0, <5>1
        <5> QED BY <5>2 DEF y
      <4>1. RankOf(a, l + 1, 0, 0) = ((z + 1) * NChs + 0) * O + 0 /\ RankOf(a, l, c, r) = (z * NChs + c) * O + r
        BY <4>0 DEF RankOf, O
      <4> HIDE DEF z
      <4>2. (z + 1) * NChs + 0 = (z * NChs + c) + 1 /\ z * NChs + c \in Int
        <5>1. (z + 1) * NChs = z * NChs + NChs /\ z * NChs \in Int
          BY <4>0, <1>k
        <5> QED BY <1>0, <2>5, <5>1, <1>k
      <4> DEFINE y == z * NChs + c
      <4>3. y \in Int /\ RankOf(a, l + 1, 0, 0) = (y + 1) * O + 0 /\ RankOf(a, l, c, r) = y * O + r
        BY <4>1, <4>2
      <4> HIDE DEF y
      <4>4. (y + 1) * O = y * O + O /\ y * O \in Int
        BY <4>3, <1>k
      <4> QED BY <4>3, <4>4, <2>1, <1>k
    <3> QED BY <1>2, <3>2, <3>3, <3>4
  <2>6. CASE c + 1 = NChs /\ l + 1 = NLuns
    <3>1. v = [blk |-> w.blk, ch |-> 0, lun |-> 0, pg |-> (w.pg + 1) % PgsPerBlk]
      <4>1. v = [w EXCEPT !.pg = (w.pg + 1) % PgsPerBlk, !.ch = 0, !.lun = 0]
        BY <2>3, <2>6 DEF NextPage
      <4> QED BY <1>0, <4>1
    <3> DEFINE e == w.pg + 1
    <3>2. RankOf(a, l, c, r) + 1 = (((a + 1) * NLuns) * NChs) * O
      <4> DEFINE z == a * NLuns + l
      <4>0. z \in Int /\ z + 1 = (a + 1) * NLuns
        <5>1. (a + 1) * NLuns = a * NLuns + NLuns /\ a * NLuns \in Int
          BY <1>1, <1>k
        <5> QED BY <1>0, <2>6, <5>1, <1>k
      <4>1. RankOf(a, l, c, r) = (z * NChs + c) * O + r
        BY DEF RankOf, O
      <4> HIDE DEF z
      <4>2. (z + 1) * NChs = (z * NChs + c) + 1 /\ z * NChs + c \in Int
        BY <1>0, <2>6, <4>0, <1>k
      <4> DEFINE y == z * NChs + c
      <4>3. y \in Int /\ RankOf(a, l, c, r) = y * O + r /\ (z + 1) * NChs = y + 1
        BY <4>1, <4>2
      <4> HIDE DEF y
      <4>4. (y + 1) * O = y * O + O /\ y * O \in Int
        BY <4>3, <1>k
      <4>5. RankOf(a, l, c, r) + 1 = (y + 1) * O
        BY <4>3, <4>4, <2>1, <1>k
      <4> QED BY <4>0, <4>3, <4>5
    <3>3. CASE a + 1 = Wordlines
      <4>1. e = PgsPerBlk
        BY <2>1, <3>3, <1>k
      <4>2. e % PgsPerBlk = 0
        BY <4>1, FtlConsts
      <4>3. v = StartOf(w.blk)
        BY <3>1, <4>2 DEF StartOf
      <4>4. Rank(w) + 1 = PgsPerLine
        BY <1>2, <3>2, <3>3, LineSize DEF O
      <4> HIDE DEF v
      <4> QED BY <1>2, <4>3, <4>4, LineSize
    <3>4. CASE a + 1 # Wordlines
      <4>0. a + 1 \in 0..(Wordlines - 1) /\ a + 1 \in Nat
        BY <1>1, <3>4, <1>k
      <4>1. (a + 1) * O + 0 \in 0..(Wordlines * O - 1)
        BY <4>0, <2>1, <1>k, Digits
      <4>2. e \in 0..(PgsPerBlk - 1)
        BY <2>1, <4>1, <1>k
      <4>3. e % PgsPerBlk = e
        BY <4>2, FtlConsts
      <4>4. v \in Ppas /\ v.blk = w.blk /\ v.pg = e /\ v.lun = 0 /\ v.ch = 0
        <5>1. v = [blk |-> w.blk, ch |-> 0, lun |-> 0, pg |-> e]
          BY <3>1, <4>3
        <5> HIDE DEF e
        <5> QED BY <1>0, <4>2, <5>1, <1>k DEF Ppas
      <4>5. Rank(v) = RankOf(a + 1, 0, 0, 0)
        <5>1. v.pg = (a + 1) * O + 0
          BY <4>4, <2>1
        <5> HIDE DEF v, e
        <5> QED BY <4>0, <2>1, <4>4, <5>1, RankAt DEF O
      <4>6. RankOf(a + 1, 0, 0, 0) = (((a + 1) * NLuns) * NChs) * O
        <5>1. RankOf(a + 1, 0, 0, 0) = (((a + 1) * NLuns + 0) * NChs + 0) * O + 0
          BY DEF RankOf, O
        <5> DEFINE y == (a + 1) * NLuns
        <5>2. y \in Int
          BY <4>0, <1>k
        <5> HIDE DEF y
        <5>3. y * NChs \in Int
          BY <5>2, <1>k
        <5> DEFINE x == y * NChs
        <5>4. x \in Int /\ ((y + 0) * NChs + 0) * O + 0 = x * O
          BY <5>2, <5>3, <1>k
        <5> QED BY <5>1, <5>4 DEF y, x
      <4> HIDE DEF v
      <4> QED BY <1>2, <3>2, <4>4, <4>5, <4>6
    <3> QED BY <3>3, <3>4
  <2> QED BY <2>4, <2>5, <2>6
<1> QED BY <1>1, <1>5, <1>6, <1>k

LEMMA VRankUnique ==
    ASSUME NEW p \in Ppas, NEW q \in Ppas, p.blk = q.blk, VRank(p) = VRank(q)
    PROVE  p = q
<1> DEFINE a == p.pg \div Flashpg
           r == p.pg % Flashpg
           b == q.pg \div Flashpg
           s == q.pg % Flashpg
           c == p.ch
           d == q.ch
           i == p.lun
           j == q.lun
           x == a * NChs + c
           y == b * NChs + d
           X == x * NLuns + i
           Y == y * NLuns + j
<1>0. /\ c \in 0..(NChs - 1) /\ i \in 0..(NLuns - 1) /\ p.pg \in 0..(PgsPerBlk - 1)
      /\ d \in 0..(NChs - 1) /\ j \in 0..(NLuns - 1) /\ q.pg \in 0..(PgsPerBlk - 1)
  BY PpaFields
<1>1. /\ a \in Nat /\ r \in 0..(Flashpg - 1) /\ p.pg = a * Flashpg + r
      /\ b \in Nat /\ s \in 0..(Flashpg - 1) /\ q.pg = b * Flashpg + s
  BY <1>0, PageDigits, Units
<1>2. X * Flashpg + r = Y * Flashpg + s
  BY DEF VRank, VRankOf
<1> HIDE DEF a, r, b, s, c, d, i, j
<1>3. x \in Nat /\ y \in Nat
  BY <1>0, <1>1, FtlConsts
<1> HIDE DEF x, y
<1>4. X \in Nat /\ Y \in Nat
  BY <1>0, <1>3, FtlConsts
<1> HIDE DEF X, Y
<1>5. X = Y /\ r = s
  BY <1>1, <1>2, <1>4, FtlConsts, DigitsUnique
<1>6. x = y /\ i = j
  BY <1>0, <1>3, <1>5, FtlConsts, DigitsUnique DEF X, Y
<1>7. a = b /\ c = d
  <2>1. a * NChs + c = b * NChs + d
    BY <1>6 DEF x, y
  <2> QED BY <1>0, <1>1, <2>1, FtlConsts, DigitsUnique
<1>8. p.pg = q.pg
  BY <1>1, <1>5, <1>7
<1> QED BY <1>6, <1>7, <1>8, PpaEqual DEF c, d, i, j

(* do_gc and clean_one_flashpg visit every page of the victim once. *)
LEMMA VictimPageFacts ==
    ASSUME NEW b \in Lines, NEW k \in 0..(PgsPerLine - 1)
    PROVE  VictimPage(b, k) \in Ppas /\ VictimPage(b, k).blk = b /\ VRank(VictimPage(b, k)) = k
<1> DEFINE F == Flashpg
           d == k \div F
           s == k % F
           e == d \div NLuns
           l == d % NLuns
           f == e \div NChs
           c == e % NChs
           p == VictimPage(b, k)
<1>k. F \in Nat \ {0} /\ NChs \in Nat \ {0} /\ NLuns \in Nat \ {0} /\ Flashpgs \in Nat \ {0} /\ k \in Nat
  BY Units, FtlConsts, LineSize
<1>1. d \in 0..((Flashpgs * NChs) * NLuns - 1) /\ s \in 0..(F - 1) /\ k = d * F + s
  <2>1. (Flashpgs * NChs) * NLuns \in Nat
    BY <1>k
  <2>2. k < ((Flashpgs * NChs) * NLuns) * F
    BY LineSize
  <2> DEFINE m == (Flashpgs * NChs) * NLuns
  <2>3. m \in Nat /\ k < m * F
    BY <2>1, <2>2
  <2> HIDE DEF m, F
  <2>4. d \in 0..(m - 1) /\ s \in 0..(F - 1) /\ k = d * F + s
    BY <1>k, <2>3, SplitDigits
  <2> QED BY <2>4 DEF m
<1> HIDE DEF s
<1>2. e \in 0..(Flashpgs * NChs - 1) /\ l \in 0..(NLuns - 1) /\ d = e * NLuns + l
  <2> DEFINE m == Flashpgs * NChs
  <2>1. m \in Nat
    BY <1>k
  <2>2. d \in Nat /\ d < m * NLuns
    <3>1. m * NLuns \in Nat
      BY <2>1, <1>k
    <3> QED BY <1>1, <3>1
  <2> HIDE DEF m, d
  <2>3. e \in 0..(m - 1) /\ l \in 0..(NLuns - 1) /\ d = e * NLuns + l
    BY <1>k, <2>1, <2>2, SplitDigits
  <2> QED BY <2>3 DEF m
<1>3. f \in 0..(Flashpgs - 1) /\ c \in 0..(NChs - 1) /\ e = f * NChs + c /\ f \in Nat
  <2>1. e \in Nat /\ e < Flashpgs * NChs
    <3>1. Flashpgs * NChs \in Nat
      BY <1>k
    <3> HIDE DEF e
    <3> QED BY <1>2, <3>1
  <2> HIDE DEF e
  <2>2. f \in 0..(Flashpgs - 1) /\ c \in 0..(NChs - 1) /\ e = f * NChs + c
    BY <1>k, <2>1, SplitDigits
  <2> QED BY <2>2, <1>k
<1>4. d \div (NLuns * NChs) = f
  <2> HIDE DEF d, e, l, f, c
  <2>1. d = (f * NChs + c) * NLuns + l
    BY <1>2, <1>3
  <2>2. c * NLuns + l \in 0..(NChs * NLuns - 1)
    BY <1>2, <1>3, <1>k, Digits
  <2> DEFINE u == NLuns * NChs
             r == c * NLuns + l
  <2>3. u \in Nat \ {0} /\ r \in 0..(u - 1)
    BY <2>2, <1>k
  <2>4. (f * NChs + c) * NLuns + l = f * u + r
    <3>1. (f * NChs + c) * NLuns = f * (NLuns * NChs) + c * NLuns
      BY <1>3, <1>k
    <3>2. f * (NLuns * NChs) \in Int /\ c * NLuns \in Int
      BY <1>3, <1>k
    <3> QED BY <3>1, <3>2, <1>2, <1>k
  <2>5. d = f * u + r
    BY <2>1, <2>4
  <2> HIDE DEF u, r
  <2>6. (f * u + r) \div u = f
    BY <2>3, <1>3, ModOf
  <2>7. d \div u = f
    BY <2>5, <2>6
  <2> QED BY <2>7 DEF u
<1>5. p = [blk |-> b, ch |-> c, lun |-> l, pg |-> f * F + s]
  BY <1>4 DEF VictimPage, s
<1> HIDE DEF d, e, l, f, c, F
<1>6. f * F + s \in 0..(PgsPerBlk - 1)
  <2>1. f * F + s \in 0..(Flashpgs * F - 1)
    BY <1>1, <1>3, <1>k, Digits
  <2> QED BY <2>1, Units DEF F
<1>7. p \in Ppas /\ p.blk = b /\ p.ch = c /\ p.lun = l /\ p.pg = f * F + s
  BY <1>2, <1>3, <1>5, <1>6 DEF Ppas
<1>8. (f * F + s) \div F = f /\ (f * F + s) % F = s
  BY <1>1, <1>3, <1>k, ModOf
<1> HIDE DEF p
<1>9. VRank(p) = VRankOf(f, c, l, s)
  BY <1>7, <1>8 DEF VRank, F
<1>10. VRankOf(f, c, l, s) = (e * NLuns + l) * F + s
  BY <1>3 DEF VRankOf, F
<1>11. VRank(p) = k
  BY <1>1, <1>2, <1>9, <1>10
<1> QED BY <1>7, <1>11 DEF p

LEMMA VictimOf ==
    ASSUME NEW p \in Ppas
    PROVE  VictimPage(p.blk, VRank(p)) = p
<1> DEFINE k == VRank(p)
           q == VictimPage(p.blk, k)
<1>1. p.blk \in Lines /\ k \in 0..(PgsPerLine - 1)
  BY PpaFields, RankRange
<1>2. q \in Ppas /\ q.blk = p.blk /\ VRank(q) = VRank(p)
  BY <1>1, VictimPageFacts
<1> HIDE DEF q
<1>3. q = p
  BY <1>2, VRankUnique
<1> QED BY <1>3 DEF q

(* Within a die pages are visited in order. *)
LEMMA DieOrder ==
    ASSUME NEW p \in Ppas, NEW q \in Ppas, p.ch = q.ch, p.lun = q.lun, p.pg < q.pg
    PROVE  VRank(p) < VRank(q)
<1> DEFINE a == p.pg \div Flashpg
           r == p.pg % Flashpg
           b == q.pg \div Flashpg
           s == q.pg % Flashpg
           c == p.ch
           i == p.lun
           x == (a * NChs + c) * NLuns + i
           y == (b * NChs + c) * NLuns + i
<1>0. /\ c \in 0..(NChs - 1) /\ i \in 0..(NLuns - 1) /\ p.pg \in 0..(PgsPerBlk - 1) /\ q.pg \in 0..(PgsPerBlk - 1)
  BY PpaFields
<1>1. /\ a \in Nat /\ r \in 0..(Flashpg - 1) /\ p.pg = a * Flashpg + r
      /\ b \in Nat /\ s \in 0..(Flashpg - 1) /\ q.pg = b * Flashpg + s
  BY <1>0, PageDigits, Units
<1>2. VRank(p) = x * Flashpg + r /\ VRank(q) = y * Flashpg + s
  BY DEF VRank, VRankOf
<1>k. NChs \in Nat \ {0} /\ NLuns \in Nat \ {0} /\ Flashpg \in Nat \ {0}
  BY FtlConsts
<1> HIDE DEF a, r, b, s, c, i
<1>3. a * Flashpg + r < b * Flashpg + s
  BY <1>1
<1>4. a <= b /\ (a = b => r < s)
  <2>1. a <= b
    <3> SUFFICES ASSUME a >= b + 1 PROVE FALSE
      BY <1>1
    <3>1. (a - b) * Flashpg >= Flashpg
      BY <1>1, <1>k
    <3>2. (a - b) * Flashpg = a * Flashpg - b * Flashpg /\ a * Flashpg \in Int /\ b * Flashpg \in Int
      BY <1>1, <1>k
    <3> QED BY <1>1, <1>3, <3>1, <3>2, <1>k
  <2>2. ASSUME a = b PROVE r < s
    <3>1. a * Flashpg \in Int
      BY <1>1, <1>k
    <3> QED BY <1>1, <1>3, <2>2, <3>1, <1>k
  <2> QED BY <2>1, <2>2
<1>5. CASE a = b
  <2>1. x = y /\ x * Flashpg \in Int
    BY <1>0, <1>1, <1>5, <1>k
  <2> HIDE DEF x, y
  <2> QED BY <1>1, <1>2, <1>4, <1>5, <2>1, <1>k
<1>6. CASE a < b
  <2>1. y >= x + 1 /\ x \in Int /\ y \in Int
    <3> DEFINE g == a * NChs + c
               h == b * NChs + c
    <3>1. g \in Int /\ h \in Int /\ h >= g + 1
      <4>1. (b - a) * NChs >= 1
        BY <1>1, <1>6, <1>k
      <4>2. (b - a) * NChs = b * NChs - a * NChs /\ b * NChs \in Int /\ a * NChs \in Int
        BY <1>1, <1>k
      <4> QED BY <1>0, <1>1, <4>1, <4>2, <1>k
    <3> HIDE DEF g, h
    <3>2. g * NLuns + i \in Int /\ h * NLuns + i \in Int /\ h * NLuns + i >= (g * NLuns + i) + 1
      <4>1. (h - g) * NLuns >= 1
        BY <3>1, <1>k
      <4>2. (h - g) * NLuns = h * NLuns - g * NLuns /\ h * NLuns \in Int /\ g * NLuns \in Int
        BY <3>1, <1>k
      <4> QED BY <1>0, <4>1, <4>2, <1>k
    <3> QED BY <3>2 DEF g, h
  <2> HIDE DEF x, y
  <2>2. y * Flashpg + s > x * Flashpg + r
    <3>1. (y - x) * Flashpg >= Flashpg
      BY <2>1, <1>k
    <3>2. (y - x) * Flashpg = y * Flashpg - x * Flashpg /\ y * Flashpg \in Int /\ x * Flashpg \in Int
      BY <2>1, <1>k
    <3> QED BY <1>1, <3>1, <3>2, <1>k
  <2> QED BY <1>2, <2>2
<1> QED BY <1>1, <1>4, <1>5, <1>6

-----------------------------------------------------------------------------
(* The inductive invariant.  Its parts are stated of a queue s, page       *)
(* states st, a free list fl, two write pointers and a collection g, so    *)
(* that they can be followed through the calls one action makes.           *)

PagesIn(st, b, v) == {p \in Ppas : p.blk = b /\ st[p] = v}
LinePages(b) == {p \in Ppas : p.blk = b}
LastOf(p) == [blk |-> p.blk, ch |-> p.ch, lun |-> p.lun, pg |-> PgsPerBlk - 1]

Statuses == {"free", "valid", "invalid"}
Gcs == [blk : Lines, at : 0..PgsPerLine]

(* Every line is on the list that its field `on' says. *)
ListsAt(s, fl, w, gw, g) ==
    /\ QOk(s) /\ w.blk # gw.blk
    /\ \A i, j \in 1..Len(fl) : fl[i] = fl[j] => i = j
    /\ \A b \in Lines :
         /\ Queued(s, b) <=> s.line[b].on = "victim"
         /\ s.line[b].on = "free" <=> \E i \in 1..Len(fl) : fl[i] = b
         /\ s.line[b].on = "open" <=> b = w.blk \/ b = gw.blk
         /\ s.line[b].on = "gc" <=> b = g.blk

(* The counts of every line but the victim are those of its pages, and     *)
(* its list is the one the counts call for.                                *)
CountsAt(s, st, g) ==
    \A b \in Lines :
        /\ b # g.blk => /\ s.line[b].vpc = Cardinality(PagesIn(st, b, "valid"))
                        /\ s.line[b].ipc = Cardinality(PagesIn(st, b, "invalid"))
        /\ s.line[b].on = "full" => s.line[b].vpc = PgsPerLine
        /\ s.line[b].on = "victim" => s.line[b].ipc > 0

(* The unwritten pages: those of free lines, those a write pointer has not *)
(* reached, and those of the victim's blocks that have been erased.        *)
FreeAt(s, st, w, gw, g) ==
    \A p \in Ppas :
        st[p] = "free" <=>
            \/ s.line[p.blk].on = "free"
            \/ p.blk = w.blk /\ Rank(p) >= Rank(w)
            \/ p.blk = gw.blk /\ Rank(p) >= Rank(gw)
            \/ p.blk = g.blk /\ VRank(LastOf(p)) < g.at

FlashAt(s, st, fl, w, gw, g) ==
    /\ st \in [Ppas -> Statuses] /\ fl \in Seq(Lines) /\ w \in Ppas /\ gw \in Ppas
    /\ g \in Gcs \cup {NoGc}
    /\ ListsAt(s, fl, w, gw, g) /\ CountsAt(s, st, g) /\ FreeAt(s, st, w, gw, g)

(* A page the collection g has passed. *)
Behind(p, g) == p.blk = g.blk /\ VRank(p) < g.at

MapsAt(mt, rm, st, g) ==
    /\ mt \in [Lpns -> Ppas \cup {Unmapped}] /\ rm \in [Ppas -> Lpns \cup {InvalidLpn}]
    /\ \A l \in Lpns : mt[l] # Unmapped =>
         rm[mt[l]] = l /\ st[mt[l]] = "valid" /\ ~Behind(mt[l], g)
    /\ \A p \in Ppas : st[p] = "valid" => rm[p] \in Lpns /\ (mt[rm[p]] = p \/ Behind(p, g))

(* The pages that can still be written, and those still to be copied.      *)
Room(fl, w, gw) == PgsPerLine * Len(fl) + (PgsPerLine - Rank(w)) + (PgsPerLine - Rank(gw))
ToCopy(st, g) == {p \in Ppas : p.blk = g.blk /\ st[p] = "valid" /\ VRank(p) >= g.at}

(* Beyond the writes that credits allow there is room for two lines: for   *)
(* what the next victim may hold and for what its collection gains.        *)
BudgetOk ==
    /\ credits \in Nat /\ refill \in 1..PgsPerLine
    /\ gc = NoGc => credits >= 1 /\ Room(freeList, wp, gcWp) >= credits + 2 * PgsPerLine
    /\ gc # NoGc => /\ credits = 0
                    /\ Room(freeList, wp, gcWp) >= PgsPerLine + refill + Cardinality(ToCopy(status, gc))

FInv ==
    /\ FlashAt(Queue, status, freeList, wp, gcWp, gc)
    /\ MapsAt(maptbl, rmap, status, gc)
    /\ BudgetOk

-----------------------------------------------------------------------------
(* Sets of pages.                                                          *)

(* A bijection, written out. *)
LEMMA CountBij ==
    ASSUME NEW S, NEW T, IsFiniteSet(S), NEW f \in [S -> T],
           \A x, y \in S : f[x] = f[y] => x = y,
           \A t \in T : \E x \in S : f[x] = t
    PROVE  IsFiniteSet(T) /\ Cardinality(T) = Cardinality(S)
<1>1. f \in Bijection(S, T)
  BY DEF Bijection, Injection, Surjection, IsInjective
<1>2. ExistsBijection(S, T)
  BY <1>1 DEF ExistsBijection
<1> QED BY <1>2, FS_Bijection

LEMMA CountInj ==
    ASSUME NEW S, NEW T, IsFiniteSet(T), NEW f \in [S -> T],
           \A x, y \in S : f[x] = f[y] => x = y
    PROVE  IsFiniteSet(S) /\ Cardinality(S) <= Cardinality(T)
<1>1. f \in Injection(S, T)
  BY DEF Injection, IsInjective
<1> QED BY <1>1, FS_Injection

LEMMA CountUnion ==
    ASSUME NEW S, NEW T, IsFiniteSet(S), IsFiniteSet(T), S \cap T = {}
    PROVE  IsFiniteSet(S \cup T) /\ Cardinality(S \cup T) = Cardinality(S) + Cardinality(T)
<1>1. Cardinality(S \cap T) = 0
  BY FS_EmptySet
<1>2. /\ IsFiniteSet(S \cup T)
      /\ Cardinality(S \cup T) = Cardinality(S) + Cardinality(T) - Cardinality(S \cap T)
  BY FS_Union
<1>3. Cardinality(S) \in Nat /\ Cardinality(T) \in Nat
  BY FS_CardinalityType
<1> QED BY <1>1, <1>2, <1>3

LEMMA LineCount ==
    ASSUME NEW b \in Lines
    PROVE  IsFiniteSet(LinePages(b)) /\ Cardinality(LinePages(b)) = PgsPerLine
<1> DEFINE K == 0..(PgsPerLine - 1)
           f == [k \in K |-> VictimPage(b, k)]
           T == LinePages(b)
<1>1. IsFiniteSet(K) /\ Cardinality(K) = PgsPerLine
  <2> DEFINE n == PgsPerLine - 1
  <2>1. n \in Int /\ 0 \in Int /\ ~(0 > n) /\ n - 0 + 1 = PgsPerLine
    BY LineSize
  <2>2. Cardinality(0..n) = (IF 0 > n THEN 0 ELSE n - 0 + 1) /\ IsFiniteSet(0..n)
    <3> HIDE DEF n
    <3> QED BY <2>1, FS_Interval
  <2> QED BY <2>1, <2>2
<1>2. \A k \in K : VictimPage(b, k) \in T /\ VRank(VictimPage(b, k)) = k
  BY VictimPageFacts DEF LinePages
<1>3. \A p \in T : VRank(p) \in K /\ VictimPage(b, VRank(p)) = p
  BY VictimOf, RankRange DEF LinePages
<1> HIDE DEF T, K
<1>4. f \in [K -> T] /\ \A k \in K : f[k] = VictimPage(b, k)
  BY <1>2
<1> HIDE DEF f
<1>5. \A x, y \in K : f[x] = f[y] => x = y
  BY <1>2, <1>4
<1>6. \A t \in T : \E x \in K : f[x] = t
  BY <1>3, <1>4
<1>7. IsFiniteSet(T) /\ Cardinality(T) = Cardinality(K)
  BY <1>1, <1>4, <1>5, <1>6, CountBij
<1> QED BY <1>1, <1>7 DEF T

LEMMA PagesFinite ==
    ASSUME NEW st, NEW b \in Lines, NEW v
    PROVE  IsFiniteSet(PagesIn(st, b, v)) /\ Cardinality(PagesIn(st, b, v)) \in Nat
<1> DEFINE S == LinePages(b)
           T == PagesIn(st, b, v)
<1>1. T \in SUBSET S /\ IsFiniteSet(S)
  BY LineCount DEF PagesIn, LinePages
<1> HIDE DEF S, T
<1>2. IsFiniteSet(T) /\ Cardinality(T) \in Nat
  BY <1>1, FS_Subset, FS_CardinalityType
<1> QED BY <1>2 DEF T

(* The pages of a line by their states. *)
LEMMA LineSplit ==
    ASSUME NEW st \in [Ppas -> Statuses], NEW b \in Lines
    PROVE  Cardinality(PagesIn(st, b, "free")) + Cardinality(PagesIn(st, b, "valid"))
             + Cardinality(PagesIn(st, b, "invalid")) = PgsPerLine
<1> DEFINE F == PagesIn(st, b, "free")
           V == PagesIn(st, b, "valid")
           I == PagesIn(st, b, "invalid")
           L == LinePages(b)
<1>1. /\ IsFiniteSet(F) /\ IsFiniteSet(V) /\ IsFiniteSet(I)
      /\ Cardinality(F) \in Nat /\ Cardinality(V) \in Nat /\ Cardinality(I) \in Nat
  BY PagesFinite
<1>2. L = (F \cup V) \cup I /\ F \cap V = {} /\ (F \cup V) \cap I = {}
  <2>1. \A p \in Ppas : st[p] = "free" \/ st[p] = "valid" \/ st[p] = "invalid"
    BY DEF Statuses
  <2> QED BY <2>1 DEF LinePages, PagesIn
<1> HIDE DEF F, V, I, L
<1>3. IsFiniteSet(F \cup V) /\ Cardinality(F \cup V) = Cardinality(F) + Cardinality(V)
  BY <1>1, <1>2, CountUnion
<1>4. Cardinality(L) = Cardinality(F \cup V) + Cardinality(I)
  BY <1>1, <1>2, <1>3, CountUnion
<1>5. Cardinality(L) = PgsPerLine
  BY LineCount DEF L
<1> QED BY <1>3, <1>4, <1>5 DEF F, V, I

(* One page changes its state. *)
SetPage(st, p, v) == [st EXCEPT ![p] = v]

LEMMA PageChange ==
    ASSUME NEW st \in [Ppas -> Statuses], NEW p \in Ppas, NEW v \in Statuses
    PROVE  /\ SetPage(st, p, v) \in [Ppas -> Statuses]
           /\ \A q \in Ppas : SetPage(st, p, v)[q] = IF q = p THEN v ELSE st[q]
           /\ \A b \in Lines, x \in Statuses :
                 Cardinality(PagesIn(SetPage(st, p, v), b, x)) =
                   Cardinality(PagesIn(st, b, x)) + (IF p.blk = b /\ v = x THEN 1 ELSE 0)
                                                  - (IF p.blk = b /\ st[p] = x THEN 1 ELSE 0)
<1> DEFINE t == SetPage(st, p, v)
<1>0. t \in [Ppas -> Statuses] /\ \A q \in Ppas : t[q] = IF q = p THEN v ELSE st[q]
  BY DEF SetPage
<1> HIDE DEF t
<1>1. ASSUME NEW b \in Lines, NEW x \in Statuses
      PROVE  Cardinality(PagesIn(t, b, x)) =
               Cardinality(PagesIn(st, b, x)) + (IF p.blk = b /\ v = x THEN 1 ELSE 0)
                                              - (IF p.blk = b /\ st[p] = x THEN 1 ELSE 0)
  <2> DEFINE A == PagesIn(st, b, x)
             B == PagesIn(t, b, x)
  <2>1. IsFiniteSet(A)
    BY PagesFinite
  <2>2. A \ {p} = B \ {p} /\ (p \in B <=> p.blk = b /\ v = x) /\ (p \in A <=> p.blk = b /\ st[p] = x)
    BY <1>0 DEF PagesIn
  <2> HIDE DEF A, B
  <2>3. /\ Cardinality(A) \in Nat /\ Cardinality(B) \in Nat
        /\ Cardinality(B) = Cardinality(A) + (IF p \in B THEN 1 ELSE 0) - (IF p \in A THEN 1 ELSE 0)
    BY <2>1, <2>2, CountStep
  <2>4. Cardinality(B) = Cardinality(A) + (IF p.blk = b /\ v = x THEN 1 ELSE 0)
                                        - (IF p.blk = b /\ st[p] = x THEN 1 ELSE 0)
    BY <2>2, <2>3
  <2> QED BY <2>4 DEF A, B
<1> QED BY <1>0, <1>1 DEF t

-----------------------------------------------------------------------------
(* The steps of an action on the lines.                                    *)

LEMMA QTypes ==
    ASSUME NEW s, QOk(s)
    PROVE  /\ s \in QRec /\ QTyped(s)
           /\ \A b \in Lines : /\ s.line[b].vpc \in Int /\ s.line[b].ipc \in Int /\ s.line[b].pos \in Nat
                               /\ s.line[b].on \in Lists
                               /\ Queued(s, b) <=> s.line[b].pos # 0
<1>1. s \in QRec /\ QTyped(s)
  BY DEF QOk, QRec, QTyped
<1>2. ASSUME NEW b \in Lines PROVE Queued(s, b) <=> s.line[b].pos # 0
  <2>1. Queued(s, b) => s.line[b].pos # 0
    BY <1>1, QFacts DEF QOk, Queued, Placed
  <2> QED BY <2>1 DEF QOk
<1> QED BY <1>1, <1>2, QFacts

LEMMA MarkInvalidFacts ==
    ASSUME NEW s, QOk(s), NEW p \in Ppas, Queued(s, p.blk) => s.line[p.blk].vpc # PgsPerLine
    PROVE  LET t == MarkPageInvalid(s, p)
               full == s.line[p.blk].vpc = PgsPerLine
           IN  /\ QOk(t)
               /\ \A c \in Lines :
                    /\ t.line[c].vpc = s.line[c].vpc - (IF c = p.blk THEN 1 ELSE 0)
                    /\ t.line[c].ipc = s.line[c].ipc + (IF c = p.blk THEN 1 ELSE 0)
                    /\ t.line[c].on = IF c = p.blk /\ full THEN "victim" ELSE s.line[c].on
                    /\ Queued(t, c) <=> Queued(s, c) \/ (c = p.blk /\ full)
<1> DEFINE b == p.blk
           n == s.line[b]
           i == WithIpc(s, b, n.ipc + 1)
           t == MarkPageInvalid(s, p)
           full == n.vpc = PgsPerLine
<1>0. b \in Lines /\ "victim" \in Lists
  BY PpaFields DEF Lists
<1>1. /\ s \in QRec /\ n.vpc \in Int /\ n.ipc \in Int /\ n.pos \in Nat /\ n.on \in Lists
      /\ n.ipc + 1 \in Int /\ n.vpc - 1 \in Int /\ n.vpc - 1 < n.vpc
      /\ \A c \in Lines : s.line[c].vpc \in Int /\ s.line[c].ipc \in Int
  BY <1>0, QTypes
<1>2. Queued(s, b) <=> n.pos # 0
  BY <1>0, QTypes
<1>3. Edited(s, i, b, n.vpc, n.ipc + 1, n.pos, n.on)
  BY <1>0, <1>1, EditFacts
<1>4. QOk(i) /\ \A c \in Lines : Queued(i, c) <=> Queued(s, c)
  <2> HIDE DEF i
  <2>1. Harmless(s, i)
    BY <1>0, <1>3 DEF Edited, Harmless
  <2> QED BY <2>1, HarmlessOk
<1>5. t = LET u == IF n.pos # 0 THEN PqueueChangePriority(i, n.vpc - 1, b)
                   ELSE WithVpc(i, b, i.line[b].vpc - 1)
          IN  IF full THEN PqueueInsert(WithOn(u, b, "victim"), b) ELSE u
  BY DEF MarkPageInvalid, WithIpc, WithVpc, WithOn
<1> HIDE DEF i, t
<1>6. i \in QRec /\ i.line[b].vpc = n.vpc
  BY <1>3 DEF Edited
<1>7. CASE n.pos # 0
  <2>1. ~full /\ Queued(i, b) /\ n.vpc - 1 < i.line[b].vpc
    BY <1>0, <1>1, <1>2, <1>4, <1>6, <1>7
  <2>2. t = PqueueChangePriority(i, n.vpc - 1, b)
    BY <1>5, <1>7, <2>1
  <2>3. /\ QOk(t) /\ \A c \in Lines : Queued(t, c) <=> Queued(i, c)
        /\ \A c \in Lines : /\ t.line[c].vpc = IF c = b THEN n.vpc - 1 ELSE i.line[c].vpc
                            /\ t.line[c].ipc = i.line[c].ipc /\ t.line[c].on = i.line[c].on
    <3> DEFINE e == n.vpc - 1
    <3>1. e \in Int /\ e < i.line[b].vpc /\ Queued(i, b) /\ QOk(i) /\ t = PqueueChangePriority(i, e, b)
      BY <1>1, <1>4, <2>1, <2>2
    <3> HIDE DEF e, b
    <3>2. /\ QOk(t) /\ \A c \in Lines : Queued(t, c) <=> Queued(i, c)
          /\ \A c \in Lines : /\ t.line[c].vpc = IF c = b THEN e ELSE i.line[c].vpc
                              /\ t.line[c].ipc = i.line[c].ipc /\ t.line[c].on = i.line[c].on
      BY <1>0, <3>1, ChangeFacts
    <3> QED BY <3>2 DEF e
  <2>4. \A c \in Lines :
           /\ t.line[c].vpc = s.line[c].vpc - (IF c = b THEN 1 ELSE 0)
           /\ t.line[c].ipc = s.line[c].ipc + (IF c = b THEN 1 ELSE 0)
           /\ t.line[c].on = s.line[c].on
    BY <1>1, <1>3, <2>3 DEF Edited
  <2>5. \A c \in Lines : t.line[c].on = IF c = b /\ full THEN "victim" ELSE s.line[c].on
    BY <2>1, <2>4
  <2>6. \A c \in Lines : Queued(t, c) <=> Queued(s, c) \/ (c = b /\ full)
    BY <1>4, <2>1, <2>3
  <2> QED BY <2>3, <2>4, <2>5, <2>6 DEF t
<1>8. CASE n.pos = 0
  <2> DEFINE u == WithVpc(i, b, n.vpc - 1)
  <2>1. t = IF full THEN PqueueInsert(WithOn(u, b, "victim"), b) ELSE u
    BY <1>5, <1>6, <1>8
  <2>2. Edited(i, u, b, n.vpc - 1, n.ipc + 1, n.pos, n.on)
    <3>1. i.line[b].ipc = n.ipc + 1 /\ i.line[b].pos = n.pos /\ i.line[b].on = n.on
      BY <1>3 DEF Edited
    <3> HIDE DEF n
    <3>2. Edited(i, u, b, n.vpc - 1, i.line[b].ipc, i.line[b].pos, i.line[b].on)
      BY <1>0, <1>1, <1>6, EditFacts
    <3> QED BY <3>1, <3>2
  <2>3. ~Queued(s, b) /\ ~Queued(i, b) /\ i.line[b].pos = n.pos
    BY <1>0, <1>2, <1>3, <1>4, <1>8 DEF Edited
  <2> HIDE DEF u
  <2>4. QOk(u) /\ \A c \in Lines : Queued(u, c) <=> Queued(i, c)
    <3>1. Harmless(i, u)
      BY <1>0, <2>2, <2>3 DEF Edited, Harmless
    <3> QED BY <1>4, <3>1, HarmlessOk
  <2>5. \A c \in Lines :
           /\ u.line[c].vpc = s.line[c].vpc - (IF c = b THEN 1 ELSE 0)
           /\ u.line[c].ipc = s.line[c].ipc + (IF c = b THEN 1 ELSE 0)
           /\ u.line[c].on = s.line[c].on
    BY <1>1, <1>3, <2>2 DEF Edited
  <2>6. CASE ~full
    <3>1. t = u
      BY <2>1, <2>6
    <3>2. \A c \in Lines : Queued(t, c) <=> Queued(s, c) \/ (c = b /\ full)
      BY <1>4, <2>4, <2>6, <3>1
    <3>3. \A c \in Lines : t.line[c].on = IF c = b /\ full THEN "victim" ELSE s.line[c].on
      BY <2>5, <2>6, <3>1
    <3> QED BY <2>4, <2>5, <3>1, <3>2, <3>3 DEF t
  <2>7. CASE full
    <3> DEFINE x == WithOn(u, b, "victim")
    <3>0. u \in QRec /\ u.line[b].pos = n.pos /\ ~Queued(u, b)
      BY <1>0, <2>2, <2>3, <2>4 DEF Edited
    <3>1. Edited(u, x, b, u.line[b].vpc, u.line[b].ipc, u.line[b].pos, "victim")
      BY <1>0, <3>0, EditFacts
    <3>2. t = PqueueInsert(x, b)
      BY <2>1, <2>7
    <3> HIDE DEF x
    <3>3. QOk(x) /\ \A c \in Lines : Queued(x, c) <=> Queued(u, c)
      <4>1. Harmless(u, x)
        BY <1>0, <3>1 DEF Edited, Harmless
      <4> QED BY <2>4, <4>1, HarmlessOk
    <3>4. /\ QOk(t) /\ Kept(x, t)
          /\ \A c \in Lines : Queued(t, c) <=> Queued(x, c) \/ c = b
      <4> HIDE DEF b, n
      <4> QED BY <1>0, <3>0, <3>2, <3>3, InsertFacts
    <3>5. \A c \in Lines : Queued(t, c) <=> Queued(s, c) \/ (c = b /\ full)
      BY <1>4, <2>4, <2>7, <3>3, <3>4
    <3>6. \A c \in Lines :
             /\ t.line[c].vpc = u.line[c].vpc /\ t.line[c].ipc = u.line[c].ipc
             /\ t.line[c].on = IF c = b THEN "victim" ELSE u.line[c].on
      BY <3>1, <3>4 DEF Edited, Kept
    <3>7. \A c \in Lines :
             /\ t.line[c].vpc = s.line[c].vpc - (IF c = b THEN 1 ELSE 0)
             /\ t.line[c].ipc = s.line[c].ipc + (IF c = b THEN 1 ELSE 0)
      BY <2>5, <3>6
    <3>8. \A c \in Lines : t.line[c].on = IF c = b /\ full THEN "victim" ELSE s.line[c].on
      BY <2>5, <2>7, <3>6
    <3> QED BY <3>4, <3>5, <3>7, <3>8 DEF t
  <2> QED BY <2>6, <2>7
<1> QED BY <1>1, <1>7, <1>8

LEMMA HasPage ==
    ASSUME NEW st, NEW p \in Ppas
    PROVE  Cardinality(PagesIn(st, p.blk, st[p])) >= 1
<1> DEFINE A == PagesIn(st, p.blk, st[p])
<1>1. IsFiniteSet(A) /\ Cardinality(A) \in Nat /\ p \in A
  <2> DEFINE b == p.blk
             v == st[p]
  <2>1. b \in Lines /\ p \in A
    BY PpaFields DEF PagesIn
  <2> HIDE DEF b, v
  <2>2. IsFiniteSet(PagesIn(st, b, v)) /\ Cardinality(PagesIn(st, b, v)) \in Nat
    BY <2>1, PagesFinite
  <2> QED BY <2>1, <2>2 DEF b, v
<1> HIDE DEF A
<1>2. Cardinality(A) # 0
  BY <1>1, FS_EmptySet
<1>3. Cardinality(A) >= 1
  BY <1>1, <1>2
<1> QED BY <1>3 DEF A

LEMMA NoGcFacts == NoGc.blk \notin Lines /\ NoGc.at = 0 /\ (\A b \in Lines : b # NoGc.blk) /\ NoGc \notin Gcs
<1>1. NoGc.blk = -1 /\ NoGc.at = 0
  BY DEF NoGc
<1>2. -1 \notin Lines
  BY FtlConsts DEF Lines
<1>3. NoGc \notin Gcs
  BY <1>1, <1>2 DEF Gcs
<1> QED BY <1>1, <1>2, <1>3

(* The full lines are those with nothing but valid pages. *)
LEMMA FullIff ==
    ASSUME NEW s, NEW st, NEW fl, NEW w, NEW gw, NEW g, FlashAt(s, st, fl, w, gw, g),
           NEW b \in Lines, b # g.blk
    PROVE  /\ s.line[b].vpc = PgsPerLine <=> s.line[b].on = "full"
           /\ s.line[b].vpc \in 0..PgsPerLine /\ s.line[b].ipc \in 0..PgsPerLine
           /\ s.line[b].on \in {"full", "victim"} =>
                s.line[b].vpc + s.line[b].ipc = PgsPerLine
<1> DEFINE F == Cardinality(PagesIn(st, b, "free"))
           V == Cardinality(PagesIn(st, b, "valid"))
           I == Cardinality(PagesIn(st, b, "invalid"))
           n == s.line[b]
<1>1. F \in Nat /\ V \in Nat /\ I \in Nat /\ F + V + I = PgsPerLine
  BY PagesFinite, LineSplit DEF FlashAt
<1>2. n.vpc = V /\ n.ipc = I
  BY DEF FlashAt, CountsAt
<1>3. n.on \in Lists /\ QOk(s)
  BY QTypes DEF FlashAt, ListsAt
<1>4. n.on = "full" => n.vpc = PgsPerLine
  BY DEF FlashAt, CountsAt
<1>5. n.on = "victim" => n.ipc > 0
  BY DEF FlashAt, CountsAt
<1>6. ASSUME n.on = "open" PROVE F >= 1
  <2>1. PICK x \in {w, gw} : x.blk = b /\ x \in Ppas /\ st[x] = "free"
    <3>1. /\ w \in Ppas /\ gw \in Ppas /\ Rank(w) \in Nat /\ Rank(gw) \in Nat
      BY RankRange DEF FlashAt
    <3>2. st[w] = "free" /\ st[gw] = "free"
      BY <3>1 DEF FlashAt, FreeAt
    <3>3. b = w.blk \/ b = gw.blk
      BY <1>6 DEF FlashAt, ListsAt
    <3> QED BY <3>1, <3>2, <3>3
  <2> QED BY <2>1, HasPage
<1>7. ASSUME n.on = "free" PROVE F >= 1
  <2>1. StartOf(b) \in Ppas /\ StartOf(b).blk = b
    BY StartFacts
  <2>2. st[StartOf(b)] = "free"
    BY <1>7, <2>1 DEF FlashAt, FreeAt
  <2> QED BY <2>1, <2>2, HasPage
<1>8. n.on # "gc"
  BY DEF FlashAt, ListsAt
<1>9. n.on \in {"full", "victim", "open", "free"}
  BY <1>3, <1>8 DEF Lists
<1>10. n.on \in {"full", "victim"} => F = 0
  <2> SUFFICES ASSUME n.on \in {"full", "victim"} PROVE F = 0
    OBVIOUS
  <2>1. PagesIn(st, b, "free") = {}
    <3> SUFFICES ASSUME NEW p \in Ppas, p.blk = b, st[p] = "free" PROVE FALSE
      BY DEF PagesIn
    <3>1. n.on # "free" /\ n.on # "open"
      OBVIOUS
    <3>2. b # w.blk /\ b # gw.blk
      BY <3>1 DEF FlashAt, ListsAt
    <3> QED BY <3>1, <3>2 DEF FlashAt, FreeAt
  <2> QED BY <2>1, FS_EmptySet
<1> HIDE DEF F, V, I, n
<1>11. /\ n.vpc = PgsPerLine <=> n.on = "full"
       /\ n.vpc \in 0..PgsPerLine /\ n.ipc \in 0..PgsPerLine
       /\ n.on \in {"full", "victim"} => n.vpc + n.ipc = PgsPerLine
  BY <1>1, <1>2, <1>4, <1>5, <1>6, <1>7, <1>9, <1>10, LineSize
<1> QED BY <1>11 DEF n

LEMMA SwapPointers ==
    ASSUME NEW s, NEW st, NEW fl, NEW w, NEW gw, NEW g, FlashAt(s, st, fl, w, gw, g)
    PROVE  FlashAt(s, st, fl, gw, w, g)
<1>1. ListsAt(s, fl, gw, w, g)
  BY DEF FlashAt, ListsAt
<1>2. FreeAt(s, st, gw, w, g)
  BY DEF FlashAt, FreeAt
<1> QED BY <1>1, <1>2 DEF FlashAt

(* A logical page is written again: its old page is marked invalid. *)
LEMMA DropFacts ==
    ASSUME NEW s, NEW st, NEW fl, NEW w, NEW gw, FlashAt(s, st, fl, w, gw, NoGc),
           NEW p \in Ppas, st[p] = "valid"
    PROVE  FlashAt(MarkPageInvalid(s, p), SetPage(st, p, "invalid"), fl, w, gw, NoGc)
<1> DEFINE b == p.blk
           t == MarkPageInvalid(s, p)
           sp == SetPage(st, p, "invalid")
           full == s.line[b].vpc = PgsPerLine
<1>0. b \in Lines /\ st \in [Ppas -> Statuses] /\ "invalid" \in Statuses /\ "valid" \in Statuses
  BY PpaFields DEF FlashAt, Statuses
<1>1. b # NoGc.blk /\ \A c \in Lines : c # NoGc.blk
  BY <1>0, NoGcFacts
<1>2. full <=> s.line[b].on = "full"
  BY <1>0, <1>1, FullIff
<1>3. ListsAt(s, fl, w, gw, NoGc) /\ QOk(s) /\ CountsAt(s, st, NoGc) /\ FreeAt(s, st, w, gw, NoGc)
  BY DEF FlashAt, ListsAt
<1>4. Queued(s, b) <=> s.line[b].on = "victim"
  BY <1>0, <1>3 DEF ListsAt
<1>5. /\ QOk(t)
      /\ \A c \in Lines :
           /\ t.line[c].vpc = s.line[c].vpc - (IF c = b THEN 1 ELSE 0)
           /\ t.line[c].ipc = s.line[c].ipc + (IF c = b THEN 1 ELSE 0)
           /\ t.line[c].on = IF c = b /\ full THEN "victim" ELSE s.line[c].on
           /\ Queued(t, c) <=> Queued(s, c) \/ (c = b /\ full)
  <2>1. Queued(s, p.blk) => s.line[p.blk].vpc # PgsPerLine
    BY <1>2, <1>4
  <2> QED BY <1>3, <2>1, MarkInvalidFacts
<1>6. /\ sp \in [Ppas -> Statuses] /\ \A q \in Ppas : sp[q] = IF q = p THEN "invalid" ELSE st[q]
      /\ \A c \in Lines, x \in Statuses :
            Cardinality(PagesIn(sp, c, x)) =
              Cardinality(PagesIn(st, c, x)) + (IF b = c /\ "invalid" = x THEN 1 ELSE 0)
                                             - (IF b = c /\ st[p] = x THEN 1 ELSE 0)
  BY <1>0, PageChange
<1> HIDE DEF t, sp, full, b
<1>7. ListsAt(t, fl, w, gw, NoGc)
  <2>1. ASSUME NEW c \in Lines
        PROVE  /\ Queued(t, c) <=> t.line[c].on = "victim"
               /\ t.line[c].on = "free" <=> s.line[c].on = "free"
               /\ t.line[c].on = "open" <=> s.line[c].on = "open"
               /\ t.line[c].on = "gc" <=> s.line[c].on = "gc"
    <3>1. Queued(s, c) <=> s.line[c].on = "victim"
      BY <1>3 DEF ListsAt
    <3>2. CASE c = b /\ full
      BY <1>2, <1>5, <3>2
    <3>3. CASE ~(c = b /\ full)
      BY <1>5, <3>1, <3>3
    <3> QED BY <3>2, <3>3
  <2> QED BY <1>3, <1>5, <2>1 DEF ListsAt
<1>8. CountsAt(t, sp, NoGc)
  <2> SUFFICES ASSUME NEW c \in Lines
               PROVE  /\ t.line[c].vpc = Cardinality(PagesIn(sp, c, "valid"))
                      /\ t.line[c].ipc = Cardinality(PagesIn(sp, c, "invalid"))
                      /\ t.line[c].on = "full" => t.line[c].vpc = PgsPerLine
                      /\ t.line[c].on = "victim" => t.line[c].ipc > 0
    BY DEF CountsAt
  <2> DEFINE V == Cardinality(PagesIn(st, c, "valid"))
             I == Cardinality(PagesIn(st, c, "invalid"))
  <2>1. V \in Nat /\ I \in Nat /\ s.line[c].vpc = V /\ s.line[c].ipc = I
    BY <1>1, <1>3, PagesFinite DEF CountsAt
  <2>2. /\ Cardinality(PagesIn(sp, c, "valid")) = V - (IF c = b THEN 1 ELSE 0)
        /\ Cardinality(PagesIn(sp, c, "invalid")) = I + (IF c = b THEN 1 ELSE 0)
    <3>1. Cardinality(PagesIn(sp, c, "valid")) = V + 0 - (IF b = c THEN 1 ELSE 0)
      BY <1>0, <1>6
    <3>2. Cardinality(PagesIn(sp, c, "invalid")) = I + (IF b = c THEN 1 ELSE 0) - 0
      BY <1>0, <1>6
    <3> HIDE DEF V, I
    <3> QED BY <2>1, <3>1, <3>2
  <2>3. s.line[c].on = "full" => V = PgsPerLine
    BY <1>3, <2>1 DEF CountsAt
  <2>4. s.line[c].on = "victim" => I > 0
    BY <1>3, <2>1 DEF CountsAt
  <2> HIDE DEF V, I
  <2>5. /\ t.line[c].vpc = Cardinality(PagesIn(sp, c, "valid"))
        /\ t.line[c].ipc = Cardinality(PagesIn(sp, c, "invalid"))
    BY <1>5, <2>1, <2>2
  <2>6. t.line[c].on = "full" => t.line[c].vpc = PgsPerLine
    <3> SUFFICES ASSUME t.line[c].on = "full" PROVE t.line[c].vpc = PgsPerLine
      OBVIOUS
    <3>1. s.line[c].on = "full" /\ ~(c = b /\ full)
      BY <1>5
    <3>2. c # b
      BY <1>2, <3>1 DEF full
    <3> QED BY <1>5, <2>1, <2>3, <3>1, <3>2
  <2>7. t.line[c].on = "victim" => t.line[c].ipc > 0
    BY <1>5, <2>1, <2>4
  <2> QED BY <2>5, <2>6, <2>7
<1>9. FreeAt(t, sp, w, gw, NoGc)
  <2> SUFFICES ASSUME NEW q \in Ppas
               PROVE  /\ sp[q] = "free" <=> st[q] = "free"
                      /\ t.line[q.blk].on = "free" <=> s.line[q.blk].on = "free"
    BY <1>3 DEF FreeAt
  <2>1. q.blk \in Lines
    BY PpaFields
  <2>2. t.line[q.blk].on = "free" <=> s.line[q.blk].on = "free"
    <3>1. CASE q.blk = b /\ full
      BY <1>2, <1>5, <2>1, <3>1
    <3>2. CASE ~(q.blk = b /\ full)
      BY <1>5, <2>1, <3>2
    <3> QED BY <3>1, <3>2
  <2> QED BY <1>6, <2>2
<1> QED BY <1>6, <1>7, <1>8, <1>9 DEF FlashAt, t, sp

(* mark_page_valid on a line that is not queued. *)
LEMMA MarkValidFacts ==
    ASSUME NEW s, QOk(s), NEW p \in Ppas, ~Queued(s, p.blk)
    PROVE  LET t == MarkPageValid(s, p)
           IN  /\ QOk(t)
               /\ \A c \in Lines :
                    /\ t.line[c].vpc = s.line[c].vpc + (IF c = p.blk THEN 1 ELSE 0)
                    /\ t.line[c].ipc = s.line[c].ipc /\ t.line[c].on = s.line[c].on
                    /\ Queued(t, c) <=> Queued(s, c)
<1> DEFINE b == p.blk
           n == s.line[b]
           t == MarkPageValid(s, p)
<1>1. b \in Lines
  BY PpaFields
<1>2. /\ s \in QRec /\ n.vpc \in Int /\ n.ipc \in Int /\ n.pos \in Nat /\ n.on \in Lists
      /\ n.vpc + 1 \in Int
      /\ \A c \in Lines : s.line[c].vpc \in Int
  BY <1>1, QTypes
<1>3. t = WithVpc(s, b, n.vpc + 1)
  BY DEF MarkPageValid, WithVpc
<1>4. Edited(s, t, b, n.vpc + 1, n.ipc, n.pos, n.on)
  <2> DEFINE e == n.vpc + 1
  <2>1. e \in Int /\ t = WithVpc(s, b, e)
    BY <1>2, <1>3
  <2> HIDE DEF e, t, b
  <2>2. Edited(s, t, b, e, n.ipc, n.pos, n.on)
    BY <1>1, <1>2, <2>1, EditFacts
  <2> QED BY <2>2 DEF e
<1> HIDE DEF t
<1>5. Harmless(s, t)
  BY <1>1, <1>4 DEF Edited, Harmless
<1>6. QOk(t) /\ \A c \in Lines : Queued(t, c) <=> Queued(s, c)
  BY <1>5, HarmlessOk
<1>7. \A c \in Lines :
        /\ t.line[c].vpc = s.line[c].vpc + (IF c = b THEN 1 ELSE 0)
        /\ t.line[c].ipc = s.line[c].ipc /\ t.line[c].on = s.line[c].on
  BY <1>1, <1>2, <1>4 DEF Edited
<1> QED BY <1>6, <1>7 DEF t

(* A line changes its list and nothing else. *)
LEMMA OnFacts ==
    ASSUME NEW s, QOk(s), NEW b \in Lines, NEW o \in Lists
    PROVE  LET t == WithOn(s, b, o)
           IN  /\ QOk(t)
               /\ \A c \in Lines :
                    /\ t.line[c].vpc = s.line[c].vpc /\ t.line[c].ipc = s.line[c].ipc
                    /\ t.line[c].on = IF c = b THEN o ELSE s.line[c].on
                    /\ Queued(t, c) <=> Queued(s, c)
<1> DEFINE n == s.line[b]
           t == WithOn(s, b, o)
<1>1. s \in QRec
  BY QTypes
<1>2. Edited(s, t, b, n.vpc, n.ipc, n.pos, o)
  BY <1>1, EditFacts
<1> HIDE DEF t
<1>3. Harmless(s, t)
  BY <1>2 DEF Edited, Harmless
<1>4. QOk(t) /\ \A c \in Lines : Queued(t, c) <=> Queued(s, c)
  BY <1>3, HarmlessOk
<1>5. \A c \in Lines :
        /\ t.line[c].vpc = s.line[c].vpc /\ t.line[c].ipc = s.line[c].ipc
        /\ t.line[c].on = IF c = b THEN o ELSE s.line[c].on
  BY <1>2 DEF Edited
<1> QED BY <1>4, <1>5 DEF t

(* advance_write_pointer at the end of a line, on the lists of lines. *)
LEMMA UsedUpLines ==
    ASSUME NEW s, QOk(s), NEW w \in Ppas, UsesUp(w), ~Queued(s, w.blk),
           Head(freeList) \in Lines, Head(freeList) # w.blk
    PROVE  LET t == AdvancedLines(s, w)
               on == ListFor(s.line[w.blk])
           IN  /\ QOk(t)
               /\ \A c \in Lines :
                    /\ t.line[c].vpc = s.line[c].vpc /\ t.line[c].ipc = s.line[c].ipc
                    /\ t.line[c].on = IF c = w.blk THEN on
                                      ELSE IF c = Head(freeList) THEN "open" ELSE s.line[c].on
                    /\ Queued(t, c) <=> Queued(s, c) \/ (c = w.blk /\ on = "victim")
<1> DEFINE b == w.blk
           f == Head(freeList)
           on == ListFor(s.line[b])
           u == WithOn(s, b, on)
           v == WithOn(u, f, "open")
           t == AdvancedLines(s, w)
<1>1. b \in Lines /\ f \in Lines /\ f # b /\ on \in Lists /\ on \in {"full", "victim"} /\ "open" \in Lists
  BY PpaFields DEF ListFor, Lists
<1>2. v = [s EXCEPT !.line[b].on = on, !.line[f].on = "open"]
  BY DEF WithOn
<1>3. t = IF on = "victim" THEN PqueueInsert(v, b) ELSE v
  BY <1>2 DEF AdvancedLines
<1> HIDE DEF t, b, f, on
<1>4. /\ QOk(u)
      /\ \A c \in Lines :
           /\ u.line[c].vpc = s.line[c].vpc /\ u.line[c].ipc = s.line[c].ipc
           /\ u.line[c].on = IF c = b THEN on ELSE s.line[c].on
           /\ Queued(u, c) <=> Queued(s, c)
  BY <1>1, OnFacts
<1> HIDE DEF u
<1>5. /\ QOk(v)
      /\ \A c \in Lines :
           /\ v.line[c].vpc = u.line[c].vpc /\ v.line[c].ipc = u.line[c].ipc
           /\ v.line[c].on = IF c = f THEN "open" ELSE u.line[c].on
           /\ Queued(v, c) <=> Queued(u, c)
  BY <1>1, <1>4, OnFacts
<1> HIDE DEF v
<1>6. \A c \in Lines :
        /\ v.line[c].vpc = s.line[c].vpc /\ v.line[c].ipc = s.line[c].ipc
        /\ v.line[c].on = IF c = b THEN on ELSE IF c = f THEN "open" ELSE s.line[c].on
        /\ Queued(v, c) <=> Queued(s, c)
  BY <1>1, <1>4, <1>5
<1>7. ~Queued(v, b)
  BY <1>1, <1>6 DEF b
<1>8. /\ QOk(t)
      /\ \A c \in Lines :
           /\ t.line[c].vpc = v.line[c].vpc /\ t.line[c].ipc = v.line[c].ipc
           /\ t.line[c].on = v.line[c].on
           /\ Queued(t, c) <=> Queued(v, c) \/ (c = b /\ on = "victim")
  <2>1. CASE on = "victim"
    <3>1. t = PqueueInsert(v, b)
      BY <1>3, <2>1
    <3>2. QOk(t) /\ Kept(v, t) /\ \A c \in Lines : Queued(t, c) <=> Queued(v, c) \/ c = b
      BY <1>1, <1>5, <1>7, <3>1, InsertFacts
    <3> QED BY <2>1, <3>2 DEF Kept
  <2>2. CASE on # "victim"
    <3>1. t = v
      BY <1>3, <2>2
    <3> QED BY <1>5, <2>2, <3>1
  <2> QED BY <2>1, <2>2
<1>9. /\ QOk(t)
      /\ \A c \in Lines :
           /\ t.line[c].vpc = s.line[c].vpc /\ t.line[c].ipc = s.line[c].ipc
           /\ t.line[c].on = IF c = b THEN on ELSE IF c = f THEN "open" ELSE s.line[c].on
           /\ Queued(t, c) <=> Queued(s, c) \/ (c = b /\ on = "victim")
  BY <1>6, <1>8
<1> QED BY <1>9 DEF t, b, f, on

(* What the two pointers point to. *)
LEMMA PointerFacts ==
    ASSUME NEW s, NEW st, NEW fl, NEW w, NEW gw, NEW g, FlashAt(s, st, fl, w, gw, g)
    PROVE  /\ w \in Ppas /\ w.blk \in Lines /\ s.line[w.blk].on = "open" /\ ~Queued(s, w.blk)
           /\ st[w] = "free" /\ w.blk # g.blk /\ w.blk # gw.blk
           /\ \A p \in Ppas : p.blk = w.blk => (st[p] = "free" <=> Rank(p) >= Rank(w))
<1>1. w \in Ppas /\ w.blk \in Lines /\ w.blk # gw.blk
  BY PpaFields DEF FlashAt, ListsAt
<1>2. s.line[w.blk].on = "open" /\ ~Queued(s, w.blk) /\ w.blk # g.blk
  BY <1>1 DEF FlashAt, ListsAt
<1>3. \A p \in Ppas : p.blk = w.blk => (st[p] = "free" <=> Rank(p) >= Rank(w))
  BY <1>1, <1>2 DEF FlashAt, FreeAt
<1>4. st[w] = "free"
  BY <1>1, <1>3, RankRange
<1> QED BY <1>1, <1>2, <1>3, <1>4

(* The counts after the page at a write pointer has been written. *)
LEMMA WrittenCounts ==
    ASSUME NEW st \in [Ppas -> Statuses], NEW w \in Ppas, st[w] = "free", NEW c \in Lines
    PROVE  /\ Cardinality(PagesIn(SetPage(st, w, "valid"), c, "valid")) =
                Cardinality(PagesIn(st, c, "valid")) + (IF c = w.blk THEN 1 ELSE 0)
           /\ Cardinality(PagesIn(SetPage(st, w, "valid"), c, "invalid")) =
                Cardinality(PagesIn(st, c, "invalid"))
<1>1. "valid" \in Statuses /\ "invalid" \in Statuses
  BY DEF Statuses
<1> DEFINE sp == SetPage(st, w, "valid")
           V == Cardinality(PagesIn(st, c, "valid"))
           I == Cardinality(PagesIn(st, c, "invalid"))
<1>2. V \in Nat /\ I \in Nat
  BY PagesFinite
<1>3. Cardinality(PagesIn(sp, c, "valid")) = V + (IF w.blk = c THEN 1 ELSE 0) - 0
  BY <1>1, PageChange
<1>4. Cardinality(PagesIn(sp, c, "invalid")) = I + 0 - 0
  BY <1>1, PageChange
<1> HIDE DEF V, I
<1>5. /\ Cardinality(PagesIn(sp, c, "valid")) = V + (IF c = w.blk THEN 1 ELSE 0)
      /\ Cardinality(PagesIn(sp, c, "invalid")) = I
  BY <1>2, <1>3, <1>4
<1> QED BY <1>5 DEF V, I

(* A page is written where the line goes on. *)
LEMMA AdvanceWithin ==
    ASSUME NEW s, NEW st, NEW w, NEW gw, NEW g, FlashAt(s, st, freeList, w, gw, g), ~UsesUp(w)
    PROVE  FlashAt(AdvancedLines(MarkPageValid(s, w), w), SetPage(st, w, "valid"),
                   AdvancedFree(w), AdvancedWp(w), gw, g)
<1> DEFINE b == w.blk
           t == MarkPageValid(s, w)
           sp == SetPage(st, w, "valid")
           x == NextPage(w)
<1>1. AdvancedLines(t, w) = t /\ AdvancedFree(w) = freeList /\ AdvancedWp(w) = x
  BY DEF AdvancedLines, AdvancedFree, AdvancedWp
<1>2. /\ w \in Ppas /\ b \in Lines /\ s.line[b].on = "open" /\ ~Queued(s, b)
      /\ st[w] = "free" /\ b # g.blk /\ b # gw.blk
  BY PointerFacts
<1>3. /\ st \in [Ppas -> Statuses] /\ ListsAt(s, freeList, w, gw, g) /\ CountsAt(s, st, g)
      /\ FreeAt(s, st, w, gw, g) /\ QOk(s) /\ "valid" \in Statuses
  BY DEF FlashAt, ListsAt, Statuses
<1>4. /\ QOk(t)
      /\ \A c \in Lines :
           /\ t.line[c].vpc = s.line[c].vpc + (IF c = b THEN 1 ELSE 0)
           /\ t.line[c].ipc = s.line[c].ipc /\ t.line[c].on = s.line[c].on
           /\ Queued(t, c) <=> Queued(s, c)
  BY <1>2, <1>3, MarkValidFacts
<1>5. /\ sp \in [Ppas -> Statuses] /\ \A q \in Ppas : sp[q] = IF q = w THEN "valid" ELSE st[q]
  BY <1>2, <1>3, PageChange
<1>6. x \in Ppas /\ x.blk = b /\ Rank(x) = Rank(w) + 1 /\ Rank(w) \in Nat
  BY <1>2, NextPageFacts, RankRange
<1>7. \A c \in Lines :
        /\ Cardinality(PagesIn(sp, c, "valid")) = Cardinality(PagesIn(st, c, "valid")) + (IF c = b THEN 1 ELSE 0)
        /\ Cardinality(PagesIn(sp, c, "invalid")) = Cardinality(PagesIn(st, c, "invalid"))
  BY <1>2, <1>3, WrittenCounts
<1> HIDE DEF t, sp, x, b
<1>8. ListsAt(t, freeList, x, gw, g)
  BY <1>3, <1>4, <1>6 DEF ListsAt, b
<1>9. CountsAt(t, sp, g)
  <2> SUFFICES ASSUME NEW c \in Lines
               PROVE  /\ c # g.blk => /\ t.line[c].vpc = Cardinality(PagesIn(sp, c, "valid"))
                                      /\ t.line[c].ipc = Cardinality(PagesIn(sp, c, "invalid"))
                      /\ t.line[c].on = "full" => t.line[c].vpc = PgsPerLine
                      /\ t.line[c].on = "victim" => t.line[c].ipc > 0
    BY DEF CountsAt
  <2>1. c # g.blk => /\ s.line[c].vpc = Cardinality(PagesIn(st, c, "valid"))
                     /\ s.line[c].ipc = Cardinality(PagesIn(st, c, "invalid"))
    BY <1>3 DEF CountsAt
  <2>2. c # g.blk => /\ t.line[c].vpc = Cardinality(PagesIn(sp, c, "valid"))
                     /\ t.line[c].ipc = Cardinality(PagesIn(sp, c, "invalid"))
    BY <1>4, <1>7, <2>1
  <2>3. t.line[c].on = "full" => t.line[c].vpc = PgsPerLine
    <3> SUFFICES ASSUME t.line[c].on = "full" PROVE t.line[c].vpc = PgsPerLine
      OBVIOUS
    <3>1. s.line[c].on = "full" /\ c # b
      BY <1>2, <1>4
    <3>2. s.line[c].vpc = PgsPerLine /\ s.line[c].vpc \in Int
      BY <1>3, <3>1, QTypes DEF CountsAt
    <3> QED BY <1>4, <3>1, <3>2
  <2>4. t.line[c].on = "victim" => t.line[c].ipc > 0
    BY <1>3, <1>4 DEF CountsAt
  <2> QED BY <2>2, <2>3, <2>4
<1>10. FreeAt(t, sp, x, gw, g)
  <2> SUFFICES ASSUME NEW p \in Ppas
               PROVE  sp[p] = "free" <=>
                        \/ t.line[p.blk].on = "free"
                        \/ p.blk = x.blk /\ Rank(p) >= Rank(x)
                        \/ p.blk = gw.blk /\ Rank(p) >= Rank(gw)
                        \/ p.blk = g.blk /\ VRank(LastOf(p)) < g.at
    BY DEF FreeAt
  <2>1. p.blk \in Lines /\ Rank(p) \in Nat
    BY PpaFields, RankRange
  <2>2. st[p] = "free" <=>
          \/ s.line[p.blk].on = "free"
          \/ p.blk = b /\ Rank(p) >= Rank(w)
          \/ p.blk = gw.blk /\ Rank(p) >= Rank(gw)
          \/ p.blk = g.blk /\ VRank(LastOf(p)) < g.at
    BY <1>3 DEF FreeAt, b
  <2>3. t.line[p.blk].on = s.line[p.blk].on
    BY <1>4, <2>1
  <2>4. CASE p = w
    <3>1. sp[p] # "free" /\ p.blk = b /\ t.line[p.blk].on # "free" /\ ~(Rank(p) >= Rank(x))
      BY <1>2, <1>5, <1>6, <2>3, <2>4 DEF b
    <3> QED BY <1>2, <3>1
  <2>5. CASE p # w
    <3>1. p.blk = b => Rank(p) # Rank(w)
      BY <1>2, <2>5, RankUnique DEF b
    <3>2. sp[p] = st[p]
      BY <1>5, <2>5
    <3>3. p.blk = b /\ Rank(p) >= Rank(w) <=> p.blk = x.blk /\ Rank(p) >= Rank(x)
      BY <1>6, <2>1, <3>1
    <3> QED BY <2>2, <2>3, <3>2, <3>3
  <2> QED BY <2>4, <2>5
<1>11. FlashAt(t, sp, freeList, x, gw, g)
  BY <1>5, <1>6, <1>8, <1>9, <1>10 DEF FlashAt
<1> QED BY <1>1, <1>11 DEF t, sp

LEMMA HeadTail ==
    ASSUME NEW fl \in Seq(Lines), fl # << >>
    PROVE  /\ Head(fl) = fl[1] /\ Head(fl) \in Lines /\ Tail(fl) \in Seq(Lines)
           /\ Len(fl) \in Nat /\ Len(fl) >= 1 /\ Len(Tail(fl)) = Len(fl) - 1
           /\ \A i \in 1..Len(Tail(fl)) : Tail(fl)[i] = fl[i + 1]
<1>1. Len(fl) \in Nat /\ Len(fl) # 0
  BY EmptySeq, LenProperties
<1>2. Head(fl) = fl[1] /\ fl[1] \in Lines
  BY <1>1, ElementOfSeq, HeadTailProperties
<1>3. Tail(fl) \in Seq(Lines) /\ Len(Tail(fl)) = Len(fl) - 1
      /\ \A i \in 1..Len(Tail(fl)) : Tail(fl)[i] = fl[i + 1]
  BY HeadTailProperties
<1> QED BY <1>1, <1>2, <1>3

(* A page is written that uses the line up. *)
LEMMA AdvanceOver ==
    ASSUME NEW s, NEW st, NEW w, NEW gw, NEW g, FlashAt(s, st, freeList, w, gw, g), UsesUp(w),
           freeList # << >>
    PROVE  FlashAt(AdvancedLines(MarkPageValid(s, w), w), SetPage(st, w, "valid"),
                   AdvancedFree(w), AdvancedWp(w), gw, g)
<1> DEFINE b == w.blk
           f == Head(freeList)
           fl == Tail(freeList)
           m == MarkPageValid(s, w)
           t == AdvancedLines(m, w)
           on == ListFor(m.line[b])
           sp == SetPage(st, w, "valid")
           x == StartOf(f)
<1>1. AdvancedFree(w) = fl /\ AdvancedWp(w) = x
  BY DEF AdvancedFree, AdvancedWp
<1>2. /\ w \in Ppas /\ b \in Lines /\ s.line[b].on = "open" /\ ~Queued(s, b)
      /\ st[w] = "free" /\ b # g.blk /\ b # gw.blk
      /\ \A p \in Ppas : p.blk = b => (st[p] = "free" <=> Rank(p) >= Rank(w))
  BY PointerFacts
<1>3. /\ st \in [Ppas -> Statuses] /\ ListsAt(s, freeList, w, gw, g) /\ CountsAt(s, st, g)
      /\ FreeAt(s, st, w, gw, g) /\ QOk(s) /\ "valid" \in Statuses /\ freeList \in Seq(Lines)
  BY DEF FlashAt, ListsAt, Statuses
<1>4. /\ f = freeList[1] /\ f \in Lines /\ fl \in Seq(Lines)
      /\ Len(freeList) \in Nat /\ Len(freeList) >= 1 /\ Len(fl) = Len(freeList) - 1
      /\ \A i \in 1..Len(fl) : fl[i] = freeList[i + 1]
  BY <1>3, HeadTail
<1>5. s.line[f].on = "free" /\ f # b /\ f # gw.blk /\ f # g.blk
  <2>1. s.line[f].on = "free"
    BY <1>3, <1>4 DEF ListsAt
  <2> QED BY <1>3, <1>4, <2>1 DEF ListsAt
<1>6. /\ QOk(m)
      /\ \A c \in Lines :
           /\ m.line[c].vpc = s.line[c].vpc + (IF c = b THEN 1 ELSE 0)
           /\ m.line[c].ipc = s.line[c].ipc /\ m.line[c].on = s.line[c].on
           /\ Queued(m, c) <=> Queued(s, c)
  BY <1>2, <1>3, MarkValidFacts
<1>7. /\ QOk(t)
      /\ \A c \in Lines :
           /\ t.line[c].vpc = m.line[c].vpc /\ t.line[c].ipc = m.line[c].ipc
           /\ t.line[c].on = IF c = b THEN on ELSE IF c = f THEN "open" ELSE m.line[c].on
           /\ Queued(t, c) <=> Queued(m, c) \/ (c = b /\ on = "victim")
  <2>1. ~Queued(m, w.blk)
    BY <1>2, <1>6
  <2> HIDE DEF m
  <2> QED BY <1>2, <1>4, <1>5, <1>6, <2>1, UsedUpLines
<1>8. /\ sp \in [Ppas -> Statuses] /\ \A q \in Ppas : sp[q] = IF q = w THEN "valid" ELSE st[q]
  <2>1. w \in Ppas /\ st \in [Ppas -> Statuses] /\ "valid" \in Statuses
    BY <1>2, <1>3
  <2> QED BY <2>1, PageChange
<1>9. x \in Ppas /\ x.blk = f /\ Rank(x) = 0
  BY <1>4, StartFacts
<1>10. Rank(w) = PgsPerLine - 1
  BY <1>2, NextPageFacts
<1>11. \A c \in Lines :
         /\ Cardinality(PagesIn(sp, c, "valid")) = Cardinality(PagesIn(st, c, "valid")) + (IF c = b THEN 1 ELSE 0)
         /\ Cardinality(PagesIn(sp, c, "invalid")) = Cardinality(PagesIn(st, c, "invalid"))
  BY <1>2, <1>3, WrittenCounts
<1>12. on = (IF m.line[b].vpc = PgsPerLine THEN "full" ELSE "victim")
  BY DEF ListFor
<1> HIDE DEF t, sp, x, b, f, fl, m, on
<1>13. \A c \in Lines :
         /\ t.line[c].vpc = s.line[c].vpc + (IF c = b THEN 1 ELSE 0)
         /\ t.line[c].ipc = s.line[c].ipc
         /\ t.line[c].on = IF c = b THEN on ELSE IF c = f THEN "open" ELSE s.line[c].on
         /\ Queued(t, c) <=> Queued(s, c) \/ (c = b /\ on = "victim")
  BY <1>6, <1>7
<1>14. \A p \in Ppas : p.blk = b => sp[p] # "free"
  <2> SUFFICES ASSUME NEW p \in Ppas, p.blk = b PROVE sp[p] # "free"
    OBVIOUS
  <2>1. CASE p = w
    BY <1>8, <2>1
  <2>2. CASE p # w
    <3>1. Rank(p) # Rank(w) /\ Rank(p) \in 0..(PgsPerLine - 1)
      BY <1>2, <2>2, RankUnique, RankRange DEF b
    <3>2. ~(Rank(p) >= Rank(w))
      BY <1>10, <3>1, LineSize
    <3> QED BY <1>2, <1>8, <2>2, <3>2
  <2> QED BY <2>1, <2>2
<1>15. ListsAt(t, fl, x, gw, g)
  <2>1. \A i, j \in 1..Len(fl) : fl[i] = fl[j] => i = j
    <3> SUFFICES ASSUME NEW i \in 1..Len(fl), NEW j \in 1..Len(fl), fl[i] = fl[j] PROVE i = j
      OBVIOUS
    <3>1. i + 1 \in 1..Len(freeList) /\ j + 1 \in 1..Len(freeList) /\ freeList[i + 1] = freeList[j + 1]
      BY <1>4
    <3>2. i + 1 = j + 1
      BY <1>3, <3>1 DEF ListsAt
    <3> QED BY <3>2
  <2>2. ASSUME NEW c \in Lines
        PROVE  (\E i \in 1..Len(fl) : fl[i] = c) <=> s.line[c].on = "free" /\ c # f
    <3>1. ASSUME NEW i \in 1..Len(fl), fl[i] = c PROVE s.line[c].on = "free" /\ c # f
      <4>1. i + 1 \in 1..Len(freeList) /\ freeList[i + 1] = c /\ i + 1 # 1 /\ 1 \in 1..Len(freeList)
        BY <1>4, <3>1
      <4>2. s.line[c].on = "free"
        BY <1>3, <4>1 DEF ListsAt
      <4>3. c # f
        BY <1>3, <1>4, <4>1 DEF ListsAt
      <4> QED BY <4>2, <4>3
    <3>2. ASSUME s.line[c].on = "free", c # f PROVE \E i \in 1..Len(fl) : fl[i] = c
      <4>1. PICK j \in 1..Len(freeList) : freeList[j] = c
        BY <1>3, <3>2 DEF ListsAt
      <4>2. j # 1
        BY <1>4, <3>2, <4>1
      <4>3. j - 1 \in 1..Len(fl) /\ fl[j - 1] = c
        <5>1. j - 1 \in 1..Len(fl) /\ (j - 1) + 1 = j
          BY <1>4, <4>1, <4>2
        <5> QED BY <1>4, <4>1, <5>1
      <4> QED BY <4>3
    <3> QED BY <3>1, <3>2
  <2>3. ASSUME NEW c \in Lines
        PROVE  /\ Queued(t, c) <=> t.line[c].on = "victim"
               /\ t.line[c].on = "free" <=> \E i \in 1..Len(fl) : fl[i] = c
               /\ t.line[c].on = "open" <=> c = x.blk \/ c = gw.blk
               /\ t.line[c].on = "gc" <=> c = g.blk
    <3>1. /\ Queued(s, c) <=> s.line[c].on = "victim"
          /\ s.line[c].on = "open" <=> c = b \/ c = gw.blk
          /\ s.line[c].on = "gc" <=> c = g.blk
      BY <1>3 DEF ListsAt, b
    <3>2. CASE c = b
      <4>1. t.line[c].on = on /\ on \in {"full", "victim"} /\ (Queued(t, c) <=> on = "victim")
        BY <1>2, <1>12, <1>13, <3>2
      <4>2. c # x.blk /\ c # gw.blk /\ c # g.blk /\ ~\E i \in 1..Len(fl) : fl[i] = c
        BY <1>2, <1>5, <1>9, <2>2, <3>2
      <4> QED BY <4>1, <4>2
    <3>3. CASE c = f
      <4>1. t.line[c].on = "open" /\ ~Queued(t, c)
        BY <1>5, <1>13, <3>1, <3>3
      <4>2. c = x.blk /\ c # g.blk /\ ~\E i \in 1..Len(fl) : fl[i] = c
        BY <1>5, <1>9, <2>2, <3>3
      <4> QED BY <4>1, <4>2
    <3>4. CASE c # b /\ c # f
      <4>1. t.line[c].on = s.line[c].on /\ (Queued(t, c) <=> Queued(s, c))
        BY <1>13, <3>4
      <4>2. c # x.blk /\ ((\E i \in 1..Len(fl) : fl[i] = c) <=> s.line[c].on = "free")
        BY <1>9, <2>2, <3>4
      <4> QED BY <3>1, <3>4, <4>1, <4>2
    <3> QED BY <3>2, <3>3, <3>4
  <2> QED BY <1>5, <1>7, <1>9, <2>1, <2>3 DEF ListsAt
<1>16. CountsAt(t, sp, g)
  <2> SUFFICES ASSUME NEW c \in Lines
               PROVE  /\ c # g.blk => /\ t.line[c].vpc = Cardinality(PagesIn(sp, c, "valid"))
                                      /\ t.line[c].ipc = Cardinality(PagesIn(sp, c, "invalid"))
                      /\ t.line[c].on = "full" => t.line[c].vpc = PgsPerLine
                      /\ t.line[c].on = "victim" => t.line[c].ipc > 0
    BY DEF CountsAt
  <2>1. c # g.blk => /\ s.line[c].vpc = Cardinality(PagesIn(st, c, "valid"))
                     /\ s.line[c].ipc = Cardinality(PagesIn(st, c, "invalid"))
    BY <1>3 DEF CountsAt
  <2>2. c # g.blk => /\ t.line[c].vpc = Cardinality(PagesIn(sp, c, "valid"))
                     /\ t.line[c].ipc = Cardinality(PagesIn(sp, c, "invalid"))
    BY <1>11, <1>13, <2>1
  <2>3. CASE c = b
    <3> DEFINE V == Cardinality(PagesIn(sp, b, "valid"))
               I == Cardinality(PagesIn(sp, b, "invalid"))
               F == Cardinality(PagesIn(sp, b, "free"))
    <3>1. F + V + I = PgsPerLine /\ V \in Nat /\ I \in Nat
      BY <1>2, <1>8, LineSplit, PagesFinite
    <3>2. F = 0
      <4>1. PagesIn(sp, b, "free") = {}
        BY <1>14 DEF PagesIn
      <4> QED BY <4>1, FS_EmptySet
    <3>3. t.line[c].on = on /\ t.line[c].vpc = m.line[c].vpc /\ t.line[c].vpc = V /\ t.line[c].ipc = I
      BY <1>2, <1>7, <2>2, <2>3
    <3> HIDE DEF V, I, F
    <3>4. on = (IF V = PgsPerLine THEN "full" ELSE "victim")
      BY <1>12, <2>3, <3>3
    <3> QED BY <2>2, <3>1, <3>2, <3>3, <3>4, LineSize
  <2>4. CASE c # b
    <3>1. t.line[c].on = "full" => s.line[c].on = "full"
      BY <1>13, <2>4
    <3>2. t.line[c].on = "victim" => s.line[c].on = "victim"
      BY <1>13, <2>4
    <3>3. t.line[c].vpc = s.line[c].vpc /\ t.line[c].ipc = s.line[c].ipc
      BY <1>3, <1>13, <2>4, QTypes
    <3>4. /\ s.line[c].on = "full" => s.line[c].vpc = PgsPerLine
          /\ s.line[c].on = "victim" => s.line[c].ipc > 0
      BY <1>3 DEF CountsAt
    <3> QED BY <2>2, <3>1, <3>2, <3>3, <3>4
  <2> QED BY <2>3, <2>4
<1>17. FreeAt(t, sp, x, gw, g)
  <2> SUFFICES ASSUME NEW p \in Ppas
               PROVE  sp[p] = "free" <=>
                        \/ t.line[p.blk].on = "free"
                        \/ p.blk = x.blk /\ Rank(p) >= Rank(x)
                        \/ p.blk = gw.blk /\ Rank(p) >= Rank(gw)
                        \/ p.blk = g.blk /\ VRank(LastOf(p)) < g.at
    BY DEF FreeAt
  <2>1. p.blk \in Lines /\ Rank(p) \in Nat
    BY PpaFields, RankRange
  <2>2. st[p] = "free" <=>
          \/ s.line[p.blk].on = "free"
          \/ p.blk = b /\ Rank(p) >= Rank(w)
          \/ p.blk = gw.blk /\ Rank(p) >= Rank(gw)
          \/ p.blk = g.blk /\ VRank(LastOf(p)) < g.at
    BY <1>3 DEF FreeAt, b
  <2>3. CASE p.blk = b
    <3>1. sp[p] # "free" /\ t.line[p.blk].on # "free" /\ p.blk # x.blk /\ p.blk # gw.blk /\ p.blk # g.blk
      BY <1>2, <1>5, <1>9, <1>12, <1>13, <1>14, <2>1, <2>3
    <3> QED BY <3>1
  <2>4. CASE p.blk = f
    <3>1. st[p] = "free" /\ p # w
      BY <1>5, <2>2, <2>4 DEF b
    <3>2. sp[p] = "free" /\ p.blk = x.blk /\ Rank(p) >= Rank(x)
      BY <1>8, <1>9, <2>1, <2>4, <3>1
    <3> QED BY <3>2
  <2>5. CASE p.blk # b /\ p.blk # f
    <3>1. sp[p] = st[p] /\ t.line[p.blk].on = s.line[p.blk].on /\ p.blk # x.blk
      BY <1>8, <1>9, <1>13, <2>1, <2>5 DEF b
    <3> QED BY <2>2, <2>5, <3>1
  <2> QED BY <2>3, <2>4, <2>5
<1>18. FlashAt(t, sp, fl, x, gw, g)
  BY <1>4, <1>8, <1>9, <1>15, <1>16, <1>17 DEF FlashAt
<1> QED BY <1>1, <1>18 DEF t, sp, m

LEMMA RoomSwap ==
    ASSUME NEW fl \in Seq(Lines), NEW w \in Ppas, NEW gw \in Ppas
    PROVE  Room(fl, gw, w) = Room(fl, w, gw) /\ Room(fl, w, gw) \in Int
<1>1. Rank(w) \in Nat /\ Rank(gw) \in Nat /\ Len(fl) \in Nat /\ PgsPerLine \in Nat
  BY RankRange, LenProperties, LineSize
<1>2. PgsPerLine * Len(fl) \in Nat
  BY <1>1
<1> QED BY <1>1, <1>2 DEF Room

(* Either way one page less can be written. *)
LEMMA RoomFacts ==
    ASSUME NEW w \in Ppas, NEW gw \in Ppas, freeList \in Seq(Lines), UsesUp(w) => freeList # << >>
    PROVE  /\ Room(freeList, w, gw) \in Int
           /\ Room(AdvancedFree(w), AdvancedWp(w), gw) = Room(freeList, w, gw) - 1
<1> DEFINE N == PgsPerLine
           n == Len(freeList)
           r == Rank(w)
           q == Rank(gw)
<1>1. N \in Nat \ {0} /\ n \in Nat /\ r \in Nat /\ q \in Nat /\ r \in 0..(N - 1)
  BY LineSize, RankRange, LenProperties
<1>2. N * n \in Nat /\ N * (n - 1) = N * n - N
  <2> HIDE DEF N, n, r, q
  <2> QED BY <1>1
<1>3. Room(freeList, w, gw) = N * n + (N - r) + (N - q)
  BY DEF Room
<1>4. Room(AdvancedFree(w), AdvancedWp(w), gw) = N * n + (N - r) + (N - q) - 1
  <2>1. CASE UsesUp(w)
    <3>1. Len(AdvancedFree(w)) = n - 1
      BY <2>1, HeadTail DEF AdvancedFree
    <3>2. Rank(AdvancedWp(w)) = 0
      BY <2>1, HeadTail, StartFacts DEF AdvancedWp
    <3>3. r = N - 1
      BY <2>1, NextPageFacts
    <3>4. Room(AdvancedFree(w), AdvancedWp(w), gw) = N * (n - 1) + (N - 0) + (N - q)
      BY <3>1, <3>2 DEF Room
    <3> HIDE DEF N, n, r, q
    <3> QED BY <1>1, <1>2, <3>3, <3>4
  <2>2. CASE ~UsesUp(w)
    <3>1. AdvancedFree(w) = freeList /\ Rank(AdvancedWp(w)) = r + 1
      BY <2>2, NextPageFacts DEF AdvancedFree, AdvancedWp
    <3>2. Room(AdvancedFree(w), AdvancedWp(w), gw) = N * n + (N - (r + 1)) + (N - q)
      BY <3>1 DEF Room
    <3> HIDE DEF N, n, r, q
    <3> QED BY <1>1, <1>2, <3>2
  <2> QED BY <2>1, <2>2
<1> HIDE DEF N, n, r, q
<1> QED BY <1>1, <1>2, <1>3, <1>4

-----------------------------------------------------------------------------
(* The steps of a collection.                                              *)

LEMMA LastFacts ==
    ASSUME NEW p \in Ppas
    PROVE  /\ LastOf(p) \in Ppas /\ LastOf(p).blk = p.blk /\ LastOf(p).ch = p.ch /\ LastOf(p).lun = p.lun
           /\ LastOf(p).pg = PgsPerBlk - 1 /\ VRank(LastOf(p)) \in 0..(PgsPerLine - 1)
           /\ VRank(LastOf(p)) \in Nat
<1>1. /\ LastOf(p) \in Ppas /\ LastOf(p).blk = p.blk /\ LastOf(p).ch = p.ch /\ LastOf(p).lun = p.lun
      /\ LastOf(p).pg = PgsPerBlk - 1
  BY FtlConsts, PpaFields DEF LastOf, Ppas
<1> QED BY <1>1, RankRange

StartGc(b) == [blk |-> b, at |-> 0]

(* select_victim_line *)
LEMMA SelectStep ==
    ASSUME NEW s, NEW st, NEW fl, NEW w, NEW gw, FlashAt(s, st, fl, w, gw, NoGc), s.heap # << >>
    PROVE  /\ FlashAt(SelectVictimLine(s), st, fl, w, gw, StartGc(PqueuePeek(s)))
           /\ PqueuePeek(s) \in Lines
           /\ s.line[PqueuePeek(s)].ipc \in 1..PgsPerLine
           /\ Cardinality(ToCopy(st, StartGc(PqueuePeek(s)))) + s.line[PqueuePeek(s)].ipc = PgsPerLine
<1> DEFINE v == PqueuePeek(s)
           t == SelectVictimLine(s)
           g == StartGc(v)
<1>1. /\ st \in [Ppas -> Statuses] /\ ListsAt(s, fl, w, gw, NoGc) /\ CountsAt(s, st, NoGc)
      /\ FreeAt(s, st, w, gw, NoGc) /\ QOk(s) /\ fl \in Seq(Lines) /\ w \in Ppas /\ gw \in Ppas
  BY DEF FlashAt, ListsAt
<1>2. /\ v \in Lines /\ Queued(s, v) /\ QOk(t)
      /\ \A c \in Lines : Queued(t, c) <=> Queued(s, c) /\ c # v
      /\ \A c \in Lines : /\ t.line[c].vpc = s.line[c].vpc /\ t.line[c].ipc = s.line[c].ipc
                          /\ t.line[c].on = IF c = v THEN "gc" ELSE s.line[c].on
  BY <1>1, SelectFacts
<1>3. g.blk = v /\ g.at = 0 /\ 0 \in 0..PgsPerLine
  BY LineSize DEF StartGc
<1>4. g \in Gcs
  BY <1>2, <1>3 DEF Gcs, StartGc
<1> HIDE DEF v, t, g
<1>5. s.line[v].on = "victim" /\ s.line[v].ipc > 0 /\ v # w.blk /\ v # gw.blk
  <2>1. s.line[v].on = "victim"
    BY <1>1, <1>2 DEF ListsAt
  <2> QED BY <1>1, <1>2, <2>1 DEF ListsAt, CountsAt
<1>6. ListsAt(t, fl, w, gw, g)
  <2>1. ASSUME NEW c \in Lines
        PROVE  /\ Queued(t, c) <=> t.line[c].on = "victim"
               /\ t.line[c].on = "free" <=> \E i \in 1..Len(fl) : fl[i] = c
               /\ t.line[c].on = "open" <=> c = w.blk \/ c = gw.blk
               /\ t.line[c].on = "gc" <=> c = g.blk
    <3>1. /\ Queued(s, c) <=> s.line[c].on = "victim"
          /\ s.line[c].on = "free" <=> \E i \in 1..Len(fl) : fl[i] = c
          /\ s.line[c].on = "open" <=> c = w.blk \/ c = gw.blk
          /\ s.line[c].on = "gc" <=> c = NoGc.blk
      BY <1>1 DEF ListsAt
    <3>2. s.line[c].on # "gc"
      BY <3>1, NoGcFacts
    <3>3. CASE c = v
      <4>1. t.line[c].on = "gc" /\ ~Queued(t, c)
        BY <1>2, <3>3
      <4> QED BY <1>3, <1>5, <3>1, <3>3, <4>1
    <3>4. CASE c # v
      <4>1. t.line[c].on = s.line[c].on /\ (Queued(t, c) <=> Queued(s, c))
        BY <1>2, <3>4
      <4> QED BY <1>3, <3>1, <3>2, <3>4, <4>1
    <3> QED BY <3>3, <3>4
  <2> QED BY <1>1, <1>2, <2>1 DEF ListsAt
<1>7. CountsAt(t, st, g)
  <2> SUFFICES ASSUME NEW c \in Lines
               PROVE  /\ c # g.blk => /\ t.line[c].vpc = Cardinality(PagesIn(st, c, "valid"))
                                      /\ t.line[c].ipc = Cardinality(PagesIn(st, c, "invalid"))
                      /\ t.line[c].on = "full" => t.line[c].vpc = PgsPerLine
                      /\ t.line[c].on = "victim" => t.line[c].ipc > 0
    BY DEF CountsAt
  <2>1. /\ s.line[c].vpc = Cardinality(PagesIn(st, c, "valid"))
        /\ s.line[c].ipc = Cardinality(PagesIn(st, c, "invalid"))
        /\ s.line[c].on = "full" => s.line[c].vpc = PgsPerLine
        /\ s.line[c].on = "victim" => s.line[c].ipc > 0
    BY <1>1, NoGcFacts DEF CountsAt
  <2>2. c # v => t.line[c].on = s.line[c].on
    BY <1>2
  <2>3. c = v => t.line[c].on = "gc"
    BY <1>2
  <2> QED BY <1>2, <2>1, <2>2, <2>3
<1>8. FreeAt(t, st, w, gw, g)
  <2> SUFFICES ASSUME NEW p \in Ppas
               PROVE  st[p] = "free" <=>
                        \/ t.line[p.blk].on = "free"
                        \/ p.blk = w.blk /\ Rank(p) >= Rank(w)
                        \/ p.blk = gw.blk /\ Rank(p) >= Rank(gw)
                        \/ p.blk = g.blk /\ VRank(LastOf(p)) < g.at
    BY DEF FreeAt
  <2>1. p.blk \in Lines /\ p.blk # NoGc.blk /\ ~(VRank(LastOf(p)) < g.at)
    BY <1>3, PpaFields, LastFacts, NoGcFacts
  <2>2. st[p] = "free" <=>
          \/ s.line[p.blk].on = "free"
          \/ p.blk = w.blk /\ Rank(p) >= Rank(w)
          \/ p.blk = gw.blk /\ Rank(p) >= Rank(gw)
    BY <1>1, <2>1 DEF FreeAt
  <2>3. t.line[p.blk].on = "free" <=> s.line[p.blk].on = "free"
    BY <1>2, <1>5, <2>1
  <2> QED BY <2>1, <2>2, <2>3
<1>9. FlashAt(t, st, fl, w, gw, g)
  BY <1>1, <1>4, <1>6, <1>7, <1>8 DEF FlashAt
<1>10. ToCopy(st, g) = PagesIn(st, v, "valid")
  <2>1. \A p \in Ppas : VRank(p) >= g.at
    BY <1>3, RankRange
  <2> QED BY <1>3, <2>1 DEF ToCopy, PagesIn
<1>11. Cardinality(ToCopy(st, g)) = s.line[v].vpc
  BY <1>1, <1>2, <1>10, NoGcFacts DEF CountsAt
<1>12. /\ s.line[v].vpc \in 0..PgsPerLine /\ s.line[v].ipc \in 0..PgsPerLine
       /\ s.line[v].vpc + s.line[v].ipc = PgsPerLine
  BY <1>2, <1>5, NoGcFacts, FullIff
<1>13. s.line[v].ipc \in 1..PgsPerLine
  BY <1>5, <1>12, LineSize
<1> QED BY <1>2, <1>9, <1>11, <1>12, <1>13 DEF t, g, v

NextGc(g) == [g EXCEPT !.at = @ + 1]

(* The page a collection visits, and what its erasure may touch: pages it  *)
(* has passed, all of one block, once its last page has been visited.      *)
LEMMA VisitFacts ==
    ASSUME NEW g \in Gcs, g.at < PgsPerLine
    PROVE  LET p == VictimPage(g.blk, g.at)
           IN  /\ NextGc(g) \in Gcs /\ NextGc(g).blk = g.blk /\ NextGc(g).at = g.at + 1
               /\ g.at \in Nat /\ g.blk \in Lines
               /\ p \in Ppas /\ p.blk = g.blk /\ VRank(p) = g.at /\ ~Behind(p, g)
               /\ \A q \in Ppas : Behind(q, NextGc(g)) <=> Behind(q, g) \/ q = p
               /\ \A q \in Ppas : q.blk = g.blk =>
                     (p.pg = PgsPerBlk - 1 /\ q.ch = p.ch /\ q.lun = p.lun <=> VRank(LastOf(q)) = g.at)
               /\ \A q \in Ppas : q.blk = g.blk /\ VRank(LastOf(q)) <= g.at => Behind(q, NextGc(g))
<1> DEFINE p == VictimPage(g.blk, g.at)
           h == NextGc(g)
<1>1. g.blk \in Lines /\ g.at \in 0..(PgsPerLine - 1) /\ g.at \in Nat
  BY LineSize DEF Gcs
<1>2. p \in Ppas /\ p.blk = g.blk /\ VRank(p) = g.at
  BY <1>1, VictimPageFacts
<1>3. h \in Gcs /\ h.blk = g.blk /\ h.at = g.at + 1
  <2>1. h = [blk |-> g.blk, at |-> g.at + 1]
    BY DEF NextGc, Gcs
  <2>2. g.at + 1 \in 0..PgsPerLine
    BY <1>1, LineSize
  <2> QED BY <1>1, <2>1, <2>2 DEF Gcs
<1> HIDE DEF p, h
<1>4. \A q \in Ppas : q.blk = g.blk /\ VRank(q) = g.at => q = p
  BY <1>2, VRankUnique
<1>5. \A q \in Ppas : Behind(q, h) <=> Behind(q, g) \/ q = p
  <2> SUFFICES ASSUME NEW q \in Ppas PROVE Behind(q, h) <=> Behind(q, g) \/ q = p
    OBVIOUS
  <2>1. VRank(q) \in Nat
    BY RankRange
  <2>2. VRank(q) < g.at + 1 <=> VRank(q) < g.at \/ VRank(q) = g.at
    BY <1>1, <2>1
  <2> QED BY <1>2, <1>3, <1>4, <2>1, <2>2 DEF Behind
<1>6. ~Behind(p, g)
  BY <1>1, <1>2 DEF Behind
<1>7. ASSUME NEW q \in Ppas, q.blk = g.blk
      PROVE  p.pg = PgsPerBlk - 1 /\ q.ch = p.ch /\ q.lun = p.lun <=> VRank(LastOf(q)) = g.at
  <2>1. /\ LastOf(q) \in Ppas /\ LastOf(q).blk = q.blk /\ LastOf(q).ch = q.ch /\ LastOf(q).lun = q.lun
        /\ LastOf(q).pg = PgsPerBlk - 1
    BY LastFacts
  <2>2. VRank(LastOf(q)) = g.at <=> LastOf(q) = p
    BY <1>2, <1>4, <1>7, <2>1
  <2>3. p.pg = PgsPerBlk - 1 /\ q.ch = p.ch /\ q.lun = p.lun => LastOf(q) = p
    BY <1>2, <1>7, <2>1, PpaEqual
  <2> QED BY <2>1, <2>2, <2>3
<1>8. ASSUME NEW q \in Ppas, q.blk = g.blk, VRank(LastOf(q)) <= g.at PROVE Behind(q, h)
  <2>1. /\ LastOf(q) \in Ppas /\ LastOf(q).blk = q.blk /\ LastOf(q).ch = q.ch /\ LastOf(q).lun = q.lun
        /\ LastOf(q).pg = PgsPerBlk - 1 /\ VRank(LastOf(q)) \in Nat
    BY LastFacts
  <2>2. q.pg \in 0..(PgsPerBlk - 1) /\ PgsPerBlk \in Nat /\ VRank(q) \in Nat
    BY PpaFields, FtlConsts, RankRange
  <2>3. CASE q.pg = PgsPerBlk - 1
    <3>1. q = LastOf(q)
      BY <2>1, <2>3, PpaEqual
    <3> QED BY <1>1, <1>3, <1>8, <2>2, <3>1 DEF Behind
  <2>4. CASE q.pg # PgsPerBlk - 1
    <3>1. q.pg < LastOf(q).pg
      BY <2>1, <2>2, <2>4
    <3>2. VRank(q) < VRank(LastOf(q))
      BY <2>1, <3>1, DieOrder
    <3> QED BY <1>1, <1>3, <1>8, <2>1, <2>2, <3>2 DEF Behind
  <2> QED BY <2>3, <2>4
<1> QED BY <1>1, <1>2, <1>3, <1>5, <1>6, <1>7, <1>8 DEF p, h

(* mark_block_free *)
LEMMA EraseStep ==
    ASSUME NEW s, NEW st, NEW fl, NEW w, NEW gw, NEW g, FlashAt(s, st, fl, w, gw, g),
           g \in Gcs, g.at < PgsPerLine
    PROVE  LET sp == MarkBlockFree(st, VictimPage(g.blk, g.at))
           IN  /\ FlashAt(s, sp, fl, w, gw, NextGc(g))
               /\ \A q \in Ppas : sp[q] = IF q.blk = g.blk /\ VRank(LastOf(q)) = g.at THEN "free" ELSE st[q]
<1> DEFINE p == VictimPage(g.blk, g.at)
           h == NextGc(g)
           sp == MarkBlockFree(st, p)
<1>1. /\ h \in Gcs /\ h.blk = g.blk /\ h.at = g.at + 1 /\ g.at \in Nat /\ g.blk \in Lines
      /\ p \in Ppas /\ p.blk = g.blk
      /\ \A q \in Ppas : q.blk = g.blk =>
            (p.pg = PgsPerBlk - 1 /\ q.ch = p.ch /\ q.lun = p.lun <=> VRank(LastOf(q)) = g.at)
  BY VisitFacts
<1>2. /\ st \in [Ppas -> Statuses] /\ ListsAt(s, fl, w, gw, g) /\ CountsAt(s, st, g)
      /\ FreeAt(s, st, w, gw, g) /\ fl \in Seq(Lines) /\ w \in Ppas /\ gw \in Ppas
  BY DEF FlashAt
<1>3. /\ \A q \in Ppas : sp[q] = IF p.pg = PgsPerBlk - 1 /\ q.blk = p.blk /\ q.ch = p.ch /\ q.lun = p.lun
                                 THEN "free" ELSE st[q]
      /\ sp \in [Ppas -> Statuses]
  <2>1. "free" \in Statuses
    BY DEF Statuses
  <2> HIDE DEF p
  <2>2. CASE p.pg = PgsPerBlk - 1
    BY <1>2, <2>1, <2>2 DEF MarkBlockFree
  <2>3. CASE p.pg # PgsPerBlk - 1
    BY <1>2, <2>1, <2>3 DEF MarkBlockFree
  <2> QED BY <2>2, <2>3
<1> HIDE DEF p, h, sp
<1>4. \A q \in Ppas : sp[q] = IF q.blk = g.blk /\ VRank(LastOf(q)) = g.at THEN "free" ELSE st[q]
  BY <1>1, <1>3
<1>5. ListsAt(s, fl, w, gw, h)
  BY <1>1, <1>2 DEF ListsAt
<1>6. CountsAt(s, sp, h)
  <2>1. ASSUME NEW c \in Lines, c # g.blk, NEW v PROVE PagesIn(sp, c, v) = PagesIn(st, c, v)
    BY <1>4, <2>1 DEF PagesIn
  <2> QED BY <1>1, <1>2, <2>1 DEF CountsAt
<1>7. FreeAt(s, sp, w, gw, h)
  <2> SUFFICES ASSUME NEW q \in Ppas
               PROVE  sp[q] = "free" <=>
                        \/ s.line[q.blk].on = "free"
                        \/ q.blk = w.blk /\ Rank(q) >= Rank(w)
                        \/ q.blk = gw.blk /\ Rank(q) >= Rank(gw)
                        \/ q.blk = h.blk /\ VRank(LastOf(q)) < h.at
    BY DEF FreeAt
  <2>1. st[q] = "free" <=>
          \/ s.line[q.blk].on = "free"
          \/ q.blk = w.blk /\ Rank(q) >= Rank(w)
          \/ q.blk = gw.blk /\ Rank(q) >= Rank(gw)
          \/ q.blk = g.blk /\ VRank(LastOf(q)) < g.at
    BY <1>2 DEF FreeAt
  <2>2. VRank(LastOf(q)) \in Nat
    BY LastFacts
  <2>3. VRank(LastOf(q)) < g.at + 1 <=> VRank(LastOf(q)) < g.at \/ VRank(LastOf(q)) = g.at
    BY <1>1, <2>2
  <2> QED BY <1>1, <1>4, <2>1, <2>3
<1>8. FlashAt(s, sp, fl, w, gw, h)
  BY <1>1, <1>2, <1>3, <1>5, <1>6, <1>7 DEF FlashAt
<1> QED BY <1>4, <1>8 DEF sp, p, h

(* mark_line_free *)
Emptied(s, b) == WithOn(WithIpc(WithVpc(s, b, 0), b, 0), b, "free")

LEMMA EmptiedFacts ==
    ASSUME NEW s, QOk(s), NEW b \in Lines, ~Queued(s, b)
    PROVE  LET t == Emptied(s, b)
           IN  /\ QOk(t) /\ t.line[b].vpc = 0 /\ t.line[b].ipc = 0 /\ t.line[b].on = "free"
               /\ t.heap = s.heap /\ t.line[b].pos = s.line[b].pos
               /\ \A c \in Lines : Queued(t, c) <=> Queued(s, c)
               /\ \A c \in Lines : c # b => t.line[c] = s.line[c]
<1> DEFINE u == WithVpc(s, b, 0)
           v == WithIpc(u, b, 0)
           t == WithOn(v, b, "free")
<1>1. s \in QRec /\ 0 \in Int /\ "free" \in Lists
  BY QTypes DEF Lists
<1>2. Edited(s, u, b, 0, s.line[b].ipc, s.line[b].pos, s.line[b].on)
  BY <1>1, EditFacts
<1> HIDE DEF u
<1>3. Edited(u, v, b, u.line[b].vpc, 0, u.line[b].pos, u.line[b].on)
  BY <1>1, <1>2, EditFacts DEF Edited
<1> HIDE DEF v
<1>4. Edited(v, t, b, v.line[b].vpc, v.line[b].ipc, v.line[b].pos, "free")
  BY <1>1, <1>3, EditFacts DEF Edited
<1>5. t = Emptied(s, b)
  BY DEF Emptied, u, v
<1> HIDE DEF t
<1>6. /\ u.heap = s.heap /\ u.line[b].vpc = 0 /\ u.line[b].pos = s.line[b].pos
      /\ \A c \in Lines : c # b => u.line[c] = s.line[c]
  BY <1>2 DEF Edited
<1>7. /\ v.heap = s.heap /\ v.line[b].vpc = 0 /\ v.line[b].ipc = 0 /\ v.line[b].pos = s.line[b].pos
      /\ \A c \in Lines : c # b => v.line[c] = s.line[c]
  BY <1>3, <1>6 DEF Edited
<1>8. /\ t \in QRec /\ t.heap = s.heap /\ t.line[b].vpc = 0 /\ t.line[b].ipc = 0
      /\ t.line[b].pos = s.line[b].pos /\ t.line[b].on = "free"
      /\ \A c \in Lines : c # b => t.line[c] = s.line[c]
  BY <1>4, <1>7 DEF Edited
<1>9. Harmless(s, t)
  BY <1>8 DEF Harmless
<1>10. QOk(t) /\ \A c \in Lines : Queued(t, c) <=> Queued(s, c)
  BY <1>9, HarmlessOk
<1> QED BY <1>5, <1>8, <1>10

(* The last block of the victim has been erased: all its pages are free. *)
LEMMA FinishStep ==
    ASSUME NEW s, NEW st, NEW fl, NEW w, NEW gw, NEW g, FlashAt(s, st, fl, w, gw, g),
           g \in Gcs, g.at = PgsPerLine
    PROVE  FlashAt(Emptied(s, g.blk), st, Append(fl, g.blk), w, gw, NoGc)
<1> DEFINE b == g.blk
           t == Emptied(s, b)
           f == Append(fl, b)
           n == Len(fl)
<1>1. /\ st \in [Ppas -> Statuses] /\ ListsAt(s, fl, w, gw, g) /\ CountsAt(s, st, g)
      /\ FreeAt(s, st, w, gw, g) /\ QOk(s) /\ fl \in Seq(Lines) /\ w \in Ppas /\ gw \in Ppas
  BY DEF FlashAt, ListsAt
<1>2. b \in Lines
  BY DEF Gcs
<1>3. s.line[b].on = "gc" /\ ~Queued(s, b) /\ b # w.blk /\ b # gw.blk /\ ~\E i \in 1..n : fl[i] = b
  <2>1. s.line[b].on = "gc"
    BY <1>1, <1>2 DEF ListsAt
  <2> QED BY <1>1, <1>2, <2>1 DEF ListsAt
<1>4. /\ QOk(t) /\ t.line[b].vpc = 0 /\ t.line[b].ipc = 0 /\ t.line[b].on = "free"
      /\ \A c \in Lines : Queued(t, c) <=> Queued(s, c)
      /\ \A c \in Lines : c # b => t.line[c] = s.line[c]
  <2> HIDE DEF b
  <2> QED BY <1>1, <1>2, <1>3, EmptiedFacts
<1>5. /\ f \in Seq(Lines) /\ Len(f) = n + 1 /\ n \in Nat /\ f[n + 1] = b
      /\ \A i \in 1..n : f[i] = fl[i]
  <2> HIDE DEF b
  <2> QED BY <1>1, <1>2, AppendProperties, LenProperties
<1>6. \A q \in Ppas : q.blk = b => st[q] = "free"
  <2> SUFFICES ASSUME NEW q \in Ppas, q.blk = b PROVE st[q] = "free"
    OBVIOUS
  <2>1. VRank(LastOf(q)) < g.at
    BY LastFacts, LineSize
  <2> QED BY <1>1, <2>1 DEF FreeAt
<1> HIDE DEF t, f, n, b
<1>7. \A c \in Lines : (\E i \in 1..Len(f) : f[i] = c) <=> (\E i \in 1..n : fl[i] = c) \/ c = b
  <2> SUFFICES ASSUME NEW c \in Lines
               PROVE  (\E i \in 1..Len(f) : f[i] = c) <=> (\E i \in 1..n : fl[i] = c) \/ c = b
    OBVIOUS
  <2>1. ASSUME NEW i \in 1..Len(f), f[i] = c PROVE (\E j \in 1..n : fl[j] = c) \/ c = b
    <3>1. i \in 1..n \/ i = n + 1
      BY <1>5
    <3> QED BY <1>5, <2>1, <3>1
  <2>2. ASSUME NEW i \in 1..n, fl[i] = c PROVE \E j \in 1..Len(f) : f[j] = c
    <3>1. i \in 1..Len(f) /\ f[i] = c
      BY <1>5, <2>2
    <3> QED BY <3>1
  <2>3. ASSUME c = b PROVE \E j \in 1..Len(f) : f[j] = c
    <3>1. n + 1 \in 1..Len(f) /\ f[n + 1] = c
      BY <1>5, <2>3
    <3> QED BY <3>1
  <2> QED BY <2>1, <2>2, <2>3
<1>8. ListsAt(t, f, w, gw, NoGc)
  <2>1. \A i, j \in 1..Len(f) : f[i] = f[j] => i = j
    <3> SUFFICES ASSUME NEW i \in 1..Len(f), NEW j \in 1..Len(f), f[i] = f[j] PROVE i = j
      OBVIOUS
    <3>1. (i \in 1..n \/ i = n + 1) /\ (j \in 1..n \/ j = n + 1)
      BY <1>5
    <3>2. \A k, m \in 1..n : fl[k] = fl[m] => k = m
      BY <1>1 DEF ListsAt, n
    <3> QED BY <1>3, <1>5, <3>1, <3>2
  <2>2. ASSUME NEW c \in Lines
        PROVE  /\ Queued(t, c) <=> t.line[c].on = "victim"
               /\ t.line[c].on = "free" <=> \E i \in 1..Len(f) : f[i] = c
               /\ t.line[c].on = "open" <=> c = w.blk \/ c = gw.blk
               /\ t.line[c].on = "gc" <=> c = NoGc.blk
    <3>1. /\ Queued(s, c) <=> s.line[c].on = "victim"
          /\ s.line[c].on = "free" <=> \E i \in 1..n : fl[i] = c
          /\ s.line[c].on = "open" <=> c = w.blk \/ c = gw.blk
          /\ s.line[c].on = "gc" <=> c = b
      BY <1>1 DEF ListsAt, n, b
    <3>2. c # NoGc.blk
      BY NoGcFacts
    <3>3. CASE c = b
      <4>1. t.line[c].on = "free" /\ ~Queued(t, c)
        BY <1>3, <1>4, <3>3
      <4> QED BY <1>3, <1>7, <3>2, <3>3, <4>1
    <3>4. CASE c # b
      <4>1. t.line[c] = s.line[c] /\ (Queued(t, c) <=> Queued(s, c))
        BY <1>4, <3>4
      <4> QED BY <1>7, <3>1, <3>2, <3>4, <4>1
    <3> QED BY <3>3, <3>4
  <2> QED BY <1>1, <1>4, <2>1, <2>2 DEF ListsAt
<1>9. CountsAt(t, st, NoGc)
  <2> SUFFICES ASSUME NEW c \in Lines
               PROVE  /\ t.line[c].vpc = Cardinality(PagesIn(st, c, "valid"))
                      /\ t.line[c].ipc = Cardinality(PagesIn(st, c, "invalid"))
                      /\ t.line[c].on = "full" => t.line[c].vpc = PgsPerLine
                      /\ t.line[c].on = "victim" => t.line[c].ipc > 0
    BY DEF CountsAt
  <2>1. CASE c = b
    <3>1. PagesIn(st, c, "valid") = {} /\ PagesIn(st, c, "invalid") = {}
      BY <1>6, <2>1 DEF PagesIn
    <3> QED BY <1>4, <2>1, <3>1, FS_EmptySet
  <2>2. CASE c # b
    BY <1>1, <1>4, <2>2 DEF CountsAt, b
  <2> QED BY <2>1, <2>2
<1>10. FreeAt(t, st, w, gw, NoGc)
  <2> SUFFICES ASSUME NEW q \in Ppas
               PROVE  st[q] = "free" <=>
                        \/ t.line[q.blk].on = "free"
                        \/ q.blk = w.blk /\ Rank(q) >= Rank(w)
                        \/ q.blk = gw.blk /\ Rank(q) >= Rank(gw)
                        \/ q.blk = NoGc.blk /\ VRank(LastOf(q)) < NoGc.at
    BY DEF FreeAt
  <2>1. q.blk \in Lines /\ q.blk # NoGc.blk
    BY PpaFields, NoGcFacts
  <2>2. CASE q.blk = b
    BY <1>4, <1>6, <2>2
  <2>3. CASE q.blk # b
    <3>1. st[q] = "free" <=>
            \/ s.line[q.blk].on = "free"
            \/ q.blk = w.blk /\ Rank(q) >= Rank(w)
            \/ q.blk = gw.blk /\ Rank(q) >= Rank(gw)
      BY <1>1, <2>3 DEF FreeAt, b
    <3> QED BY <1>4, <2>1, <2>3, <3>1
  <2> QED BY <2>2, <2>3
<1>11. FlashAt(t, st, f, w, gw, NoGc)
  BY <1>1, <1>5, <1>8, <1>9, <1>10 DEF FlashAt
<1> QED BY <1>11 DEF t, f, b

-----------------------------------------------------------------------------
(* Why a write that finds no victim still leaves room: with nothing to     *)
(* collect every closed line is full of valid pages, and the namespace has *)
(* no more pages than all but four lines can hold.                         *)

LEMMA ListSize ==
    ASSUME NEW fl \in Seq(Lines), \A i, j \in 1..Len(fl) : fl[i] = fl[j] => i = j,
           NEW F, F = {fl[i] : i \in 1..Len(fl)}
    PROVE  IsFiniteSet(F) /\ Cardinality(F) = Len(fl)
<1> DEFINE n == Len(fl)
           I == 1..n
           f == [i \in I |-> fl[i]]
<1>1. n \in Nat
  BY LenProperties
<1>2. IsFiniteSet(I) /\ Cardinality(I) = n
  <2>1. IsFiniteSet(1..n) /\ Cardinality(1..n) = IF 1 > n THEN 0 ELSE n - 1 + 1
    <3> HIDE DEF n
    <3> QED BY <1>1, FS_Interval
  <2> QED BY <1>1, <2>1
<1> HIDE DEF n
<1>3. f \in [I -> F] /\ \A i \in I : f[i] = fl[i]
  BY DEF n
<1>4. \A x, y \in I : f[x] = f[y] => x = y
  BY <1>3 DEF n
<1>5. \A t \in F : \E x \in I : f[x] = t
  BY <1>3 DEF n
<1> HIDE DEF I, f
<1>6. IsFiniteSet(F) /\ Cardinality(F) = Cardinality(I)
  BY <1>2, <1>3, <1>4, <1>5, CountBij
<1> QED BY <1>2, <1>6 DEF n

(* The lines that are neither free nor open. *)
LEMMA ClosedLines ==
    ASSUME NEW s, NEW st, NEW fl, NEW w, NEW gw, FlashAt(s, st, fl, w, gw, NoGc), s.heap = << >>,
           NEW C, C = {b \in Lines : s.line[b].on = "full"}
    PROVE  IsFiniteSet(C) /\ Cardinality(C) = NLines - 2 - Len(fl) /\ Len(fl) \in Nat /\ Cardinality(C) \in Nat
<1> DEFINE F == {fl[i] : i \in 1..Len(fl)}
           O == {w.blk} \cup {gw.blk}
<1>1. /\ ListsAt(s, fl, w, gw, NoGc) /\ QOk(s) /\ fl \in Seq(Lines) /\ w.blk \in Lines /\ gw.blk \in Lines
      /\ w.blk # gw.blk
  BY PpaFields DEF FlashAt, ListsAt
<1>2. IsFiniteSet(F) /\ Cardinality(F) = Len(fl) /\ Len(fl) \in Nat
  BY <1>1, ListSize, LenProperties DEF ListsAt
<1>3. IsFiniteSet(O) /\ Cardinality(O) = 2
  <2> DEFINE S == {w.blk}
             T == {gw.blk}
  <2>1. /\ IsFiniteSet(S) /\ Cardinality(S) = 1 /\ IsFiniteSet(T) /\ Cardinality(T) = 1
        /\ S \cap T = {} /\ O = S \cup T
    BY <1>1, FS_Singleton
  <2> HIDE DEF S, T, O
  <2>2. IsFiniteSet(S \cup T) /\ Cardinality(S \cup T) = 1 + 1
    BY <2>1, CountUnion
  <2> QED BY <2>1, <2>2
<1>4. \A b \in Lines : s.line[b].on = "free" <=> b \in F
  BY <1>1 DEF ListsAt
<1>5. \A b \in Lines : s.line[b].on = "open" <=> b \in O
  BY <1>1 DEF ListsAt
<1>6. \A b \in Lines : s.line[b].on \in {"free", "open", "full"}
  <2> SUFFICES ASSUME NEW b \in Lines PROVE s.line[b].on \in {"free", "open", "full"}
    OBVIOUS
  <2>1. s.line[b].on \in Lists
    BY <1>1, QTypes
  <2>2. ~Queued(s, b)
    BY DEF Queued
  <2>3. s.line[b].on # "victim" /\ s.line[b].on # "gc"
    BY <1>1, <2>2, NoGcFacts DEF ListsAt
  <2> QED BY <2>1, <2>3 DEF Lists
<1>7. F \subseteq Lines
  BY <1>1, ElementOfSeq
<1>8. O \subseteq Lines
  BY <1>1
<1> HIDE DEF F, O
<1>9. F \cap O = {} /\ C \cap (F \cup O) = {} /\ Lines = C \cup (F \cup O) /\ C \subseteq Lines
  BY <1>4, <1>5, <1>6, <1>7, <1>8
<1>10. IsFiniteSet(Lines) /\ Cardinality(Lines) = NLines
  <2> DEFINE m == NLines - 1
  <2>1. m \in Int /\ 0 \in Int /\ ~(0 > m) /\ m - 0 + 1 = NLines
    BY FtlConsts
  <2>2. IsFiniteSet(0..m) /\ Cardinality(0..m) = IF 0 > m THEN 0 ELSE m - 0 + 1
    <3> HIDE DEF m
    <3> QED BY <2>1, FS_Interval
  <2> QED BY <2>1, <2>2 DEF Lines
<1>11. IsFiniteSet(C) /\ Cardinality(C) \in Nat
  BY <1>9, <1>10, FS_Subset, FS_CardinalityType
<1>12. IsFiniteSet(F \cup O) /\ Cardinality(F \cup O) = Len(fl) + 2
  BY <1>2, <1>3, <1>9, CountUnion
<1>13. Cardinality(Lines) = Cardinality(C) + (Len(fl) + 2)
  <2> DEFINE D == F \cup O
  <2>1. C \cap D = {} /\ Lines = C \cup D /\ IsFiniteSet(D) /\ Cardinality(D) = Len(fl) + 2
    BY <1>9, <1>12
  <2> HIDE DEF D
  <2>2. Cardinality(C \cup D) = Cardinality(C) + Cardinality(D)
    BY <1>11, <2>1, CountUnion
  <2> QED BY <2>1, <2>2
<1> QED BY <1>2, <1>10, <1>11, <1>13, FtlConsts

(* The pages of full lines hold as many logical pages. *)
LEMMA FullPages ==
    ASSUME NEW s, NEW st, NEW fl, NEW w, NEW gw, FlashAt(s, st, fl, w, gw, NoGc), s.heap = << >>,
           NEW mt, NEW rm, MapsAt(mt, rm, st, NoGc),
           NEW X, IsFiniteSet(X),
           \A l \in Lpns : mt[l] # Unmapped /\ s.line[mt[l].blk].on = "full" => l \in X
    PROVE  (NLines - 2 - Len(fl)) * PgsPerLine <= Cardinality(X)
<1> DEFINE C == {b \in Lines : s.line[b].on = "full"}
           K == 0..(PgsPerLine - 1)
           f == [e \in C \X K |-> rm[VictimPage(e[1], e[2])]]
<1>1. IsFiniteSet(C) /\ Cardinality(C) = NLines - 2 - Len(fl) /\ Cardinality(C) \in Nat
  BY ClosedLines
<1>2. IsFiniteSet(K) /\ Cardinality(K) = PgsPerLine
  <2> DEFINE n == PgsPerLine - 1
  <2>1. n \in Int /\ 0 \in Int /\ ~(0 > n) /\ n - 0 + 1 = PgsPerLine
    BY LineSize
  <2>2. Cardinality(0..n) = (IF 0 > n THEN 0 ELSE n - 0 + 1) /\ IsFiniteSet(0..n)
    <3> HIDE DEF n
    <3> QED BY <2>1, FS_Interval
  <2> QED BY <2>1, <2>2
<1>3. ASSUME NEW b \in C, NEW k \in K
      PROVE  LET p == VictimPage(b, k)
             IN  p \in Ppas /\ p.blk = b /\ VRank(p) = k /\ rm[p] \in X /\ mt[rm[p]] = p
  <2> DEFINE p == VictimPage(b, k)
  <2>1. b \in Lines /\ s.line[b].on = "full"
    OBVIOUS
  <2>2. p \in Ppas /\ p.blk = b /\ VRank(p) = k
    BY <2>1, VictimPageFacts
  <2> HIDE DEF p
  <2>3. st[p] = "valid"
    <3> DEFINE V == PagesIn(st, b, "valid")
               A == LinePages(b)
    <3>1. Cardinality(V) = PgsPerLine
      BY <2>1, NoGcFacts DEF FlashAt, CountsAt
    <3>2. V \in SUBSET A /\ IsFiniteSet(A) /\ Cardinality(A) = PgsPerLine
      BY <2>1, LineCount DEF PagesIn, LinePages
    <3>3. p \in A
      BY <2>2 DEF LinePages
    <3>4. V = A
      <4> HIDE DEF V, A
      <4> QED BY <3>1, <3>2, FS_Subset
    <3> QED BY <3>3, <3>4 DEF PagesIn
  <2>4. rm[p] \in Lpns /\ mt[rm[p]] = p
    <3>1. ~Behind(p, NoGc)
      BY <2>1, <2>2, NoGcFacts DEF Behind
    <3> QED BY <2>2, <2>3, <3>1 DEF MapsAt
  <2>5. p # Unmapped
    BY <2>2, FtlConsts
  <2>6. rm[p] \in X
    BY <2>1, <2>2, <2>4, <2>5
  <2> QED BY <2>2, <2>4, <2>6 DEF p
<1> HIDE DEF C, K
<1>4. f \in [C \X K -> X] /\ \A e \in C \X K : f[e] = rm[VictimPage(e[1], e[2])]
  BY <1>3
<1> HIDE DEF f
<1>5. \A x, y \in C \X K : f[x] = f[y] => x = y
  <2> SUFFICES ASSUME NEW x \in C \X K, NEW y \in C \X K, f[x] = f[y] PROVE x = y
    OBVIOUS
  <2>1. x[1] \in C /\ x[2] \in K /\ y[1] \in C /\ y[2] \in K /\ x = <<x[1], x[2]>> /\ y = <<y[1], y[2]>>
    OBVIOUS
  <2>2. VictimPage(x[1], x[2]) = VictimPage(y[1], y[2])
    BY <1>3, <1>4, <2>1
  <2>3. x[1] = y[1] /\ x[2] = y[2]
    BY <1>3, <2>1, <2>2
  <2> QED BY <2>1, <2>3
<1>6. Cardinality(C \X K) <= Cardinality(X)
  <2> DEFINE D == C \X K
  <2> HIDE DEF D
  <2>1. f \in [D -> X] /\ \A x, y \in D : f[x] = f[y] => x = y
    BY <1>4, <1>5 DEF D
  <2>2. Cardinality(D) <= Cardinality(X)
    BY <2>1, CountInj
  <2> QED BY <2>2 DEF D
<1>7. Cardinality(C \X K) = Cardinality(C) * Cardinality(K)
  BY <1>1, <1>2, FS_Product
<1> QED BY <1>1, <1>2, <1>6, <1>7

LEMMA NoVictim ==
    ASSUME NEW s, NEW st, NEW fl, NEW w, NEW gw, FlashAt(s, st, fl, w, gw, NoGc), s.heap = << >>,
           NEW mt, NEW rm, MapsAt(mt, rm, st, NoGc), Len(fl) <= 2
    PROVE  Len(fl) = 2 /\ \A l \in Lpns : mt[l] # Unmapped => s.line[mt[l].blk].on = "full"
<1> DEFINE N == PgsPerLine
           n == Len(fl)
           c == Cardinality(Lpns)
<1>1. N \in Nat \ {0} /\ NLines \in Nat /\ NLines > 4 /\ IsFiniteSet(Lpns) /\ c <= (NLines - 4) * N
  BY LineSize, FtlConsts
<1>2. n \in Nat /\ c \in Nat /\ n <= 2
  BY <1>1, FS_CardinalityType, LenProperties DEF FlashAt
<1>3. (NLines - 2 - n) * N <= c
  BY <1>1, FullPages
<1>4. ASSUME NEW l \in Lpns, mt[l] # Unmapped, s.line[mt[l].blk].on # "full"
      PROVE  (NLines - 2 - n) * N <= c - 1
  <2> DEFINE X == Lpns \ {l}
  <2>1. IsFiniteSet(X) /\ Cardinality(X) = c - 1
    BY <1>1, FS_RemoveElement
  <2>2. \A k \in Lpns : mt[k] # Unmapped /\ s.line[mt[k].blk].on = "full" => k \in X
    BY <1>4
  <2> HIDE DEF X
  <2>3. (NLines - 2 - n) * N <= Cardinality(X)
    BY <2>1, <2>2, FullPages
  <2> QED BY <2>1, <2>3
<1> HIDE DEF N, n, c
<1>5. n = 2
  <2> SUFFICES ASSUME n # 2 PROVE FALSE
    OBVIOUS
  <2> DEFINE a == NLines - 4
             d == 2 - n
  <2>1. a \in Nat /\ d \in Nat /\ d >= 1 /\ NLines - 2 - n = a + d
    BY <1>1, <1>2
  <2>2. (a + d) * N <= a * N
    BY <1>1, <1>2, <1>3, <2>1
  <2> HIDE DEF a, d
  <2>3. (a + d) * N = a * N + d * N /\ d * N >= N /\ a * N \in Nat /\ d * N \in Nat
    BY <1>1, <2>1
  <2> QED BY <1>1, <2>2, <2>3
<1>6. ASSUME NEW l \in Lpns, mt[l] # Unmapped PROVE s.line[mt[l].blk].on = "full"
  <2> SUFFICES ASSUME s.line[mt[l].blk].on # "full" PROVE FALSE
    OBVIOUS
  <2>1. (NLines - 2 - n) * N <= c - 1
    BY <1>4, <1>6
  <2>2. NLines - 2 - n = NLines - 4 /\ (NLines - 4) * N \in Int
    BY <1>1, <1>5
  <2> QED BY <1>1, <1>2, <2>1, <2>2
<1> QED BY <1>5, <1>6 DEF n

-----------------------------------------------------------------------------
(* The two maps.                                                           *)

NotBehind(g) == \A p \in Ppas : ~Behind(p, g)

LEMMA NoneBehind ==
    /\ NotBehind(NoGc)
    /\ \A b \in Lines : NotBehind(StartGc(b))
<1>1. NotBehind(NoGc)
  BY PpaFields, NoGcFacts DEF Behind, NotBehind
<1>2. ASSUME NEW b \in Lines PROVE NotBehind(StartGc(b))
  <2>1. StartGc(b).at = 0
    BY DEF StartGc
  <2> QED BY <2>1, RankRange DEF Behind, NotBehind
<1> QED BY <1>1, <1>2

LEMMA MapsSame ==
    ASSUME NEW mt, NEW rm, NEW st, NEW g, NEW h, MapsAt(mt, rm, st, g), NotBehind(g), NotBehind(h)
    PROVE  MapsAt(mt, rm, st, h)
<1>1. /\ mt \in [Lpns -> Ppas \cup {Unmapped}] /\ rm \in [Ppas -> Lpns \cup {InvalidLpn}]
      /\ \A l \in Lpns : mt[l] # Unmapped => rm[mt[l]] = l /\ st[mt[l]] = "valid" /\ mt[l] \in Ppas
      /\ \A p \in Ppas : st[p] = "valid" => rm[p] \in Lpns /\ mt[rm[p]] = p
  BY DEF MapsAt, NotBehind
<1> QED BY <1>1 DEF MapsAt, NotBehind

(* The maps after a page has been erased or only passed. *)
LEMMA MapsErase ==
    ASSUME NEW g \in Gcs, g.at < PgsPerLine, NEW mt, NEW rm, NEW st \in [Ppas -> Statuses],
           MapsAt(mt, rm, st, NextGc(g))
    PROVE  LET p == VictimPage(g.blk, g.at)
           IN  MapsAt(mt, ForgetBlock(rm, p), MarkBlockFree(st, p), NextGc(g))
<1> DEFINE p == VictimPage(g.blk, g.at)
           h == NextGc(g)
           sp == MarkBlockFree(st, p)
           rp == ForgetBlock(rm, p)
           Gone(q) == p.pg = PgsPerBlk - 1 /\ q.blk = p.blk /\ q.ch = p.ch /\ q.lun = p.lun
<1>1. /\ p \in Ppas /\ p.blk = g.blk /\ g.at \in Nat
      /\ \A q \in Ppas : q.blk = g.blk =>
            (p.pg = PgsPerBlk - 1 /\ q.ch = p.ch /\ q.lun = p.lun <=> VRank(LastOf(q)) = g.at)
      /\ \A q \in Ppas : q.blk = g.blk /\ VRank(LastOf(q)) <= g.at => Behind(q, h)
  BY VisitFacts
<1>2. /\ mt \in [Lpns -> Ppas \cup {Unmapped}] /\ rm \in [Ppas -> Lpns \cup {InvalidLpn}]
      /\ \A l \in Lpns : mt[l] # Unmapped => rm[mt[l]] = l /\ st[mt[l]] = "valid" /\ ~Behind(mt[l], h)
      /\ \A q \in Ppas : st[q] = "valid" => rm[q] \in Lpns /\ (mt[rm[q]] = q \/ Behind(q, h))
  BY DEF MapsAt
<1> HIDE DEF p, h
<1>3. \A q \in Ppas : Gone(q) => Behind(q, h)
  BY <1>1
<1>4. /\ rp \in [Ppas -> Lpns \cup {InvalidLpn}]
      /\ \A q \in Ppas : sp[q] = IF Gone(q) THEN "free" ELSE st[q]
      /\ \A q \in Ppas : rp[q] = IF Gone(q) THEN InvalidLpn ELSE rm[q]
  <2>1. CASE p.pg = PgsPerBlk - 1
    BY <1>2, <2>1 DEF MarkBlockFree, ForgetBlock
  <2>2. CASE p.pg # PgsPerBlk - 1
    BY <1>2, <2>2 DEF MarkBlockFree, ForgetBlock
  <2> QED BY <2>1, <2>2
<1> HIDE DEF sp, rp, Gone
<1>5. ASSUME NEW l \in Lpns, mt[l] # Unmapped
      PROVE  rp[mt[l]] = l /\ sp[mt[l]] = "valid" /\ ~Behind(mt[l], h)
  <2>1. mt[l] \in Ppas /\ ~Behind(mt[l], h) /\ rm[mt[l]] = l /\ st[mt[l]] = "valid"
    BY <1>2, <1>5
  <2>2. ~Gone(mt[l])
    BY <1>3, <2>1
  <2> QED BY <1>4, <2>1, <2>2
<1>6. ASSUME NEW q \in Ppas, sp[q] = "valid"
      PROVE  rp[q] \in Lpns /\ (mt[rp[q]] = q \/ Behind(q, h))
  <2>1. ~Gone(q)
    BY <1>4, <1>6
  <2>2. st[q] = "valid" /\ rp[q] = rm[q]
    BY <1>4, <1>6, <2>1
  <2> QED BY <1>2, <2>2
<1>7. MapsAt(mt, rp, sp, h)
  BY <1>2, <1>4, <1>5, <1>6 DEF MapsAt
<1> QED BY <1>7 DEF rp, sp, h, p

(* gc_write_page on the maps: the page at x takes the place of p. *)
LEMMA MapsCopy ==
    ASSUME NEW g \in Gcs, g.at < PgsPerLine, NEW mt, NEW rm, NEW st \in [Ppas -> Statuses],
           MapsAt(mt, rm, st, g), NEW p, p = VictimPage(g.blk, g.at), st[p] = "valid",
           NEW x \in Ppas, st[x] = "free", x.blk # g.blk
    PROVE  /\ rm[p] \in Lpns
           /\ MapsAt([mt EXCEPT ![rm[p]] = x], [rm EXCEPT ![x] = rm[p]], SetPage(st, x, "valid"), NextGc(g))
<1> DEFINE h == NextGc(g)
           l == rm[p]
           mp == [mt EXCEPT ![l] = x]
           rp == [rm EXCEPT ![x] = l]
           sp == SetPage(st, x, "valid")
<1>1. /\ h.blk = g.blk /\ p \in Ppas /\ p.blk = g.blk /\ ~Behind(p, g)
      /\ \A q \in Ppas : Behind(q, h) <=> Behind(q, g) \/ q = p
  BY VisitFacts
<1>2. /\ mt \in [Lpns -> Ppas \cup {Unmapped}] /\ rm \in [Ppas -> Lpns \cup {InvalidLpn}]
      /\ \A k \in Lpns : mt[k] # Unmapped => rm[mt[k]] = k /\ st[mt[k]] = "valid" /\ ~Behind(mt[k], g)
      /\ \A q \in Ppas : st[q] = "valid" => rm[q] \in Lpns /\ (mt[rm[q]] = q \/ Behind(q, g))
  BY DEF MapsAt
<1>3. l \in Lpns /\ mt[l] = p /\ p # x
  BY <1>1, <1>2
<1>4. \A q \in Ppas : sp[q] = IF q = x THEN "valid" ELSE st[q]
  BY DEF SetPage
<1>5. ~Behind(x, h)
  BY <1>1 DEF Behind
<1> HIDE DEF h, l, sp
<1>6. /\ mp \in [Lpns -> Ppas \cup {Unmapped}] /\ \A k \in Lpns : mp[k] = IF k = l THEN x ELSE mt[k]
      /\ rp \in [Ppas -> Lpns \cup {InvalidLpn}] /\ \A q \in Ppas : rp[q] = IF q = x THEN l ELSE rm[q]
  BY <1>2, <1>3
<1> HIDE DEF mp, rp
<1>7. ASSUME NEW k \in Lpns, mp[k] # Unmapped
      PROVE  rp[mp[k]] = k /\ sp[mp[k]] = "valid" /\ ~Behind(mp[k], h)
  <2>1. CASE k = l
    BY <1>4, <1>5, <1>6, <2>1
  <2>2. CASE k # l
    <3>1. mp[k] = mt[k] /\ mt[k] \in Ppas /\ rm[mt[k]] = k /\ st[mt[k]] = "valid" /\ ~Behind(mt[k], g)
      BY <1>2, <1>6, <1>7, <2>2
    <3>2. mt[k] # x /\ mt[k] # p
      BY <2>2, <3>1 DEF l
    <3> QED BY <1>1, <1>4, <1>6, <3>1, <3>2
  <2> QED BY <2>1, <2>2
<1>8. ASSUME NEW q \in Ppas, sp[q] = "valid"
      PROVE  rp[q] \in Lpns /\ (mp[rp[q]] = q \/ Behind(q, h))
  <2>1. CASE q = x
    BY <1>3, <1>6, <2>1
  <2>2. CASE q = p
    BY <1>1, <1>3, <1>6, <2>2 DEF l
  <2>3. CASE q # x /\ q # p
    <3>1. rp[q] = rm[q] /\ rm[q] \in Lpns /\ (mt[rm[q]] = q \/ Behind(q, g))
      BY <1>2, <1>4, <1>6, <1>8, <2>3
    <3>2. mt[rm[q]] = q => rm[q] # l
      BY <1>3, <2>3
    <3> QED BY <1>1, <1>6, <3>1, <3>2
  <2> QED BY <2>1, <2>2, <2>3
<1>9. MapsAt(mp, rp, sp, h)
  BY <1>6, <1>7, <1>8 DEF MapsAt
<1> QED BY <1>3, <1>9 DEF mp, rp, sp, h, l

-----------------------------------------------------------------------------
(* The actions.                                                            *)

LEMMA QEta ==
    ASSUME NEW s \in QRec
    PROVE  s = [heap |-> s.heap, line |-> s.line]
  BY DEF QRec

LEMMA FlashQueue ==
    ASSUME NEW s, NEW st, NEW fl, NEW w, NEW gw, NEW g, FlashAt(s, st, fl, w, gw, g),
           NEW q, q = [heap |-> s.heap, line |-> s.line]
    PROVE  q = s
<1>1. s \in QRec
  BY DEF FlashAt, ListsAt, QOk
<1> QED BY <1>1, QEta

LEMMA EmptyRec ==
    ASSUME NEW r \in LineRec, NEW x \in LineRec, x.vpc = 0, x.ipc = 0, x.on = "free", x.pos = r.pos
    PROVE  x = [r EXCEPT !.vpc = 0, !.ipc = 0, !.on = "free"]
<1>1. x = [vpc |-> x.vpc, ipc |-> x.ipc, pos |-> x.pos, on |-> x.on]
  BY DEF LineRec
<1>2. [r EXCEPT !.vpc = 0] = [vpc |-> 0, ipc |-> r.ipc, pos |-> r.pos, on |-> r.on]
  BY DEF LineRec
<1> DEFINE y == [vpc |-> 0, ipc |-> r.ipc, pos |-> r.pos, on |-> r.on]
<1>3. [y EXCEPT !.ipc = 0] = [vpc |-> 0, ipc |-> 0, pos |-> r.pos, on |-> r.on]
  OBVIOUS
<1> DEFINE z == [vpc |-> 0, ipc |-> 0, pos |-> r.pos, on |-> r.on]
<1>4. [z EXCEPT !.on = "free"] = [vpc |-> 0, ipc |-> 0, pos |-> r.pos, on |-> "free"]
  OBVIOUS
<1> HIDE DEF y, z
<1>5. [r EXCEPT !.vpc = 0, !.ipc = 0, !.on = "free"] = [z EXCEPT !.on = "free"]
  BY <1>2, <1>3 DEF y, z
<1> QED BY <1>1, <1>4, <1>5

LEMMA GcFinishInv ==
    ASSUME FInv, GcFinish
    PROVE  FInv'
<1> DEFINE N == PgsPerLine
           b == gc.blk
           t == Emptied(Queue, b)
<1>1. FlashAt(Queue, status, freeList, wp, gcWp, gc) /\ MapsAt(maptbl, rmap, status, gc) /\ BudgetOk
  BY DEF FInv
<1>2. gc \in Gcs /\ gc.at = N /\ gc # NoGc /\ b \in Lines
  BY <1>1 DEF FlashAt, GcFinish, Gcs
<1>3. FlashAt(t, status, Append(freeList, b), wp, gcWp, NoGc)
  BY <1>1, <1>2, FinishStep
<1>4. Queue' = t
  <2>1. line' = t.line /\ heap' = t.heap
    <3>1. t.line = [line EXCEPT ![b] = [@ EXCEPT !.vpc = 0, !.ipc = 0, !.on = "free"]] /\ t.heap = heap
      <4>1. Queue \in QRec /\ QOk(Queue) /\ Queue.line = line /\ Queue.heap = heap
        BY <1>1 DEF FlashAt, ListsAt, QOk, Queue
      <4>2. ~Queued(Queue, b)
        BY <1>1, <1>2 DEF FlashAt, ListsAt
      <4>3. /\ QOk(t) /\ t.line[b].vpc = 0 /\ t.line[b].ipc = 0 /\ t.line[b].on = "free"
            /\ t.heap = heap /\ t.line[b].pos = line[b].pos
            /\ \A c \in Lines : c # b => t.line[c] = line[c]
        <5> HIDE DEF b
        <5> QED BY <1>2, <4>1, <4>2, EmptiedFacts
      <4>4. t.line \in [Lines -> LineRec] /\ line \in [Lines -> LineRec]
        BY <4>1, <4>3 DEF QOk, QRec
      <4> HIDE DEF t, b
      <4>5. t.line[b] = [line[b] EXCEPT !.vpc = 0, !.ipc = 0, !.on = "free"]
        <5> DEFINE r == line[b]
                   x == t.line[b]
        <5>1. r \in LineRec /\ x \in LineRec /\ x.vpc = 0 /\ x.ipc = 0 /\ x.on = "free" /\ x.pos = r.pos
          BY <1>2, <4>3, <4>4
        <5> HIDE DEF r, x
        <5>2. x = [r EXCEPT !.vpc = 0, !.ipc = 0, !.on = "free"]
          BY <5>1, EmptyRec
        <5> QED BY <5>2 DEF r, x
      <4> DEFINE e == [line[b] EXCEPT !.vpc = 0, !.ipc = 0, !.on = "free"]
      <4> HIDE DEF e
      <4>6. t.line[b] = e
        BY <4>5 DEF e
      <4>7. t.line = [line EXCEPT ![b] = e]
        BY <1>2, <4>3, <4>4, <4>6
      <4> QED BY <4>3, <4>7 DEF e
    <3> QED BY <3>1 DEF GcFinish
  <2>2. Queue' = [heap |-> t.heap, line |-> t.line]
    BY <2>1 DEF Queue
  <2> HIDE DEF t
  <2> QED BY <1>3, <2>2, FlashQueue
<1>5. /\ status' = status /\ freeList' = Append(freeList, b) /\ wp' = wp /\ gcWp' = gcWp /\ gc' = NoGc
      /\ maptbl' = maptbl /\ rmap' = rmap /\ credits' = credits + refill /\ refill' = refill
  BY DEF GcFinish
<1> HIDE DEF t
<1>6. FlashAt(Queue', status', freeList', wp', gcWp', gc')
  BY <1>3, <1>4, <1>5
<1>7. MapsAt(maptbl', rmap', status', gc')
  <2>1. /\ maptbl \in [Lpns -> Ppas \cup {Unmapped}] /\ rmap \in [Ppas -> Lpns \cup {InvalidLpn}]
        /\ \A l \in Lpns : maptbl[l] # Unmapped =>
             rmap[maptbl[l]] = l /\ status[maptbl[l]] = "valid" /\ ~Behind(maptbl[l], gc)
        /\ \A p \in Ppas : status[p] = "valid" => rmap[p] \in Lpns /\ (maptbl[rmap[p]] = p \/ Behind(p, gc))
    BY <1>1 DEF MapsAt
  <2>2. ASSUME NEW p \in Ppas, p.blk = b PROVE status[p] = "free"
    <3>1. VRank(LastOf(p)) < gc.at
      BY <1>2, LastFacts, LineSize
    <3> QED BY <1>1, <2>2, <3>1 DEF FlashAt, FreeAt
  <2>3. \A p \in Ppas : status[p] = "valid" => ~Behind(p, gc)
    BY <2>2 DEF Behind
  <2>4. \A p \in Ppas : ~Behind(p, NoGc)
    BY NoneBehind DEF NotBehind
  <2>5. MapsAt(maptbl, rmap, status, NoGc)
    BY <2>1, <2>3, <2>4 DEF MapsAt
  <2> QED BY <1>5, <2>5
<1>8. BudgetOk'
  <2>1. credits = 0 /\ refill \in 1..N /\ N \in Nat /\ Cardinality(ToCopy(status, gc)) \in Nat
    <3>1. ToCopy(status, gc) \in SUBSET PagesIn(status, b, "valid")
      BY DEF ToCopy, PagesIn
    <3>2. IsFiniteSet(PagesIn(status, b, "valid"))
      BY <1>2, PagesFinite
    <3>3. Cardinality(ToCopy(status, gc)) \in Nat
      BY <3>1, <3>2, FS_Subset, FS_CardinalityType
    <3> QED BY <1>1, <1>2, <3>3, LineSize DEF BudgetOk
  <2>2. Room(freeList, wp, gcWp) >= N + refill + Cardinality(ToCopy(status, gc))
    BY <1>1, <1>2 DEF BudgetOk
  <2>3. Room(freeList', wp', gcWp') = Room(freeList, wp, gcWp) + N /\ Room(freeList, wp, gcWp) \in Int
    <3> DEFINE n == Len(freeList)
               x == N - Rank(wp)
               y == N - Rank(gcWp)
    <3>1. n \in Nat /\ x \in Int /\ y \in Int
      BY <1>1, <2>1, RankRange, LenProperties DEF FlashAt
    <3>2. Len(Append(freeList, b)) = n + 1
      BY <1>1, <1>2, AppendProperties DEF FlashAt
    <3>3. Room(freeList, wp, gcWp) = N * n + x + y /\ Room(freeList', wp', gcWp') = N * (n + 1) + x + y
      BY <1>5, <3>2 DEF Room
    <3> HIDE DEF n, x, y, N
    <3>4. N * (n + 1) = N * n + N /\ N * n \in Int
      BY <2>1, <3>1
    <3> QED BY <2>1, <3>1, <3>3, <3>4
  <2> DEFINE R == Room(freeList, wp, gcWp)
             S == Room(freeList', wp', gcWp')
             k == Cardinality(ToCopy(status, gc))
  <2> HIDE DEF R, S, k, N
  <2>4. credits' \in Nat /\ refill' \in 1..N /\ credits' >= 1 /\ S >= credits' + 2 * N
    BY <1>5, <2>1, <2>2, <2>3 DEF R, S, k
  <2> QED BY <1>5, <2>4 DEF BudgetOk, S, N
<1> QED BY <1>6, <1>7, <1>8 DEF FInv

(* What is left to copy. *)
LEMMA ToCopyFacts ==
    ASSUME NEW st, NEW g \in Gcs
    PROVE  IsFiniteSet(ToCopy(st, g)) /\ Cardinality(ToCopy(st, g)) \in Nat
<1>1. g.blk \in Lines
  BY DEF Gcs
<1>2. ToCopy(st, g) \in SUBSET PagesIn(st, g.blk, "valid")
  BY DEF ToCopy, PagesIn
<1>3. IsFiniteSet(PagesIn(st, g.blk, "valid"))
  BY <1>1, PagesFinite
<1> QED BY <1>2, <1>3, FS_Subset, FS_CardinalityType

LEMMA GcPassInv ==
    ASSUME FInv, GcPass
    PROVE  FInv'
<1> DEFINE N == PgsPerLine
           p == VictimPage(gc.blk, gc.at)
           h == NextGc(gc)
<1>1. FlashAt(Queue, status, freeList, wp, gcWp, gc) /\ MapsAt(maptbl, rmap, status, gc) /\ BudgetOk
  BY DEF FInv
<1>2. gc \in Gcs /\ gc.at < N /\ gc # NoGc /\ status[p] # "valid" /\ status \in [Ppas -> Statuses]
  BY <1>1 DEF FlashAt, GcPass
<1>3. /\ h \in Gcs /\ h.blk = gc.blk /\ h.at = gc.at + 1 /\ gc.at \in Nat
      /\ p \in Ppas /\ \A q \in Ppas : Behind(q, h) <=> Behind(q, gc) \/ q = p
  BY <1>2, VisitFacts
<1>4. /\ status' = MarkBlockFree(status, p) /\ rmap' = ForgetBlock(rmap, p) /\ gc' = h
      /\ maptbl' = maptbl /\ freeList' = freeList /\ wp' = wp /\ gcWp' = gcWp
      /\ credits' = credits /\ refill' = refill /\ Queue' = Queue
  BY DEF GcPass, NextGc, Queue
<1>5. /\ FlashAt(Queue, MarkBlockFree(status, p), freeList, wp, gcWp, h)
      /\ \A q \in Ppas : MarkBlockFree(status, p)[q] =
            IF q.blk = gc.blk /\ VRank(LastOf(q)) = gc.at THEN "free" ELSE status[q]
  BY <1>1, <1>2, EraseStep
<1>6. MapsAt(maptbl', rmap', status', gc')
  <2>1. MapsAt(maptbl, rmap, status, h)
    <3> HIDE DEF h, p
    <3>1. /\ maptbl \in [Lpns -> Ppas \cup {Unmapped}] /\ rmap \in [Ppas -> Lpns \cup {InvalidLpn}]
          /\ \A l \in Lpns : maptbl[l] # Unmapped =>
               rmap[maptbl[l]] = l /\ status[maptbl[l]] = "valid" /\ ~Behind(maptbl[l], gc)
          /\ \A q \in Ppas : status[q] = "valid" =>
               rmap[q] \in Lpns /\ (maptbl[rmap[q]] = q \/ Behind(q, gc))
      BY <1>1 DEF MapsAt
    <3>2. ASSUME NEW l \in Lpns, maptbl[l] # Unmapped PROVE ~Behind(maptbl[l], h)
      <4>1. maptbl[l] \in Ppas /\ maptbl[l] # p /\ ~Behind(maptbl[l], gc)
        BY <1>2, <3>1, <3>2
      <4> QED BY <1>3, <4>1
    <3> QED BY <1>3, <3>1, <3>2 DEF MapsAt
  <2>2. MapsAt(maptbl, ForgetBlock(rmap, p), MarkBlockFree(status, p), h)
    BY <1>2, <2>1, MapsErase
  <2> QED BY <1>4, <2>2
<1> HIDE DEF h, p
<1>7. BudgetOk'
  <2> DEFINE A == ToCopy(status, gc)
             B == ToCopy(status', gc')
  <2>1. B \in SUBSET A
    <3> SUFFICES ASSUME NEW q \in Ppas, q.blk = h.blk, status'[q] = "valid", VRank(q) >= h.at
                 PROVE  status[q] = "valid" /\ VRank(q) >= gc.at
      BY <1>3, <1>4 DEF ToCopy
    <3>1. status[q] = "valid"
      BY <1>4, <1>5
    <3> QED BY <1>3, <3>1, RankRange
  <2>2. IsFiniteSet(A) /\ Cardinality(A) \in Nat /\ Cardinality(B) \in Nat
    BY <1>2, <1>3, <1>4, ToCopyFacts
  <2>3. Cardinality(B) <= Cardinality(A)
    <3> HIDE DEF A, B
    <3> QED BY <2>1, <2>2, FS_Subset
  <2>4. gc' # NoGc
    BY <1>3, <1>4, NoGcFacts
  <2> DEFINE R == Room(freeList, wp, gcWp)
             a == Cardinality(A)
             k == Cardinality(B)
  <2>5. R >= N + refill + a /\ R \in Int /\ N \in Nat /\ credits = 0 /\ refill \in 1..N
    <3>1. R \in Int
      <4>1. wp \in Ppas /\ gcWp \in Ppas /\ freeList \in Seq(Lines)
        BY <1>1 DEF FlashAt
      <4>2. Rank(wp) \in Nat /\ Rank(gcWp) \in Nat /\ Len(freeList) \in Nat /\ N \in Nat
        BY <4>1, RankRange, LenProperties, LineSize
      <4> QED BY <4>2 DEF Room
    <3> QED BY <1>1, <1>2, <3>1, LineSize DEF BudgetOk
  <2> HIDE DEF R, a, k, A, B, N
  <2>6. R >= N + refill + k
    BY <2>2, <2>3, <2>5 DEF a, k
  <2>7. Room(freeList', wp', gcWp') >= PgsPerLine + refill' + Cardinality(ToCopy(status', gc'))
    BY <1>4, <2>6 DEF R, N, k, B
  <2> QED BY <1>4, <2>4, <2>5, <2>7 DEF BudgetOk, N
<1>8. FlashAt(Queue', status', freeList', wp', gcWp', gc')
  BY <1>4, <1>5
<1> QED BY <1>6, <1>7, <1>8 DEF FInv

(* In a collection the room is enough for the pages still to be copied. *)
LEMMA GcHasLine ==
    ASSUME FInv, gc # NoGc, gc.at < PgsPerLine, status[VictimPage(gc.blk, gc.at)] = "valid", UsesUp(gcWp)
    PROVE  freeList # << >>
<1> DEFINE N == PgsPerLine
           p == VictimPage(gc.blk, gc.at)
           k == Cardinality(ToCopy(status, gc))
<1>1. FlashAt(Queue, status, freeList, wp, gcWp, gc) /\ BudgetOk /\ gc \in Gcs
  BY DEF FInv, FlashAt
<1>2. p \in Ppas /\ p.blk = gc.blk /\ VRank(p) = gc.at /\ gc.at \in Nat
  BY <1>1, VisitFacts
<1>3. k \in Nat /\ k >= 1
  <2> DEFINE A == ToCopy(status, gc)
  <2>1. IsFiniteSet(A) /\ Cardinality(A) \in Nat
    BY <1>1, ToCopyFacts
  <2>2. p \in A
    BY <1>2 DEF ToCopy
  <2> HIDE DEF A
  <2>3. Cardinality(A) # 0
    BY <2>1, <2>2, FS_EmptySet
  <2> QED BY <2>1, <2>3 DEF A
<1>4. Room(freeList, wp, gcWp) >= N + refill + k /\ refill \in 1..N /\ N \in Nat
  BY <1>1, LineSize DEF BudgetOk
<1>5. SUFFICES ASSUME freeList = << >> PROVE FALSE
  OBVIOUS
<1> DEFINE r == Rank(wp)
<1>6. Rank(gcWp) = N - 1 /\ r \in Nat
  BY <1>1, NextPageFacts, RankRange DEF FlashAt
<1>7. Len(freeList) = 0
  BY <1>5
<1>8. Room(freeList, wp, gcWp) = N * 0 + (N - r) + (N - (N - 1))
  BY <1>6, <1>7 DEF Room
<1> HIDE DEF N, r, k
<1> QED BY <1>3, <1>4, <1>6, <1>8

LEMMA GcCopyInv ==
    ASSUME FInv, GcCopy
    PROVE  FInv'
<1> DEFINE N == PgsPerLine
           p == VictimPage(gc.blk, gc.at)
           h == NextGc(gc)
           x == gcWp
           l == rmap[p]
           st == SetPage(status, x, "valid")
           s == AdvancedLines(MarkPageValid(Queue, x), x)
           mt == [maptbl EXCEPT ![l] = x]
           rm == [rmap EXCEPT ![x] = l]
<1>1. FlashAt(Queue, status, freeList, wp, x, gc) /\ MapsAt(maptbl, rmap, status, gc) /\ BudgetOk
  BY DEF FInv
<1>2. gc \in Gcs /\ gc.at < N /\ gc # NoGc /\ status[p] = "valid" /\ status \in [Ppas -> Statuses]
  BY <1>1 DEF FlashAt, GcCopy
<1>3. /\ h \in Gcs /\ h.blk = gc.blk /\ h.at = gc.at + 1 /\ gc.at \in Nat
      /\ p \in Ppas /\ p.blk = gc.blk /\ VRank(p) = gc.at
  BY <1>2, VisitFacts
<1>4. /\ status' = MarkBlockFree(st, p) /\ rmap' = ForgetBlock(rm, p) /\ gc' = h
      /\ maptbl' = mt /\ freeList' = AdvancedFree(x) /\ wp' = wp /\ gcWp' = AdvancedWp(x)
      /\ credits' = credits /\ refill' = refill /\ Queue' = [heap |-> s.heap, line |-> s.line]
  BY DEF GcCopy, NextGc, Queue, SetPage
<1>5. UsesUp(x) => freeList # << >>
  BY <1>2, GcHasLine
<1>6. FlashAt(Queue, status, freeList, x, wp, gc)
  BY <1>1, SwapPointers
<1>7. /\ x \in Ppas /\ status[x] = "free" /\ x.blk # gc.blk
  BY <1>6, PointerFacts
<1>8. FlashAt(s, st, AdvancedFree(x), AdvancedWp(x), wp, gc)
  <2>1. CASE UsesUp(x)
    BY <1>5, <1>6, <2>1, AdvanceOver
  <2>2. CASE ~UsesUp(x)
    BY <1>6, <2>2, AdvanceWithin
  <2> QED BY <2>1, <2>2
<1>9. FlashAt(s, st, AdvancedFree(x), wp, AdvancedWp(x), gc)
  BY <1>8, SwapPointers
<1>10. MapsAt(mt, rm, st, h)
  BY <1>1, <1>2, <1>7, MapsCopy
<1>11. st \in [Ppas -> Statuses] /\ \A q \in Ppas : st[q] = IF q = x THEN "valid" ELSE status[q]
  <2>1. "valid" \in Statuses
    BY DEF Statuses
  <2> QED BY <1>2, <1>7, <2>1, PageChange
<1>12. Room(AdvancedFree(x), wp, AdvancedWp(x)) = Room(freeList, wp, x) - 1 /\ Room(freeList, wp, x) \in Int
  <2>1. wp \in Ppas /\ freeList \in Seq(Lines) /\ AdvancedWp(x) \in Ppas /\ AdvancedFree(x) \in Seq(Lines)
    BY <1>1, <1>8 DEF FlashAt
  <2>2. /\ Room(freeList, x, wp) \in Int
        /\ Room(AdvancedFree(x), AdvancedWp(x), wp) = Room(freeList, x, wp) - 1
        /\ Room(freeList, wp, x) = Room(freeList, x, wp)
    <3>1. /\ Room(freeList, x, wp) \in Int
          /\ Room(AdvancedFree(x), AdvancedWp(x), wp) = Room(freeList, x, wp) - 1
      BY <1>5, <1>7, <2>1, RoomFacts
    <3>2. Room(freeList, wp, x) = Room(freeList, x, wp)
      BY <1>7, <2>1, RoomSwap
    <3> QED BY <3>1, <3>2
  <2>3. Room(AdvancedFree(x), wp, AdvancedWp(x)) = Room(AdvancedFree(x), AdvancedWp(x), wp)
    BY <2>1, RoomSwap
  <2> QED BY <2>2, <2>3
<1> HIDE DEF st, s, mt, rm, x
<1>13. /\ FlashAt(s, MarkBlockFree(st, p), AdvancedFree(x), wp, AdvancedWp(x), h)
       /\ \A q \in Ppas : MarkBlockFree(st, p)[q] =
             IF q.blk = gc.blk /\ VRank(LastOf(q)) = gc.at THEN "free" ELSE st[q]
  BY <1>2, <1>9, EraseStep
<1>14. MapsAt(mt, ForgetBlock(rm, p), MarkBlockFree(st, p), h)
  BY <1>2, <1>10, <1>11, MapsErase
<1> HIDE DEF h, p
<1>15. Queue' = s
  BY <1>4, <1>13, FlashQueue
<1>16. FlashAt(Queue', status', freeList', wp', gcWp', gc')
  BY <1>4, <1>13, <1>15
<1>17. MapsAt(maptbl', rmap', status', gc')
  BY <1>4, <1>14
<1>18. BudgetOk'
  <2> DEFINE A == ToCopy(status, gc)
             B == ToCopy(status', gc')
  <2>1. B \in SUBSET (A \ {p})
    <3> SUFFICES ASSUME NEW q \in Ppas, q.blk = h.blk, status'[q] = "valid", VRank(q) >= h.at
                 PROVE  status[q] = "valid" /\ VRank(q) >= gc.at /\ q # p
      BY <1>3, <1>4 DEF ToCopy
    <3>1. st[q] = "valid"
      BY <1>4, <1>13
    <3>2. q # x
      BY <1>3, <1>7
    <3>3. VRank(q) >= gc.at /\ q # p
      BY <1>3, RankRange
    <3> QED BY <1>11, <3>1, <3>2, <3>3
  <2>2. IsFiniteSet(A) /\ Cardinality(A) \in Nat /\ Cardinality(B) \in Nat
    BY <1>2, <1>3, <1>4, ToCopyFacts
  <2>3. p \in A
    BY <1>2, <1>3 DEF ToCopy
  <2>4. Cardinality(B) <= Cardinality(A) - 1
    <3> HIDE DEF A, B
    <3> DEFINE C == A \ {p}
    <3>1. IsFiniteSet(C) /\ Cardinality(C) = Cardinality(A) - 1
      BY <2>2, <2>3, FS_RemoveElement
    <3>2. B \in SUBSET C
      BY <2>1
    <3> HIDE DEF C
    <3>3. Cardinality(B) <= Cardinality(C)
      BY <3>1, <3>2, FS_Subset
    <3> QED BY <3>1, <3>3
  <2>5. gc' # NoGc
    BY <1>3, <1>4, NoGcFacts
  <2> DEFINE R == Room(freeList, wp, x)
             a == Cardinality(A)
             k == Cardinality(B)
  <2>6. R >= N + refill + a /\ R \in Int /\ N \in Nat /\ credits = 0 /\ refill \in 1..N
    BY <1>1, <1>2, <1>12, LineSize DEF BudgetOk, x
  <2> HIDE DEF R, a, k, A, B, N
  <2>7. R - 1 >= N + refill + k
    BY <2>2, <2>4, <2>6 DEF a, k
  <2>8. Room(freeList', wp', gcWp') >= PgsPerLine + refill' + Cardinality(ToCopy(status', gc'))
    BY <1>4, <1>12, <2>7 DEF R, N, k, B
  <2> QED BY <1>4, <2>5, <2>6, <2>8 DEF BudgetOk, N
<1> QED BY <1>16, <1>17, <1>18 DEF FInv

(* A map of pages with new entries for x and old. *)
Renewed(f, x, old, a, b) == [p \in Ppas |-> CASE p = x -> a [] p = old -> b [] OTHER -> f[p]]

LEMMA RenewedAt ==
    ASSUME NEW f, NEW x \in Ppas, NEW old, old # x, NEW a, NEW b
    PROVE  \A p \in Ppas : Renewed(f, x, old, a, b)[p] = IF p = x THEN a ELSE IF p = old THEN b ELSE f[p]
  BY DEF Renewed

(* The maps after a logical page has been written to x. *)
LEMMA MapsWrite ==
    ASSUME NEW mt, NEW rm, NEW st, MapsAt(mt, rm, st, NoGc), NEW l \in Lpns, NEW x \in Ppas, st[x] = "free"
    PROVE  /\ mt[l] # x
           /\ MapsAt([mt EXCEPT ![l] = x], Renewed(rm, x, mt[l], l, InvalidLpn),
                     Renewed(st, x, mt[l], "valid", "invalid"), NoGc)
<1> DEFINE old == mt[l]
           mp == [mt EXCEPT ![l] = x]
           rp == Renewed(rm, x, old, l, InvalidLpn)
           sp == Renewed(st, x, old, "valid", "invalid")
<1>1. /\ mt \in [Lpns -> Ppas \cup {Unmapped}] /\ rm \in [Ppas -> Lpns \cup {InvalidLpn}]
      /\ \A k \in Lpns : mt[k] # Unmapped => rm[mt[k]] = k /\ st[mt[k]] = "valid"
      /\ \A q \in Ppas : st[q] = "valid" => rm[q] \in Lpns /\ mt[rm[q]] = q
  BY NoneBehind DEF MapsAt, NotBehind
<1>2. old # x /\ Unmapped \notin Ppas
  BY <1>1, FtlConsts
<1>3. /\ mp \in [Lpns -> Ppas \cup {Unmapped}] /\ \A k \in Lpns : mp[k] = IF k = l THEN x ELSE mt[k]
  BY <1>1
<1>4. \A p \in Ppas : sp[p] = IF p = x THEN "valid" ELSE IF p = old THEN "invalid" ELSE st[p]
  BY <1>2, RenewedAt
<1>5. \A p \in Ppas : rp[p] = IF p = x THEN l ELSE IF p = old THEN InvalidLpn ELSE rm[p]
  BY <1>2 DEF Renewed
<1>6. rp \in [Ppas -> Lpns \cup {InvalidLpn}]
  <2>1. rp = [p \in Ppas |-> rp[p]]
    BY DEF Renewed
  <2> HIDE DEF rp, old
  <2>2. \A p \in Ppas : rp[p] \in Lpns \cup {InvalidLpn}
    BY <1>1, <1>5
  <2> QED BY <2>1, <2>2
<1> HIDE DEF mp, rp, sp, old
<1>7. ASSUME NEW k \in Lpns, mp[k] # Unmapped PROVE rp[mp[k]] = k /\ sp[mp[k]] = "valid" /\ mp[k] \in Ppas
  <2>1. CASE k = l
    BY <1>3, <1>4, <1>5, <2>1
  <2>2. CASE k # l
    <3>1. mp[k] = mt[k] /\ mt[k] \in Ppas /\ rm[mt[k]] = k /\ st[mt[k]] = "valid"
      BY <1>1, <1>3, <1>7, <2>2
    <3>2. mt[k] # x /\ mt[k] # old
      BY <1>1, <1>2, <2>2, <3>1 DEF old
    <3> QED BY <1>4, <1>5, <3>1, <3>2
  <2> QED BY <2>1, <2>2
<1>8. ASSUME NEW q \in Ppas, sp[q] = "valid" PROVE rp[q] \in Lpns /\ mp[rp[q]] = q
  <2>1. CASE q = x
    BY <1>3, <1>5, <2>1
  <2>2. CASE q # x
    <3>1. q # old /\ st[q] = "valid" /\ rp[q] = rm[q]
      BY <1>4, <1>5, <1>8, <2>2
    <3>2. rm[q] \in Lpns /\ mt[rm[q]] = q
      BY <1>1, <3>1
    <3>3. rm[q] # l
      BY <3>1, <3>2 DEF old
    <3> QED BY <1>3, <3>1, <3>2, <3>3
  <2> QED BY <2>1, <2>2
<1>9. MapsAt(mp, rp, sp, NoGc)
  BY <1>3, <1>6, <1>7, <1>8, NoneBehind DEF MapsAt, NotBehind
<1> QED BY <1>2, <1>9 DEF mp, rp, sp, old

LEMMA WriteHasLine ==
    ASSUME FInv, gc = NoGc, UsesUp(wp)
    PROVE  freeList # << >>
<1> DEFINE N == PgsPerLine
           r == Rank(wp)
           q == Rank(gcWp)
<1>1. /\ Room(freeList, wp, gcWp) >= credits + 2 * N /\ credits \in Nat /\ credits >= 1 /\ N \in Nat
  BY LineSize DEF FInv, BudgetOk
<1>2. r \in Nat /\ q \in Nat
  BY RankRange DEF FInv, FlashAt
<1>3. SUFFICES ASSUME freeList = << >> PROVE FALSE
  OBVIOUS
<1>4. Len(freeList) = 0
  BY <1>3
<1>5. Room(freeList, wp, gcWp) = N * 0 + (N - r) + (N - q)
  BY <1>4 DEF Room
<1> HIDE DEF N, r, q
<1> QED BY <1>1, <1>2, <1>5

(* A write, up to check_and_refill_write_credit. *)
Dropped(l) == IF maptbl[l] = Unmapped THEN Queue ELSE MarkPageInvalid(Queue, maptbl[l])
Written(l) == AdvancedLines(MarkPageValid(Dropped(l), wp), wp)

LEMMA WriteFlash ==
    ASSUME FInv, NEW l \in Lpns, gc = NoGc
    PROVE  /\ FlashAt(Written(l), Renewed(status, wp, maptbl[l], "valid", "invalid"),
                      AdvancedFree(wp), AdvancedWp(wp), gcWp, NoGc)
           /\ wp \in Ppas /\ status[wp] = "free" /\ maptbl[l] # wp
<1> DEFINE old == maptbl[l]
           st == IF old = Unmapped THEN status ELSE SetPage(status, old, "invalid")
           d == Dropped(l)
           sp == Renewed(status, wp, old, "valid", "invalid")
<1>1. FlashAt(Queue, status, freeList, wp, gcWp, NoGc) /\ MapsAt(maptbl, rmap, status, NoGc)
  BY DEF FInv
<1>2. wp \in Ppas /\ status[wp] = "free" /\ status \in [Ppas -> Statuses]
  BY <1>1, PointerFacts DEF FlashAt
<1>3. old # Unmapped => old \in Ppas /\ status[old] = "valid"
  BY <1>1 DEF MapsAt
<1>4. old # wp
  BY <1>2, <1>3, FtlConsts
<1>5. FlashAt(d, st, freeList, wp, gcWp, NoGc)
  <2>1. CASE old = Unmapped
    BY <1>1, <2>1 DEF Dropped
  <2>2. CASE old # Unmapped
    <3>1. d = MarkPageInvalid(Queue, old) /\ st = SetPage(status, old, "invalid")
      BY <2>2 DEF Dropped
    <3> HIDE DEF old, d, st
    <3> QED BY <1>1, <1>3, <2>2, <3>1, DropFacts
  <2> QED BY <2>1, <2>2
<1>6. UsesUp(wp) => freeList # << >>
  BY WriteHasLine
<1> HIDE DEF d, st
<1>7. FlashAt(AdvancedLines(MarkPageValid(d, wp), wp), SetPage(st, wp, "valid"),
              AdvancedFree(wp), AdvancedWp(wp), gcWp, NoGc)
  <2>1. CASE UsesUp(wp)
    BY <1>5, <1>6, <2>1, AdvanceOver
  <2>2. CASE ~UsesUp(wp)
    BY <1>5, <2>2, AdvanceWithin
  <2> QED BY <2>1, <2>2
<1>8. SetPage(st, wp, "valid") = sp
  <2>1. st \in [Ppas -> Statuses] /\ "valid" \in Statuses
    BY <1>5 DEF FlashAt, Statuses
  <2>2. \A p \in Ppas : st[p] = IF p = old THEN "invalid" ELSE status[p]
    <3>1. CASE old = Unmapped
      <4>1. \A p \in Ppas : p # old
        BY <3>1, FtlConsts
      <4> QED BY <3>1, <4>1 DEF st
    <3>2. CASE old # Unmapped
      BY <1>2, <1>3, <3>2 DEF st, SetPage
    <3> QED BY <3>1, <3>2
  <2>3. \A p \in Ppas : sp[p] = IF p = wp THEN "valid" ELSE IF p = old THEN "invalid" ELSE status[p]
    BY <1>2, <1>4, RenewedAt
  <2>4. sp = [p \in Ppas |-> sp[p]]
    BY DEF Renewed
  <2> DEFINE u == SetPage(st, wp, "valid")
  <2>5. u \in [Ppas -> Statuses] /\ \A p \in Ppas : u[p] = IF p = wp THEN "valid" ELSE st[p]
    <3>1. wp \in Ppas
      BY <1>2
    <3> QED BY <2>1, <3>1 DEF SetPage
  <2> HIDE DEF u, sp, old
  <2>6. \A p \in Ppas : u[p] = sp[p]
    BY <1>4, <2>2, <2>3, <2>5
  <2>7. u = sp
    BY <2>4, <2>5, <2>6
  <2> QED BY <2>7 DEF u
<1> QED BY <1>2, <1>4, <1>7, <1>8 DEF d, Written

LEMMA WriteInv ==
    ASSUME FInv, NEW l \in Lpns, Write(l)
    PROVE  FInv'
<1> DEFINE N == PgsPerLine
           s == Written(l)
           st == Renewed(status, wp, maptbl[l], "valid", "invalid")
           rm == Renewed(rmap, wp, maptbl[l], l, InvalidLpn)
           mt == [maptbl EXCEPT ![l] = wp]
           fl == AdvancedFree(wp)
           w == AdvancedWp(wp)
           cr == credits - 1
           R == Room(fl, w, gcWp)
<1>1. FlashAt(Queue, status, freeList, wp, gcWp, gc) /\ MapsAt(maptbl, rmap, status, gc) /\ BudgetOk
  BY DEF FInv
<1>2. gc = NoGc
  BY DEF Write
<1>3. FlashAt(s, st, fl, w, gcWp, NoGc) /\ wp \in Ppas /\ status[wp] = "free"
  BY <1>2, WriteFlash
<1>4. MapsAt(mt, rm, st, NoGc) /\ mt[l] = wp
  <2>1. MapsAt(mt, rm, st, NoGc)
    BY <1>1, <1>2, <1>3, MapsWrite
  <2> QED BY <1>1, <2>1 DEF MapsAt
<1>5. /\ status' = st /\ rmap' = rm /\ maptbl' = mt /\ wp' = w /\ freeList' = fl /\ gcWp' = gcWp
      /\ CheckAndRefillWriteCredit(s, fl, cr)
  BY DEF Write, Renewed, Written, Dropped
<1>6. UsesUp(wp) => freeList # << >>
  BY <1>2, WriteHasLine
<1>7. /\ R = Room(freeList, wp, gcWp) - 1 /\ Room(freeList, wp, gcWp) \in Int
  <2>1. wp \in Ppas /\ gcWp \in Ppas /\ freeList \in Seq(Lines)
    BY <1>1 DEF FlashAt
  <2> QED BY <1>6, <2>1, RoomFacts
<1>8. /\ credits \in Nat /\ credits >= 1 /\ refill \in 1..N /\ N \in Nat
      /\ Room(freeList, wp, gcWp) >= credits + 2 * N
  BY <1>1, <1>2, LineSize DEF BudgetOk
<1>9. cr \in Nat /\ R \in Int /\ R >= cr + 2 * N
  <2> DEFINE Q == Room(freeList, wp, gcWp)
  <2> HIDE DEF R, N, Q
  <2>1. R = Q - 1 /\ Q \in Int /\ Q >= credits + 2 * N
    BY <1>7, <1>8 DEF Q
  <2> QED BY <1>8, <2>1
<1>0. ~(cr > 0) => cr = 0
  BY <1>8
<1> HIDE DEF s, st, rm, mt, fl, w
<1>10. CASE cr > 0
  <2>1. /\ line' = s.line /\ heap' = s.heap /\ credits' = cr /\ refill' = refill /\ gc' = NoGc
    BY <1>2, <1>5, <1>10 DEF CheckAndRefillWriteCredit
  <2>2. Queue' = s
    <3>1. Queue' = [heap |-> s.heap, line |-> s.line]
      BY <2>1 DEF Queue
    <3> QED BY <1>3, <3>1, FlashQueue
  <2>3. FlashAt(Queue', status', freeList', wp', gcWp', gc')
    BY <1>3, <1>5, <2>1, <2>2
  <2>4. MapsAt(maptbl', rmap', status', gc')
    BY <1>4, <1>5, <2>1
  <2>5. Room(freeList', wp', gcWp') = R
    BY <1>5
  <2>6. credits' \in Nat /\ credits' >= 1 /\ refill' \in 1..N
    BY <1>8, <1>9, <1>10, <2>1
  <2>7. BudgetOk'
    BY <1>9, <2>1, <2>5, <2>6 DEF BudgetOk
  <2> QED BY <2>3, <2>4, <2>7 DEF FInv
<1>11. CASE ~(cr > 0) /\ ShouldGcHigh(fl) /\ s.heap # << >>
  <2> DEFINE v == PqueuePeek(s)
             t == SelectVictimLine(s)
             g == StartGc(v)
             i == s.line[v].ipc
             k == Cardinality(ToCopy(st, g))
  <2>1. /\ line' = t.line /\ heap' = t.heap /\ gc' = g /\ refill' = i /\ credits' = cr
    BY <1>5, <1>11 DEF CheckAndRefillWriteCredit, CreditsToRefill, StartGc
  <2>2. FlashAt(t, st, fl, w, gcWp, g) /\ v \in Lines /\ i \in 1..N /\ k + i = N
    BY <1>3, <1>11, SelectStep
  <2>3. g \in Gcs /\ g # NoGc
    <3>1. g.blk = v
      BY DEF StartGc
    <3>2. g # NoGc
      BY <2>2, <3>1, NoGcFacts
    <3> QED BY <2>2, <3>2 DEF FlashAt
  <2>4. k \in Nat
    BY <2>3, ToCopyFacts
  <2>5. MapsAt(mt, rm, st, g)
    <3>1. NotBehind(NoGc) /\ NotBehind(g)
      BY <2>2, NoneBehind
    <3> HIDE DEF g
    <3> QED BY <1>4, <3>1, MapsSame
  <2> HIDE DEF t, g, v
  <2>6. Queue' = t
    <3>1. Queue' = [heap |-> t.heap, line |-> t.line]
      BY <2>1 DEF Queue
    <3> QED BY <2>2, <3>1, FlashQueue
  <2>7. FlashAt(Queue', status', freeList', wp', gcWp', gc')
    BY <1>5, <2>1, <2>2, <2>6
  <2>8. MapsAt(maptbl', rmap', status', gc')
    BY <1>5, <2>1, <2>5
  <2>9. Room(freeList', wp', gcWp') = R /\ Cardinality(ToCopy(status', gc')) = k
    BY <1>5, <2>1
  <2> HIDE DEF i, k, R, N
  <2>10. credits' = 0 /\ refill' \in 1..N /\ R >= N + refill' + k
    <3>1. cr = 0
      BY <1>0, <1>11
    <3> QED BY <1>8, <1>9, <2>1, <2>2, <2>4, <3>1
  <2>11. BudgetOk'
    <3>1. Room(freeList', wp', gcWp') >= PgsPerLine + refill' + Cardinality(ToCopy(status', gc'))
      BY <2>9, <2>10 DEF N
    <3>2. gc' # NoGc
      BY <2>1, <2>3
    <3> QED BY <2>10, <3>1, <3>2 DEF BudgetOk, N
  <2> QED BY <2>7, <2>8, <2>11 DEF FInv
<1>12. CASE ~(cr > 0) /\ ~(ShouldGcHigh(fl) /\ s.heap # << >>)
  <2>1. /\ line' = s.line /\ heap' = s.heap /\ credits' = cr + refill /\ refill' = refill /\ gc' = NoGc
    BY <1>2, <1>5, <1>12 DEF CheckAndRefillWriteCredit
  <2>2. Queue' = s
    <3>1. Queue' = [heap |-> s.heap, line |-> s.line]
      BY <2>1 DEF Queue
    <3> QED BY <1>3, <3>1, FlashQueue
  <2>3. FlashAt(Queue', status', freeList', wp', gcWp', gc')
    BY <1>3, <1>5, <2>1, <2>2
  <2>4. MapsAt(maptbl', rmap', status', gc')
    BY <1>4, <1>5, <2>1
  <2> DEFINE n == Len(fl)
             r == Rank(w)
             q == Rank(gcWp)
  <2>5. R = N * n + (N - r) + (N - q)
    BY DEF Room
  <2>6. n \in Nat /\ r \in 0..(N - 1) /\ q \in 0..(N - 1)
    BY <1>3, RankRange, LenProperties DEF FlashAt
  <2>7. n >= 3 \/ (n = 2 /\ r = 0)
    <3> SUFFICES ASSUME ~(n >= 3) PROVE n = 2 /\ r = 0
      OBVIOUS
    <3>1. ShouldGcHigh(fl) /\ s.heap = << >> /\ Len(fl) <= 2
      BY <1>12, <2>6 DEF ShouldGcHigh, GcThresLinesHigh
    <3>2. Len(fl) = 2 /\ s.line[wp.blk].on = "full"
      <4>1. wp # Unmapped
        BY <1>3, FtlConsts
      <4>2. Len(fl) = 2 /\ \A k \in Lpns : mt[k] # Unmapped => s.line[mt[k].blk].on = "full"
        BY <1>3, <1>4, <3>1, NoVictim
      <4> QED BY <1>4, <4>1, <4>2
    <3>3. w.blk # wp.blk
      BY <1>3, <3>2, PointerFacts
    <3>4. UsesUp(wp)
      BY <1>3, <3>3, NextPageFacts DEF w, AdvancedWp
    <3>5. Head(freeList) \in Lines
      BY <1>1, <1>6, <3>4, HeadTail DEF FlashAt
    <3>6. Rank(w) = 0
      BY <3>4, <3>5, StartFacts DEF w, AdvancedWp
    <3> QED BY <3>2, <3>6
  <2>8. R >= 3 * N
    <3>1. N * n >= 3 * N \/ (N * n = 2 * N /\ r = 0)
      <4> HIDE DEF N, n, r
      <4>1. CASE n >= 3
        <5> DEFINE e == n - 3
        <5>1. e \in Nat /\ n = 3 + e
          BY <2>6, <4>1
        <5> HIDE DEF e
        <5>2. N * (3 + e) = 3 * N + N * e /\ N * e \in Nat
          BY <1>8, <5>1
        <5> QED BY <1>8, <5>1, <5>2
      <4>2. CASE n = 2 /\ r = 0
        BY <1>8, <4>2
      <4> QED BY <2>7, <4>1, <4>2
    <3>2. N * n \in Nat
      <4> HIDE DEF N, n
      <4> QED BY <1>8, <2>6
    <3> DEFINE m == N * n
    <3> HIDE DEF m, N, n, r, q, R
    <3>3. R = m + (N - r) + (N - q) /\ m \in Nat /\ (m >= 3 * N \/ (m = 2 * N /\ r = 0))
      BY <2>5, <3>1, <3>2 DEF m
    <3> QED BY <1>8, <2>6, <3>3
  <2>9. Room(freeList', wp', gcWp') = R
    BY <1>5
  <2> HIDE DEF R, N
  <2>10. credits' \in Nat /\ credits' >= 1 /\ refill' \in 1..N /\ R >= credits' + 2 * N
    <3>1. cr = 0
      BY <1>0, <1>12
    <3> QED BY <1>8, <1>9, <2>1, <2>8, <3>1
  <2>11. BudgetOk'
    BY <2>1, <2>9, <2>10 DEF BudgetOk, N
  <2> QED BY <2>3, <2>4, <2>11 DEF FInv
<1> QED BY <1>10, <1>11, <1>12

LEMMA InitInv == Init => FInv
<1> SUFFICES ASSUME Init PROVE FInv
  OBVIOUS
<1>1. /\ maptbl = [l \in Lpns |-> Unmapped] /\ rmap = [p \in Ppas |-> InvalidLpn]
      /\ line = [b \in Lines |-> [vpc |-> 0, ipc |-> 0, pos |-> 0, on |-> IF b < 2 THEN "open" ELSE "free"]]
      /\ heap = << >> /\ freeList = [i \in 1..(NLines - 2) |-> i + 1]
      /\ status = [p \in Ppas |-> "free"] /\ wp = StartOf(0) /\ gcWp = StartOf(1)
      /\ credits = PgsPerLine /\ refill = PgsPerLine /\ gc = NoGc
  BY DEF Init, InitMaps, InitLines
<1>2. NLines \in Nat /\ NLines > 4 /\ 0 \in Lines /\ 1 \in Lines /\ \A b \in Lines : b \in Nat /\ b < NLines
  BY FtlConsts DEF Lines
<1>3. /\ wp \in Ppas /\ wp.blk = 0 /\ Rank(wp) = 0 /\ gcWp \in Ppas /\ gcWp.blk = 1 /\ Rank(gcWp) = 0
  BY <1>1, <1>2, StartFacts
<1>4. /\ freeList \in Seq(Lines) /\ Len(freeList) = NLines - 2
      /\ \A i \in 1..(NLines - 2) : freeList[i] = i + 1
  <2>1. \A i \in 1..(NLines - 2) : i + 1 \in Lines
    BY <1>2 DEF Lines
  <2>2. NLines - 2 \in Nat
    BY <1>2
  <2> DEFINE n == NLines - 2
  <2>3. freeList \in [1..n -> Lines] /\ n \in Nat /\ \A i \in 1..n : freeList[i] = i + 1
    BY <1>1, <2>1, <2>2
  <2> HIDE DEF n
  <2>4. freeList \in Seq(Lines)
    BY <2>3, SeqDef
  <2>5. Len(freeList) \in Nat /\ DOMAIN freeList = 1..Len(freeList) /\ DOMAIN freeList = 1..n
    BY <2>3, <2>4, LenProperties
  <2>6. Len(freeList) = n
    BY <2>3, <2>5
  <2> QED BY <2>3, <2>4, <2>6 DEF n
<1>5. /\ Queue.heap = << >> /\ Queue.line = line
      /\ \A b \in Lines : /\ line[b].vpc = 0 /\ line[b].ipc = 0 /\ line[b].pos = 0
                          /\ line[b].on = IF b < 2 THEN "open" ELSE "free"
  BY <1>1 DEF Queue
<1>6. QOk(Queue) /\ \A b \in Lines : ~Queued(Queue, b)
  <2>1. line \in [Lines -> LineRec]
    BY <1>1 DEF LineRec, Lists
  <2>2. Queue \in QRec
    BY <1>1, <2>1 DEF Queue, QRec
  <2>3. Len(Queue.heap) = 0
    BY <1>5
  <2>4. Placed(Queue) /\ HeapOrder(PriOf(Queue), Len(Queue.heap)) /\ \A b \in Lines : ~Queued(Queue, b)
    BY <2>3 DEF Placed, HeapOrder, Queued
  <2> QED BY <1>5, <2>2, <2>4 DEF QOk
<1>7. ListsAt(Queue, freeList, wp, gcWp, NoGc)
  <2>1. \A i, j \in 1..Len(freeList) : freeList[i] = freeList[j] => i = j
    BY <1>2, <1>4
  <2>2. ASSUME NEW b \in Lines
        PROVE  /\ Queued(Queue, b) <=> Queue.line[b].on = "victim"
               /\ Queue.line[b].on = "free" <=> \E i \in 1..Len(freeList) : freeList[i] = b
               /\ Queue.line[b].on = "open" <=> b = wp.blk \/ b = gcWp.blk
               /\ Queue.line[b].on = "gc" <=> b = NoGc.blk
    <3>1. CASE b < 2
      <4>1. Queue.line[b].on = "open" /\ (b = 0 \/ b = 1) /\ ~Queued(Queue, b) /\ b # NoGc.blk
        BY <1>2, <1>5, <1>6, <3>1, NoGcFacts
      <4>2. ~\E i \in 1..Len(freeList) : freeList[i] = b
        BY <1>2, <1>4, <3>1
      <4> QED BY <1>3, <4>1, <4>2
    <3>2. CASE ~(b < 2)
      <4>1. Queue.line[b].on = "free" /\ b # 0 /\ b # 1 /\ ~Queued(Queue, b) /\ b # NoGc.blk
        BY <1>2, <1>5, <1>6, <3>2, NoGcFacts
      <4>2. b - 1 \in 1..Len(freeList) /\ freeList[b - 1] = b
        BY <1>2, <1>4, <3>2
      <4> QED BY <1>3, <4>1, <4>2
    <3> QED BY <3>1, <3>2
  <2> QED BY <1>3, <1>6, <2>1, <2>2 DEF ListsAt
<1>8. status \in [Ppas -> Statuses] /\ \A p \in Ppas : status[p] = "free"
  BY <1>1 DEF Statuses
<1>9. CountsAt(Queue, status, NoGc)
  <2> SUFFICES ASSUME NEW b \in Lines
               PROVE  /\ Queue.line[b].vpc = Cardinality(PagesIn(status, b, "valid"))
                      /\ Queue.line[b].ipc = Cardinality(PagesIn(status, b, "invalid"))
                      /\ Queue.line[b].on # "full" /\ Queue.line[b].on # "victim"
    BY DEF CountsAt
  <2>1. PagesIn(status, b, "valid") = {} /\ PagesIn(status, b, "invalid") = {}
    BY <1>8 DEF PagesIn
  <2> QED BY <1>5, <2>1, FS_EmptySet
<1>10. FreeAt(Queue, status, wp, gcWp, NoGc)
  <2> SUFFICES ASSUME NEW p \in Ppas
               PROVE  \/ Queue.line[p.blk].on = "free"
                      \/ p.blk = wp.blk /\ Rank(p) >= Rank(wp)
                      \/ p.blk = gcWp.blk /\ Rank(p) >= Rank(gcWp)
    BY <1>8 DEF FreeAt
  <2>1. p.blk \in Lines /\ Rank(p) \in Nat
    BY PpaFields, RankRange
  <2> QED BY <1>2, <1>3, <1>5, <2>1
<1>11. FlashAt(Queue, status, freeList, wp, gcWp, gc)
  BY <1>1, <1>3, <1>4, <1>7, <1>8, <1>9, <1>10 DEF FlashAt
<1>12. MapsAt(maptbl, rmap, status, gc)
  BY <1>1, <1>8 DEF MapsAt
<1>13. BudgetOk
  <2> DEFINE N == PgsPerLine
             n == Len(freeList)
  <2>1. N \in Nat /\ N >= 1 /\ n \in Nat /\ n >= 3
    BY <1>2, <1>4, LineSize
  <2>2. Room(freeList, wp, gcWp) = N * n + (N - 0) + (N - 0)
    BY <1>3 DEF Room
  <2> HIDE DEF N, n
  <2>3. N * n >= N
    <3> DEFINE e == n - 1
    <3>1. e \in Nat /\ n = 1 + e
      BY <2>1
    <3> HIDE DEF e
    <3>2. N * (1 + e) = N + N * e /\ N * e \in Nat
      BY <2>1, <3>1
    <3> QED BY <2>1, <3>1, <3>2
  <2>4. N * n \in Nat
    BY <2>1
  <2>5. Room(freeList, wp, gcWp) >= N + 2 * N
    BY <2>1, <2>2, <2>3, <2>4
  <2> QED BY <1>1, <2>1, <2>5 DEF BudgetOk, N
<1> QED BY <1>11, <1>12, <1>13 DEF FInv

(* FInv is an invariant of the conventional FTL: for every geometry, every *)
(* namespace that leaves four lines spare and every order of writes, the   *)
(* maps, the page states, the counts and lists of all lines, the victim    *)
(* queue and the credits fit together, at every point of a collection.     *)
THEOREM FtlInvariant == Spec => []FInv
<1>1. Init => FInv
  BY InitInv
<1>2. FInv /\ [Next]_vars => FInv'
  <2> SUFFICES ASSUME FInv, [Next]_vars PROVE FInv'
    OBVIOUS
  <2>1. ASSUME NEW l \in Lpns, Write(l) PROVE FInv'
    BY <2>1, WriteInv
  <2>2. CASE GcCopy
    BY <2>2, GcCopyInv
  <2>3. CASE GcPass
    BY <2>3, GcPassInv
  <2>4. CASE GcFinish
    BY <2>4, GcFinishInv
  <2>5. CASE UNCHANGED vars
    <3>1. /\ Queue' = Queue /\ status' = status /\ freeList' = freeList /\ wp' = wp /\ gcWp' = gcWp
          /\ gc' = gc /\ maptbl' = maptbl /\ rmap' = rmap /\ credits' = credits /\ refill' = refill
      BY <2>5 DEF vars, Queue
    <3>2. BudgetOk'
      BY <3>1 DEF FInv, BudgetOk
    <3> QED BY <3>1, <3>2 DEF FInv
  <2> QED BY <2>1, <2>2, <2>3, <2>4, <2>5 DEF Next
<1> QED BY <1>1, <1>2, PTL DEF Spec

(* get_next_free_line never meets an empty list, neither for a write nor   *)
(* in the middle of a collection, and write_credits is never decremented   *)
(* at 0.                                                                   *)
THEOREM FreeLineAlways == Spec => []FreeLineWhenNeeded
<1>1. FInv => FreeLineWhenNeeded
  <2> SUFFICES ASSUME FInv PROVE FreeLineWhenNeeded
    OBVIOUS
  <2>1. gc = NoGc => credits > 0
    BY DEF FInv, BudgetOk
  <2> QED BY <2>1, WriteHasLine, GcHasLine DEF FreeLineWhenNeeded
<1> QED BY <1>1, FtlInvariant, PTL

(* maptbl and rmap are inverse to each other on the valid pages at every   *)
(* point of a collection: no logical page is lost or left behind.          *)
THEOREM MapsAlwaysAgree == Spec => []MapsAgree
<1>1. FInv => MapsAgree
  <2> SUFFICES ASSUME FInv PROVE MapsAgree
    OBVIOUS
  <2>1. MapsAt(maptbl, rmap, status, gc) /\ gc \in Gcs \cup {NoGc}
    BY DEF FInv, FlashAt
  <2>2. ASSUME NEW p \in Ppas PROVE Visited(p) <=> Behind(p, gc)
    <3>1. CASE gc = NoGc
      BY <3>1, NoneBehind DEF Visited, NotBehind
    <3>2. CASE gc # NoGc
      <4>1. gc \in Gcs /\ gc.blk \in Lines /\ gc.at \in 0..PgsPerLine /\ PgsPerLine \in Nat
        BY <2>1, <3>2, LineSize DEF Gcs
      <4>2. ASSUME NEW k \in 0..(gc.at - 1), p = VictimPage(gc.blk, k) PROVE Behind(p, gc)
        <5>1. k \in 0..(PgsPerLine - 1)
          BY <4>1
        <5>2. p.blk = gc.blk /\ VRank(p) = k
          BY <4>1, <4>2, <5>1, VictimPageFacts
        <5> QED BY <4>1, <5>2 DEF Behind
      <4>3. ASSUME Behind(p, gc) PROVE \E k \in 0..(gc.at - 1) : p = VictimPage(gc.blk, k)
        <5>1. p.blk = gc.blk /\ VRank(p) < gc.at /\ VRank(p) \in Nat
          BY <4>3, RankRange DEF Behind
        <5>2. VRank(p) \in 0..(gc.at - 1) /\ VictimPage(gc.blk, VRank(p)) = p
          BY <4>1, <5>1, VictimOf
        <5> QED BY <5>2
      <4> QED BY <3>2, <4>2, <4>3 DEF Visited
    <3> QED BY <3>1, <3>2
  <2>3. \A l \in Lpns : maptbl[l] # Unmapped => maptbl[l] \in Ppas
    BY <2>1 DEF MapsAt
  <2> QED BY <2>1, <2>2, <2>3 DEF MapsAgree, MapsAt
<1> QED BY <1>1, FtlInvariant, PTL

(* Every line's counts are those of its pages, it is on the list they call *)
(* for, the victims form a valid heap in which every line knows its place, *)
(* and both write pointers point to an erased page of a line of their own. *)
THEOREM LinesAlwaysExact == Spec => []LinesExact
<1>1. FInv => LinesExact
  <2> SUFFICES ASSUME FInv PROVE LinesExact
    OBVIOUS
  <2>1. FlashAt(Queue, status, freeList, wp, gcWp, gc)
    BY DEF FInv
  <2>2. /\ status \in [Ppas -> Statuses] /\ ListsAt(Queue, freeList, wp, gcWp, gc) /\ CountsAt(Queue, status, gc)
        /\ FreeAt(Queue, status, wp, gcWp, gc) /\ QOk(Queue) /\ gc \in Gcs \cup {NoGc}
        /\ Queue.line = line /\ Queue.heap = heap
    BY <2>1 DEF FlashAt, ListsAt, Queue
  <2>3. \A b, v : PagesOf(b, v) = PagesIn(status, b, v)
    BY DEF PagesOf, PagesIn
  <2>4. CountsExact
    BY <2>2, <2>3 DEF CountsExact, CountsAt
  <2>5. heap \in Seq(Lines) /\ Len(heap) \in Nat /\ \A i \in 1..Len(heap) : heap[i] \in Lines /\ line[heap[i]].pos = i
    BY <2>2, LenProperties, ElementOfSeq DEF QOk, QRec, Placed
  <2>6. ASSUME NEW b \in Lines
        PROVE  LET on == line[b].on
                   free == Cardinality(PagesOf(b, "free"))
               IN  /\ (on = "free") = (\E i \in 1..Len(freeList) : freeList[i] = b)
                   /\ (on = "open") = (b \in {wp.blk, gcWp.blk})
                   /\ (on = "gc") = (gc # NoGc /\ b = gc.blk)
                   /\ on = "free" => free = PgsPerLine
                   /\ on = "full" => line[b].vpc = PgsPerLine
                   /\ on = "victim" => free = 0 /\ line[b].ipc > 0
                   /\ IF on = "victim" THEN heap[line[b].pos] = b ELSE line[b].pos = 0
    <3> DEFINE on == line[b].on
               F == PagesIn(status, b, "free")
    <3>1. /\ Queued(Queue, b) <=> on = "victim"
          /\ on = "free" <=> \E i \in 1..Len(freeList) : freeList[i] = b
          /\ on = "open" <=> b = wp.blk \/ b = gcWp.blk
          /\ on = "gc" <=> b = gc.blk
      BY <2>2 DEF ListsAt
    <3>2. b = gc.blk => gc # NoGc
      BY NoGcFacts
    <3>3. on = "free" => Cardinality(F) = PgsPerLine
      <4> SUFFICES ASSUME on = "free" PROVE Cardinality(F) = PgsPerLine
        OBVIOUS
      <4>1. \A p \in Ppas : p.blk = b => status[p] = "free"
        BY <2>2 DEF FreeAt
      <4>2. F = LinePages(b)
        BY <4>1 DEF PagesIn, LinePages
      <4> QED BY <4>2, LineCount
    <3>4. /\ on = "full" => line[b].vpc = PgsPerLine
          /\ on = "victim" => line[b].ipc > 0
      BY <2>2 DEF CountsAt
    <3>5. on = "victim" => Cardinality(F) = 0
      <4> SUFFICES ASSUME on = "victim" PROVE Cardinality(F) = 0
        OBVIOUS
      <4>1. on # "free" /\ on # "open" /\ on # "gc"
        OBVIOUS
      <4>2. b # wp.blk /\ b # gcWp.blk /\ b # gc.blk
        BY <3>1, <4>1
      <4>3. \A p \in Ppas : p.blk = b => status[p] # "free"
        BY <2>2, <4>1, <4>2 DEF FreeAt
      <4>4. F = {}
        BY <4>3 DEF PagesIn
      <4> QED BY <4>4, FS_EmptySet
    <3>6. IF on = "victim" THEN heap[line[b].pos] = b ELSE line[b].pos = 0
      <4>1. CASE on = "victim"
        <5>1. PICK i \in 1..Len(heap) : heap[i] = b
          BY <2>2, <3>1, <4>1 DEF Queued
        <5>2. line[b].pos = i
          BY <2>5, <5>1
        <5> QED BY <4>1, <5>1, <5>2
      <4>2. CASE on # "victim"
        BY <2>2, <3>1, <4>2 DEF QOk
      <4> QED BY <4>1, <4>2
    <3>7. PagesOf(b, "free") = F
      BY <2>3
    <3> HIDE DEF on, F
    <3>8. /\ (on = "free") = (\E i \in 1..Len(freeList) : freeList[i] = b)
          /\ (on = "open") = (b \in {wp.blk, gcWp.blk})
          /\ (on = "gc") = (gc # NoGc /\ b = gc.blk)
      <4>1. (on = "free") = (\E i \in 1..Len(freeList) : freeList[i] = b)
        BY <3>1, Zenon
      <4>2. b \in {wp.blk, gcWp.blk} <=> b = wp.blk \/ b = gcWp.blk
        OBVIOUS
      <4>3. (on = "open") = (b \in {wp.blk, gcWp.blk})
        <5>1. CASE on = "open"
          BY <3>1, <4>2, <5>1
        <5>2. CASE on # "open"
          BY <3>1, <4>2, <5>2
        <5> QED BY <5>1, <5>2
      <4>4. (on = "gc") = (gc # NoGc /\ b = gc.blk)
        BY <3>1, <3>2, Zenon
      <4> QED BY <4>1, <4>3, <4>4, Zenon
    <3> QED BY <3>3, <3>4, <3>5, <3>6, <3>7, <3>8 DEF on
  <2>7. wp.blk # gcWp.blk /\ status[wp] = "free" /\ status[gcWp] = "free"
    <3>1. FlashAt(Queue, status, freeList, gcWp, wp, gc)
      BY <2>1, SwapPointers
    <3> QED BY <2>1, <3>1, PointerFacts
  <2>8. PqueueIsValid(Queue)
    <3>1. \A i \in 1..Len(heap) : Pri(Queue, i) \in Int /\ PriOf(Queue)[i] = Pri(Queue, i)
      BY <2>2, <2>5, QTypes DEF Pri, PriOf
    <3>2. \A k \in 2..Len(heap) : PriOf(Queue)[k \div 2] <= PriOf(Queue)[k]
      BY <2>2 DEF QOk, HeapOrder
    <3> SUFFICES ASSUME NEW i \in 2..Len(heap) PROVE ~(Pri(Queue, i \div 2) > Pri(Queue, i))
      BY <2>2 DEF PqueueIsValid, CmpPri
    <3> DEFINE k == i \div 2
    <3>3. k \in 1..Len(heap) /\ i \in 1..Len(heap)
      BY <2>5, Parents
    <3>4. PriOf(Queue)[k] <= PriOf(Queue)[i]
      BY <3>2
    <3> HIDE DEF k
    <3>5. ~(Pri(Queue, k) > Pri(Queue, i))
      BY <3>1, <3>3, <3>4
    <3> QED BY <3>5 DEF k
  <2>9. Len(heap) = Cardinality({b \in Lines : line[b].on = "victim"})
    <3> DEFINE V == {b \in Lines : line[b].on = "victim"}
    <3>1. V = {heap[i] : i \in 1..Len(heap)}
      <4>1. \A b \in Lines : line[b].on = "victim" <=> \E i \in 1..Len(heap) : heap[i] = b
        BY <2>2 DEF ListsAt, Queued
      <4> QED BY <2>5, <4>1
    <3>2. \A i, j \in 1..Len(heap) : heap[i] = heap[j] => i = j
      BY <2>5
    <3> HIDE DEF V
    <3>3. Cardinality(V) = Len(heap)
      BY <2>5, <3>1, <3>2, ListSize
    <3> QED BY <3>3 DEF V
  <2>10. \A i, j \in 1..Len(freeList) : freeList[i] = freeList[j] => i = j
    BY <2>2 DEF ListsAt
  <2>11. LinesSorted
    BY <2>6, <2>7, <2>8, <2>9, <2>10 DEF LinesSorted
  <2> QED BY <2>4, <2>11 DEF LinesExact
<1> QED BY <1>1, FtlInvariant, PTL

=============================================================================
