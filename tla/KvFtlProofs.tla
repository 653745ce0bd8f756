----------------------------- MODULE KvFtlProofs ------------------------------
(***************************************************************************)
(* Proofs about KvFtl: it implements KvMap, iterations are complete and    *)
(* chains end, for every table, storage and number of keys.                *)
(*                                                                         *)
(* Links are never taken back when the slot they lead to is deleted, so a  *)
(* chain may lead into entries of other keys.  What saves the table is     *)
(* that a free slot has no link: filling it makes nothing else reachable.  *)
(***************************************************************************)
EXTENDS KvFtl, NumberFacts

(* What a lookup needs to know of a table. *)
Linked(t) == \A s \in SlotIds : Used(t, s) => t[s].next \in Links

Turn(t, k, g, s) ==
    IF s = None THEN None
    ELSE IF ~Used(t, s) THEN None
    ELSE IF t[s].key = k THEN s
    ELSE g[t[s].next]

LEMMA KvConsts ==
    /\ Slots \in Nat \ {0} /\ Cells \in Nat \ {0} /\ Small \in Nat \ {0} /\ Large \in Nat \ {0}
    /\ PerRead \in Nat \ {0} /\ Small < Large /\ MaxChanges \in Nat /\ Handles \in Nat \ {0}
    /\ \A k \in Keys : Home[k] \in SlotIds
    /\ None \notin Nat /\ None \notin Keys /\ None \notin SlotIds
    /\ Lens \subseteq 1..Large
  BY KvAssumption DEF SlotIds

(* Find is the function its recursive definition describes. *)
LEMMA FindDef ==
    ASSUME NEW t, Linked(t), NEW k
    PROVE  /\ \A s \in Links : Find(t, k)[0][s] = None
           /\ \A n \in 1..Slots, s \in Links : Find(t, k)[n][s] = Turn(t, k, Find(t, k)[n - 1], s)
           /\ \A n \in 0..Slots : Find(t, k)[n] \in [Links -> Links]
<1> DEFINE S  == [Links -> Links]
           c  == [s \in Links |-> None]
           tu == [g \in S |-> [s \in Links |-> Turn(t, k, g, s)]]
           st == [n \in 1..Slots |-> tu]
           f  == CHOOSE f : f = [n \in 0..Slots |->
                    [s \in Links |-> IF n = 0 \/ s = None THEN None
                                     ELSE IF ~Used(t, s) THEN None
                                     ELSE IF t[s].key = k THEN s
                                     ELSE f[n - 1][t[s].next]]]
<1>1. c \in S
  BY DEF Links
<1>2. \A g \in S, s \in Links : Turn(t, k, g, s) \in Links
  BY DEF Turn, Links, Linked
<1>3. tu \in [S -> S]
  BY <1>2
<1>4. \A g \in S : tu[g] = [s \in Links |-> Turn(t, k, g, s)]
  OBVIOUS
<1> HIDE DEF tu
<1>5. st \in [1..Slots -> [S -> S]] /\ \A n \in 1..Slots : st[n] = tu
  BY <1>3
<1> HIDE DEF st
<1>6. PICK g \in [0..Slots -> S] : g[0] = c /\ \A n \in 1..Slots : g[n] = st[n][g[n - 1]]
  <2>1. Slots \in Nat /\ c \in S
    BY <1>1, KvConsts
  <2>2. st \in [1..Slots -> [S -> S]]
    BY <1>5
  <2> HIDE DEF S, c
  <2> QED BY <2>1, <2>2, RecExists
<1>7. \A n \in 1..Slots : g[n - 1] \in S /\ g[n] = [s \in Links |-> Turn(t, k, g[n - 1], s)]
  <2> SUFFICES ASSUME NEW n \in 1..Slots
               PROVE  g[n - 1] \in S /\ g[n] = [s \in Links |-> Turn(t, k, g[n - 1], s)]
    OBVIOUS
  <2>1. n - 1 \in 0..Slots
    BY KvConsts
  <2>2. g[n - 1] \in S
    BY <1>6, <2>1
  <2> QED BY <1>4, <1>5, <1>6, <2>2
<1>8. g = [n \in 0..Slots |->
             [s \in Links |-> IF n = 0 \/ s = None THEN None
                              ELSE IF ~Used(t, s) THEN None
                              ELSE IF t[s].key = k THEN s
                              ELSE g[n - 1][t[s].next]]]
  <2> DEFINE B(n) == [s \in Links |-> IF n = 0 \/ s = None THEN None
                              ELSE IF ~Used(t, s) THEN None
                              ELSE IF t[s].key = k THEN s
                              ELSE g[n - 1][t[s].next]]
  <2>1. g[0] = B(0)
    BY <1>6
  <2>2. ASSUME NEW n \in 1..Slots PROVE g[n] = B(n)
    <3>1. n # 0
      BY KvConsts
    <3>2. B(n) = [s \in Links |-> Turn(t, k, g[n - 1], s)]
      BY <3>1 DEF Turn
    <3> QED BY <1>7, <3>2
  <2>3. \A n \in 0..Slots : g[n] = B(n)
    <3> SUFFICES ASSUME NEW n \in 0..Slots PROVE g[n] = B(n)
      OBVIOUS
    <3> HIDE DEF B
    <3>1. n = 0 \/ n \in 1..Slots
      BY KvConsts
    <3> QED BY <2>1, <2>2, <3>1
  <2>4. g = [n \in 0..Slots |-> g[n]]
    BY <1>6
  <2> HIDE DEF B
  <2>5. g = [n \in 0..Slots |-> B(n)]
    BY <2>3, <2>4
  <2> QED BY <2>5 DEF B
<1>9. f = [n \in 0..Slots |->
             [s \in Links |-> IF n = 0 \/ s = None THEN None
                              ELSE IF ~Used(t, s) THEN None
                              ELSE IF t[s].key = k THEN s
                              ELSE f[n - 1][t[s].next]]]
  BY <1>8, Zenon
<1>10. Find(t, k) = f
  BY DEF Find
<1> HIDE DEF f
<1>11. \A s \in Links : f[0][s] = None
  <2>1. 0 \in 0..Slots
    BY KvConsts
  <2> QED BY <1>9, <2>1
<1>12. ASSUME NEW n \in 1..Slots, NEW s \in Links PROVE f[n][s] = Turn(t, k, f[n - 1], s)
  <2>1. n \in 0..Slots /\ n # 0
    BY KvConsts
  <2> DEFINE W(m) == [x \in Links |-> IF m = 0 \/ x = None THEN None
                              ELSE IF ~Used(t, x) THEN None
                              ELSE IF t[x].key = k THEN x
                              ELSE f[m - 1][t[x].next]]
  <2>2. f[n] = W(n)
    BY <1>9, <2>1
  <2>3. W(n)[s] = IF n = 0 \/ s = None THEN None
                              ELSE IF ~Used(t, s) THEN None
                              ELSE IF t[s].key = k THEN s
                              ELSE f[n - 1][t[s].next]
    OBVIOUS
  <2> HIDE DEF W
  <2> QED BY <2>1, <2>2, <2>3 DEF Turn
<1>13. \A n \in 0..Slots : f[n] \in S
  <2> DEFINE T == {n \in Nat : n <= Slots => f[n] \in S}
             W(n) == [s \in Links |-> IF n = 0 \/ s = None THEN None
                              ELSE IF ~Used(t, s) THEN None
                              ELSE IF t[s].key = k THEN s
                              ELSE f[n - 1][t[s].next]]
  <2>0. \A n \in 0..Slots : f[n] = W(n)
    BY <1>9
  <2>1. 0 \in T
    <3>1. W(0) \in S
      BY DEF Links
    <3> HIDE DEF W, S
    <3> QED BY <2>0, <3>1, KvConsts
  <2>2. ASSUME NEW n \in T PROVE n + 1 \in T
    <3> SUFFICES ASSUME n + 1 <= Slots PROVE f[n + 1] \in S
      BY <2>2
    <3>1. n \in Nat /\ n + 1 \in 0..Slots /\ f[n] \in S /\ (n + 1) - 1 = n
      BY <2>2, KvConsts
    <3>2. W(n + 1) \in S
      BY <3>1 DEF Linked, Links
    <3> HIDE DEF W, S
    <3> QED BY <2>0, <3>1, <3>2
  <2> HIDE DEF T
  <2>3. T \in SUBSET Nat
    BY DEF T
  <2>4. \A n \in Nat : n \in T
    BY <2>1, <2>2, <2>3, SetInduction
  <2> QED BY <2>4, KvConsts DEF T
<1> QED BY <1>10, <1>11, <1>12, <1>13

-----------------------------------------------------------------------------
(* Lookups. *)

(* What is found is an entry in use with the key. *)
LEMMA WalkFinds ==
    ASSUME NEW t, Linked(t), NEW k \in Keys
    PROVE  /\ Walk(t, k) \in Links
           /\ Walk(t, k) # None => /\ Walk(t, k) \in SlotIds /\ Used(t, Walk(t, k))
                                   /\ t[Walk(t, k)].key = k
<1> DEFINE F == Find(t, k)
           Hit(x) == x # None => x \in SlotIds /\ Used(t, x) /\ t[x].key = k
           T == {n \in Nat : n <= Slots => \A s \in Links : Hit(F[n][s])}
<1>1. 0 \in T
  BY FindDef
<1>2. ASSUME NEW n \in T PROVE n + 1 \in T
  <2> SUFFICES ASSUME n + 1 <= Slots, NEW s \in Links PROVE Hit(F[n + 1][s])
    BY <1>2
  <2>1. n \in Nat /\ n + 1 \in 1..Slots /\ (n + 1) - 1 = n /\ \A x \in Links : Hit(F[n][x])
    BY <1>2, KvConsts
  <2>2. F[n + 1][s] = Turn(t, k, F[n], s)
    BY <2>1, FindDef
  <2> HIDE DEF F
  <2>3. Hit(Turn(t, k, F[n], s))
    BY <2>1 DEF Turn, Linked, Links
  <2> QED BY <2>2, <2>3
<1>3. Slots \in T
  <2> HIDE DEF T
  <2>1. T \in SUBSET Nat
    BY DEF T
  <2> QED BY <1>1, <1>2, <2>1, SetInduction, KvConsts
<1>4. Home[k] \in Links /\ Slots \in 0..Slots /\ Slots \in Nat
  BY KvConsts DEF Links
<1>5. Hit(F[Slots][Home[k]])
  BY <1>3, <1>4
<1>6. F[Slots][Home[k]] \in Links
  BY <1>4, FindDef
<1> QED BY <1>5, <1>6 DEF Walk

(* A lookup of the key that gets to s finds nothing. *)
Dead(u, k, s) == ~Used(u, s) \/ (u[s].key # k /\ u[s].next = None)

(* What a lookup in u meets at s it meets in t as well, or it is lost. *)
SameOrLost(t, u, k, s) ==
    \/ Dead(u, k, s)
    \/ u[s].key # k /\ u[s].next \in SlotIds /\ Dead(u, k, u[s].next)
    \/ /\ Used(t, s) /\ Used(u, s) /\ u[s].key = t[s].key
       /\ u[s].key = k \/ u[s].next = t[s].next

LEMMA FewerFound ==
    ASSUME NEW t, Linked(t), NEW u, Linked(u), NEW k \in Keys,
           \A s \in SlotIds : SameOrLost(t, u, k, s)
    PROVE  Walk(u, k) \in {Walk(t, k), None}
<1> DEFINE F == Find(t, k)
           G == Find(u, k)
           T == {n \in Nat : n <= Slots => /\ \A s \in Links : G[n][s] \in {F[n][s], None}
                                           /\ \A s \in SlotIds : Dead(u, k, s) => G[n][s] = None}
<1>1. 0 \in T
  BY FindDef DEF Links
<1>2. ASSUME NEW n \in T PROVE n + 1 \in T
  <2> SUFFICES ASSUME n + 1 <= Slots
               PROVE  /\ \A s \in Links : G[n + 1][s] \in {F[n + 1][s], None}
                      /\ \A s \in SlotIds : Dead(u, k, s) => G[n + 1][s] = None
    BY <1>2
  <2>1. /\ n \in Nat /\ n + 1 \in 1..Slots /\ n \in 0..Slots /\ (n + 1) - 1 = n
        /\ \A s \in Links : G[n][s] \in {F[n][s], None}
        /\ \A s \in SlotIds : Dead(u, k, s) => G[n][s] = None
    BY <1>2, KvConsts
  <2>2. \A s \in Links : F[n + 1][s] = Turn(t, k, F[n], s)
    BY <2>1, FindDef
  <2>3. \A s \in Links : G[n + 1][s] = Turn(u, k, G[n], s)
    BY <2>1, FindDef
  <2>4. G[n] \in [Links -> Links] /\ G[n][None] = None
    <3>1. G[n] \in [Links -> Links]
      BY <2>1, FindDef
    <3>2. n = 0 \/ n \in 1..Slots
      BY <2>1, KvConsts
    <3>3. None \in Links
      BY DEF Links
    <3>4. CASE n = 0
      BY <3>1, <3>3, <3>4, FindDef
    <3>5. CASE n \in 1..Slots
      BY <3>1, <3>3, <3>5, FindDef DEF Turn
    <3> QED BY <3>1, <3>2, <3>4, <3>5
  <2> HIDE DEF F, G
  <2>5. ASSUME NEW s \in SlotIds, Dead(u, k, s) PROVE G[n + 1][s] = None
    <3>1. s \in Links /\ s # None
      BY KvConsts DEF Links
    <3> QED BY <2>3, <2>4, <2>5, <3>1 DEF Dead, Turn
  <2>6. ASSUME NEW s \in Links PROVE G[n + 1][s] \in {F[n + 1][s], None}
    <3>1. CASE s = None
      BY <2>3, <3>1 DEF Turn
    <3>2. CASE s \in SlotIds /\ Dead(u, k, s)
      BY <2>5, <3>2
    <3>3. CASE s \in SlotIds /\ u[s].key # k /\ u[s].next \in SlotIds /\ Dead(u, k, u[s].next)
      <4>1. G[n][u[s].next] = None
        BY <2>1, <3>3
      <4> QED BY <2>3, <3>3, <4>1 DEF Turn
    <3>4. CASE /\ s \in SlotIds /\ Used(t, s) /\ Used(u, s) /\ u[s].key = t[s].key
               /\ u[s].key = k \/ u[s].next = t[s].next
      <4>1. u[s].next \in Links
        BY <3>4 DEF Linked
      <4>2. G[n][u[s].next] \in {F[n][u[s].next], None}
        BY <2>1, <4>1
      <4> QED BY <2>2, <2>3, <3>4, <4>2 DEF Turn
    <3> QED BY <3>1, <3>2, <3>3, <3>4 DEF SameOrLost, Links
  <2> QED BY <2>5, <2>6
<1>3. Slots \in T
  <2> HIDE DEF T
  <2>1. T \in SUBSET Nat
    BY DEF T
  <2> QED BY <1>1, <1>2, <2>1, SetInduction, KvConsts
<1>4. Home[k] \in Links /\ Slots <= Slots
  BY KvConsts DEF Links
<1> QED BY <1>3, <1>4 DEF Walk

(* Where keys and links are the same, the same is found. *)
LEMMA SameFound ==
    ASSUME NEW t, Linked(t), NEW u, Linked(u), NEW k \in Keys,
           \A s \in SlotIds : /\ Used(u, s) <=> Used(t, s)
                              /\ u[s].key = t[s].key /\ u[s].next = t[s].next
    PROVE  Walk(u, k) = Walk(t, k)
<1>1. \A s \in SlotIds : SameOrLost(t, u, k, s) /\ SameOrLost(u, t, k, s)
  BY DEF SameOrLost, Dead
<1>2. Walk(u, k) \in {Walk(t, k), None} /\ Walk(t, k) \in {Walk(u, k), None}
  BY <1>1, FewerFound
<1> QED BY <1>2

-----------------------------------------------------------------------------
(* Tables. *)

Entries == [key : Keys \cup {None}, off : Nat \cup {None}, len : Nat \cup {None}, next : Links]

(* A free slot is clear, its link included. *)
TableOK(t) ==
    /\ t \in [SlotIds -> Entries]
    /\ \A s \in SlotIds : ~Used(t, s) => t[s] = FreeEntry
    /\ \A s \in SlotIds : Used(t, s) => t[s].key \in Keys /\ t[s].off \in Nat /\ t[s].len \in Nat \ {0}

(* Links between entries in use lead to entries that were made later. *)
RankedBy(t, b, r) ==
    \A s \in SlotIds : Used(t, s) /\ t[s].next \in SlotIds /\ Used(t, t[s].next) => r[s] < r[t[s].next]
Ranked(t) == \E b \in Nat : \E r \in [SlotIds -> 0..b] : RankedBy(t, b, r)

(* The new entry of key k is in slot x, which was free. *)
Filled(t, u, k, x, off, len) ==
    /\ x \in SlotIds /\ ~Used(t, x)
    /\ u[x] = [key |-> k, off |-> off, len |-> len, next |-> None]
    /\ \A s \in SlotIds \ {x} : \/ u[s] = t[s]
                                \/ /\ s = Home[k] /\ Used(t, s)
                                   /\ u[s] = [t[s] EXCEPT !.next = x]
    /\ Home[k] = x \/ (Used(t, Home[k]) /\ u[Home[k]].next = x)

LEMMA TableLinked ==
    ASSUME NEW t, TableOK(t)
    PROVE  Linked(t)
  BY DEF TableOK, Linked, Entries

LEMMA SlotDistance ==
    ASSUME NEW x \in SlotIds, NEW s \in SlotIds
    PROVE  (x - s) % Slots \in Nat
<1>1. x - s \in Int /\ Slots \in Nat \ {0}
  BY KvConsts DEF SlotIds
<1> HIDE DEF SlotIds
<1> QED BY <1>1

LEMMA FreeSlotFree ==
    ASSUME NEW t, NEW s \in SlotIds, \E x \in SlotIds : ~Used(t, x)
    PROVE  FreeSlot(t, s) \in SlotIds /\ ~Used(t, FreeSlot(t, s))
<1> DEFINE free == {x \in SlotIds : ~Used(t, x)}
           dist(x) == (x - s) % Slots
           D == {dist(x) : x \in free}
<1>1. \A x \in free : dist(x) \in Nat
  BY SlotDistance
<1> HIDE DEF dist
<1>2. D \in SUBSET Nat /\ D # {}
  BY <1>1
<1>3. PICK d \in D : \A e \in D : d <= e
  BY <1>2, LeastElement
<1>4. \E x \in free : \A y \in free : dist(x) <= dist(y)
  BY <1>3
<1>5. FreeSlot(t, s) = CHOOSE x \in free : \A y \in free : dist(x) <= dist(y)
  BY DEF FreeSlot, dist
<1>6. FreeSlot(t, s) \in free
  BY <1>4, <1>5
<1> QED BY <1>6

LEMMA EntryFilled ==
    ASSUME NEW e \in Entries, NEW k, NEW off, NEW len
    PROVE  [e EXCEPT !.key = k, !.off = off, !.len = len] = [key |-> k, off |-> off, len |-> len, next |-> e.next]
<1>1. e = [key |-> e.key, off |-> e.off, len |-> e.len, next |-> e.next]
  BY DEF Entries
<1> DEFINE e1 == [e EXCEPT !.key = k]
           e2 == [e1 EXCEPT !.off = off]
           e3 == [e2 EXCEPT !.len = len]
<1>2. e1 = [key |-> k, off |-> e.off, len |-> e.len, next |-> e.next]
  BY <1>1
<1> HIDE DEF e1
<1>3. e2 = [key |-> k, off |-> off, len |-> e.len, next |-> e.next]
  BY <1>2
<1> HIDE DEF e2
<1>4. e3 = [key |-> k, off |-> off, len |-> len, next |-> e.next]
  BY <1>3
<1> QED BY <1>4 DEF e1, e2, e3

LEMMA NewEntryFills ==
    ASSUME NEW t, TableOK(t), NEW k \in Keys, NEW off \in Nat, NEW len \in Nat \ {0},
           \E x \in SlotIds : ~Used(t, x)
    PROVE  \E x \in SlotIds : /\ Filled(t, NewEntry(t, k, off, len), k, x, off, len)
                              /\ NewEntry(t, k, off, len) \in [SlotIds -> Entries]
<1> DEFINE home == Home[k]
           slot == IF Used(t, home) THEN FreeSlot(t, home) ELSE home
           t1   == [t EXCEPT ![slot] = [@ EXCEPT !.key = k, !.off = off, !.len = len]]
           t2   == [t1 EXCEPT ![home].next = slot]
           u    == NewEntry(t, k, off, len)
<1>1. home \in SlotIds
  BY KvConsts
<1>2. slot \in SlotIds /\ ~Used(t, slot) /\ (Used(t, home) => slot # home)
  BY <1>1, FreeSlotFree
<1>3. u = IF Used(t, home) THEN t2 ELSE t1
  BY DEF NewEntry
<1>4. ~Used(t, home) => slot = home
  OBVIOUS
<1> HIDE DEF slot, home
<1>5. t \in [SlotIds -> Entries] /\ t[slot] = FreeEntry
  BY <1>2 DEF TableOK
<1>5a. [t[slot] EXCEPT !.key = k, !.off = off, !.len = len] = [key |-> k, off |-> off, len |-> len, next |-> None]
  <2>1. t[slot] \in Entries /\ t[slot].next = None
    BY <1>2, <1>5 DEF FreeEntry
  <2> QED BY <2>1, EntryFilled
<1>6. /\ t1 \in [SlotIds -> Entries] /\ t1[slot] = [key |-> k, off |-> off, len |-> len, next |-> None]
      /\ \A s \in SlotIds \ {slot} : t1[s] = t[s]
  BY <1>2, <1>5, <1>5a DEF Entries, Links
<1> HIDE DEF t1
<1>7. /\ t2 \in [SlotIds -> Entries] /\ t2[home] = [t1[home] EXCEPT !.next = slot]
      /\ \A s \in SlotIds \ {home} : t2[s] = t1[s]
  BY <1>1, <1>2, <1>6 DEF Entries, Links
<1> HIDE DEF t2, u
<1>8. CASE Used(t, home)
  <2>1. home # slot /\ u = t2 /\ t2[home] = [t[home] EXCEPT !.next = slot] /\ t2[slot] = t1[slot]
    BY <1>1, <1>2, <1>3, <1>6, <1>7, <1>8
  <2>2. t[home] \in Entries /\ t2[home].next = slot
    BY <1>1, <1>5, <2>1 DEF Entries
  <2>3. \A s \in SlotIds \ {slot} : \/ u[s] = t[s]
                                    \/ /\ s = home /\ Used(t, s)
                                       /\ u[s] = [t[s] EXCEPT !.next = slot]
    BY <1>6, <1>7, <1>8, <2>1
  <2>4. u[slot] = [key |-> k, off |-> off, len |-> len, next |-> None]
    BY <1>6, <2>1
  <2>5. Filled(t, u, k, slot, off, len)
    BY <1>2, <1>8, <2>1, <2>2, <2>3, <2>4 DEF Filled, home
  <2> QED BY <1>2, <1>7, <2>1, <2>5 DEF u
<1>9. CASE ~Used(t, home)
  <2>1. home = slot /\ u = t1
    BY <1>3, <1>4, <1>9
  <2>2. Filled(t, u, k, slot, off, len)
    BY <1>1, <1>2, <1>6, <1>9, <2>1 DEF Filled, home
  <2> QED BY <1>2, <1>6, <2>1, <2>2 DEF u
<1> QED BY <1>8, <1>9

(* A new entry is found, and other keys keep theirs or lose it. *)
LEMMA FillKeeps ==
    ASSUME NEW t, TableOK(t), NEW u \in [SlotIds -> Entries], NEW k \in Keys, NEW x,
           NEW off \in Nat, NEW len \in Nat \ {0}, Filled(t, u, k, x, off, len)
    PROVE  /\ TableOK(u)
           /\ Used(u, x) /\ \A s \in SlotIds \ {x} : /\ Used(u, s) <=> Used(t, s)
                                                     /\ u[s].key = t[s].key /\ u[s].off = t[s].off
                                                     /\ u[s].len = t[s].len
           /\ \A j \in Keys \ {k} : Walk(u, j) \in {Walk(t, j), None}
           /\ Walk(t, k) = None => Walk(u, k) = x
           /\ Ranked(t) => Ranked(u)
<1>0. /\ x \in SlotIds /\ ~Used(t, x) /\ x # None /\ None \notin SlotIds
      /\ u[x].key = k /\ u[x].off = off /\ u[x].len = len /\ u[x].next = None
      /\ Used(u, x)
  BY KvConsts DEF Filled, Used
<1>1. ASSUME NEW s \in SlotIds \ {x}
      PROVE  /\ Used(u, s) <=> Used(t, s)
             /\ u[s].key = t[s].key /\ u[s].off = t[s].off /\ u[s].len = t[s].len
             /\ \/ u[s] = t[s]
                \/ Used(t, s) /\ u[s].next = x
  <2>1. t[s] \in Entries
    BY <1>1 DEF TableOK
  <2>2. CASE u[s] = t[s]
    BY <2>2 DEF Used
  <2>3. CASE Used(t, s) /\ u[s] = [t[s] EXCEPT !.next = x]
    BY <2>1, <2>3 DEF Used, Entries
  <2> QED BY <1>1, <2>2, <2>3 DEF Filled
<1>2. TableOK(u)
  <2>1. ASSUME NEW s \in SlotIds, ~Used(u, s) PROVE u[s] = FreeEntry
    BY <1>0, <1>1, <2>1 DEF TableOK
  <2>2. ASSUME NEW s \in SlotIds, Used(u, s)
        PROVE  u[s].key \in Keys /\ u[s].off \in Nat /\ u[s].len \in Nat \ {0}
    BY <1>0, <1>1, <2>2 DEF TableOK
  <2> QED BY <2>1, <2>2 DEF TableOK
<1>3. Linked(t) /\ Linked(u)
  BY <1>2, TableLinked
<1>4. ASSUME NEW j \in Keys \ {k} PROVE Walk(u, j) \in {Walk(t, j), None}
  <2>1. ASSUME NEW s \in SlotIds PROVE SameOrLost(t, u, j, s)
    <3>1. Dead(u, j, x)
      BY <1>0, <1>4 DEF Dead
    <3>2. CASE s = x
      BY <3>1, <3>2 DEF SameOrLost
    <3>3. CASE s # x
      BY <1>0, <1>1, <3>1, <3>3 DEF SameOrLost, Dead
    <3> QED BY <3>2, <3>3
  <2> QED BY <1>3, <1>4, <2>1, FewerFound
<1>5. ASSUME Walk(t, k) = None PROVE Walk(u, k) = x
  <2>1. /\ Slots \in 1..Slots /\ Home[k] \in SlotIds /\ Home[k] \in Links /\ x \in Links
        /\ Home[k] # None
    BY <1>0, KvConsts DEF Links
  <2>2. /\ Walk(t, k) = Turn(t, k, Find(t, k)[Slots - 1], Home[k])
        /\ Walk(u, k) = Turn(u, k, Find(u, k)[Slots - 1], Home[k])
    BY <1>3, <2>1, FindDef DEF Walk
  <2>3. CASE Home[k] = x
    BY <1>0, <2>2, <2>3 DEF Turn
  <2>4. CASE Home[k] # x
    <3>1. Used(t, Home[k]) /\ u[Home[k]].next = x
      BY <2>4 DEF Filled
    <3>2. t[Home[k]].key # k
      BY <1>5, <2>1, <2>2, <3>1 DEF Turn
    <3>3. Used(u, Home[k]) /\ u[Home[k]].key # k
      BY <1>1, <2>1, <2>4, <3>1, <3>2
    <3>4. Walk(u, k) = Find(u, k)[Slots - 1][x]
      BY <2>1, <2>2, <3>1, <3>3 DEF Turn
    <3>5. Slots - 1 \in 1..Slots
      BY <1>0, <2>1, <2>4, KvConsts DEF SlotIds
    <3>6. Find(u, k)[Slots - 1][x] = Turn(u, k, Find(u, k)[(Slots - 1) - 1], x)
      BY <1>3, <2>1, <3>5, FindDef
    <3> QED BY <1>0, <3>4, <3>6 DEF Turn
  <2> QED BY <2>3, <2>4
<1>6. ASSUME Ranked(t) PROVE Ranked(u)
  <2>1. PICK b \in Nat : \E r \in [SlotIds -> 0..b] : RankedBy(t, b, r)
    BY <1>6 DEF Ranked
  <2>2. PICK r \in [SlotIds -> 0..b] : RankedBy(t, b, r)
    BY <2>1
  <2> DEFINE q == [r EXCEPT ![x] = b + 1]
  <2>3. /\ q \in [SlotIds -> 0..(b + 1)] /\ q[x] = b + 1
        /\ \A s \in SlotIds \ {x} : q[s] = r[s] /\ r[s] \in Nat /\ r[s] <= b
    BY <1>0
  <2> HIDE DEF q
  <2>4. RankedBy(u, b + 1, q)
    <3> SUFFICES ASSUME NEW s \in SlotIds, Used(u, s), u[s].next \in SlotIds, Used(u, u[s].next)
                 PROVE  q[s] < q[u[s].next]
      BY DEF RankedBy
    <3>1. s # x
      BY <1>0
    <3>2. CASE u[s].next = x
      BY <2>3, <3>1, <3>2
    <3>3. CASE u[s].next # x
      <4>1. u[s] = t[s] /\ Used(t, s) /\ Used(t, u[s].next)
        BY <1>1, <3>1, <3>3
      <4>2. r[s] < r[u[s].next]
        BY <2>2, <4>1 DEF RankedBy
      <4> QED BY <2>3, <3>1, <3>3, <4>2
    <3> QED BY <3>2, <3>3
  <2> QED BY <2>3, <2>4 DEF Ranked
<1> QED BY <1>0, <1>1, <1>2, <1>4, <1>5, <1>6

(* A deleted key is not found; others keep their entry or lose it. *)
LEMMA DeleteKeeps ==
    ASSUME NEW t, TableOK(t), NEW k \in Keys, NEW x, x = Walk(t, k), x # None,
           NEW u, u = DeleteEntry(t, x)
    PROVE  /\ TableOK(u) /\ x \in SlotIds /\ t[x].key = k
           /\ ~Used(u, x) /\ \A s \in SlotIds \ {x} : u[s] = t[s]
           /\ \A j \in Keys \ {k} : Walk(u, j) \in {Walk(t, j), None}
           /\ Walk(u, k) = None
           /\ Ranked(t) => Ranked(u)
<1>0. x \in SlotIds /\ Used(t, x) /\ t[x].key = k
  BY TableLinked, WalkFinds
<1>1. FreeEntry \in Entries /\ FreeEntry.off = None /\ FreeEntry.next = None
  BY DEF FreeEntry, Entries, Links
<1>2. u \in [SlotIds -> Entries] /\ u[x] = FreeEntry /\ \A s \in SlotIds \ {x} : u[s] = t[s]
  BY <1>0, <1>1 DEF DeleteEntry, TableOK
<1>3. ~Used(u, x) /\ \A s \in SlotIds \ {x} : Used(u, s) <=> Used(t, s)
  BY <1>1, <1>2 DEF Used
<1>4. TableOK(u)
  <2>1. ASSUME NEW s \in SlotIds, ~Used(u, s) PROVE u[s] = FreeEntry
    BY <1>2, <1>3, <2>1 DEF TableOK
  <2>2. ASSUME NEW s \in SlotIds, Used(u, s)
        PROVE  u[s].key \in Keys /\ u[s].off \in Nat /\ u[s].len \in Nat \ {0}
    BY <1>2, <1>3, <2>2 DEF TableOK
  <2> QED BY <1>2, <2>1, <2>2 DEF TableOK
<1>5. Linked(t) /\ Linked(u)
  BY <1>4, TableLinked
<1>6. ASSUME NEW j \in Keys PROVE Walk(u, j) \in {Walk(t, j), None}
  <2>1. \A s \in SlotIds : SameOrLost(t, u, j, s)
    BY <1>2, <1>3 DEF SameOrLost, Dead
  <2> QED BY <1>5, <2>1, FewerFound
<1>7. Walk(u, k) = None
  BY <1>3, <1>5, <1>6, WalkFinds
<1>8. ASSUME Ranked(t) PROVE Ranked(u)
  <2>1. PICK b \in Nat : \E r \in [SlotIds -> 0..b] : RankedBy(t, b, r)
    BY <1>8 DEF Ranked
  <2>2. PICK r \in [SlotIds -> 0..b] : RankedBy(t, b, r)
    BY <2>1
  <2>3. RankedBy(u, b, r)
    BY <1>2, <1>3, <2>2 DEF RankedBy
  <2> QED BY <2>3 DEF Ranked
<1> QED BY <1>0, <1>2, <1>3, <1>4, <1>6, <1>7, <1>8

-----------------------------------------------------------------------------
(* Places in the storage. *)

Classes == {"small", "large"}
UnitAt(c, b) == BaseOf(c) + b * UnitOf(c)

(* The places given out, apart from each other and inside the storage. *)
Placed(t, rm) ==
    /\ rm \in [0..(Cells - 1) -> Nat]
    /\ \A s \in SlotIds : Used(t, s) =>
          /\ t[s].off \in 0..(Cells - 1) /\ t[s].len <= rm[t[s].off] /\ t[s].off + rm[t[s].off] <= Cells
    /\ \A s, x \in SlotIds : Used(t, s) /\ Used(t, x) /\ s # x =>
          \/ t[s].off + rm[t[s].off] <= t[x].off
          \/ t[x].off + rm[t[x].off] <= t[s].off

(* An allocator gives out what no entry has: it never takes anything back. *)
AllocType(a) ==
    /\ a \in [latest : Nat, bits : [Classes -> SUBSET Nat], last : [Classes -> Nat]]
    /\ a.latest <= Cells
    /\ \A c \in Classes : a.bits[c] \subseteq 0..(BitsOf(c) - 1)
AllocOK(t, rm, a) ==
    /\ AllocType(a)
    /\ allocator = "APPEND_ONLY" => \A s \in SlotIds : Used(t, s) => t[s].off + rm[t[s].off] <= a.latest
    /\ allocator # "APPEND_ONLY" =>
          \A s \in SlotIds : Used(t, s) =>
             \E c \in Classes : \E b \in a.bits[c] : t[s].off = UnitAt(c, b) /\ rm[t[s].off] = UnitOf(c)

RoomFor(len) == IF allocator = "BITMAP" THEN UnitOf(SizeClass(len)) ELSE len

LEMMA UnitFacts ==
    ASSUME NEW c \in Classes
    PROVE  /\ UnitOf(c) \in Nat \ {0} /\ BaseOf(c) \in Nat /\ BitsOf(c) \in Nat
           /\ \A b \in 0..(BitsOf(c) - 1) : b * UnitOf(c) \in Nat /\ b * UnitOf(c) + UnitOf(c) <= Cells \div 2
           /\ Cells \div 2 \in Nat /\ Cells \div 2 + Cells \div 2 <= Cells
           /\ BaseOf("small") = 0 /\ BaseOf("large") = Cells \div 2
<1> DEFINE H == Cells \div 2
           U == UnitOf(c)
<1>1. H \in Nat /\ H + H <= Cells
  BY KvConsts
<1>2. U \in Nat \ {0} /\ BaseOf(c) \in Nat /\ BaseOf("small") = 0 /\ BaseOf("large") = H
  BY <1>1, KvConsts DEF UnitOf, BaseOf
<1>3. BitsOf(c) = H \div U
  BY DEF BitsOf
<1> HIDE DEF H, U
<1>4. H \div U \in Nat /\ (H \div U) * U <= H
  BY <1>1, <1>2, AlignDownFacts
<1>5. ASSUME NEW b \in 0..((H \div U) - 1) PROVE b * U \in Nat /\ b * U + U <= H
  <2> DEFINE n == H \div U
             m == n - (b + 1)
  <2>1. b \in Nat /\ n \in Nat /\ m \in Nat /\ n = (b + 1) + m /\ n * U <= H
    BY <1>4
  <2> HIDE DEF n, m
  <2>2. n * U = b * U + U + m * U
    BY <1>2, <2>1
  <2>3. m * U \in Nat /\ b * U \in Nat
    BY <1>2, <2>1
  <2> QED BY <1>1, <1>2, <2>1, <2>2, <2>3
<1> QED BY <1>1, <1>2, <1>3, <1>4, <1>5 DEF H, U

LEMMA UnitPlace ==
    ASSUME NEW c \in Classes, NEW b \in 0..(BitsOf(c) - 1)
    PROVE  UnitAt(c, b) \in Nat /\ UnitAt(c, b) + UnitOf(c) <= Cells
<1> DEFINE p == b * UnitOf(c)
<1>1. /\ UnitOf(c) \in Nat \ {0} /\ p \in Nat /\ p + UnitOf(c) <= Cells \div 2
      /\ Cells \div 2 \in Nat /\ Cells \div 2 + Cells \div 2 <= Cells
      /\ BaseOf(c) \in {0, Cells \div 2}
  BY UnitFacts DEF Classes
<1>2. UnitAt(c, b) = BaseOf(c) + p
  BY DEF UnitAt
<1> HIDE DEF p
<1> QED BY <1>1, <1>2, KvConsts

(* Different units do not overlap. *)
LEMMA UnitsApart ==
    ASSUME NEW c \in Classes, NEW b \in 0..(BitsOf(c) - 1),
           NEW e \in Classes, NEW g \in 0..(BitsOf(e) - 1), c # e \/ b # g
    PROVE  UnitAt(c, b) + UnitOf(c) <= UnitAt(e, g) \/ UnitAt(e, g) + UnitOf(e) <= UnitAt(c, b)
<1> DEFINE p == b * UnitOf(c)
           q == g * UnitOf(e)
<1>1. /\ UnitOf(c) \in Nat \ {0} /\ p \in Nat /\ p + UnitOf(c) <= Cells \div 2 /\ Cells \div 2 \in Nat
      /\ UnitOf(e) \in Nat \ {0} /\ q \in Nat /\ q + UnitOf(e) <= Cells \div 2
      /\ BaseOf("small") = 0 /\ BaseOf("large") = Cells \div 2
  BY UnitFacts
<1>2. UnitAt(c, b) = BaseOf(c) + p /\ UnitAt(e, g) = BaseOf(e) + q
  BY DEF UnitAt
<1>3. BaseOf(c) \in Nat /\ b \in Nat /\ g \in Nat
  BY UnitFacts
<1>4. CASE c = e
  <2>1. b # g
    BY <1>4
  <2>2. \A m, n \in Nat : m < n => m * UnitOf(c) + UnitOf(c) <= n * UnitOf(c)
    <3> SUFFICES ASSUME NEW m \in Nat, NEW n \in Nat, m < n
                 PROVE  m * UnitOf(c) + UnitOf(c) <= n * UnitOf(c)
      OBVIOUS
    <3> DEFINE d == n - (m + 1)
               U == UnitOf(c)
    <3>1. d \in Nat /\ n = (m + 1) + d /\ U \in Nat \ {0}
      BY <1>1
    <3> HIDE DEF d, U
    <3>2. n * U = m * U + U + d * U
      BY <3>1
    <3>3. d * U \in Nat /\ m * U \in Nat
      BY <3>1
    <3>4. m * U + U <= n * U
      BY <3>1, <3>2, <3>3
    <3> QED BY <3>4 DEF U
  <2>3. p + UnitOf(c) <= q \/ q + UnitOf(c) <= p
    <3>1. b < g \/ g < b
      BY <1>3, <2>1
    <3> QED BY <1>3, <1>4, <2>2, <3>1
  <2> HIDE DEF p, q
  <2> QED BY <1>1, <1>2, <1>3, <1>4, <2>3
<1>5. CASE c = "small" /\ e = "large"
  <2> HIDE DEF p, q
  <2> QED BY <1>1, <1>2, <1>5
<1>6. CASE c = "large" /\ e = "small"
  <2> HIDE DEF p, q
  <2> QED BY <1>1, <1>2, <1>6
<1> QED BY <1>4, <1>5, <1>6 DEF Classes

(* r cells at off for a value of len, where no entry is. *)
NewPlace(t, rm, off, r, len) ==
    /\ off \in Nat /\ r \in Nat \ {0} /\ len <= r /\ off + r <= Cells
    /\ \A s \in SlotIds : Used(t, s) => \/ t[s].off + rm[t[s].off] <= off
                                        \/ off + r <= t[s].off

(* What the allocator a2 knows of the place it has given out. *)
GivenOut(a, a2, off, r) ==
    /\ AllocType(a2)
    /\ allocator = "APPEND_ONLY" => a2.latest = off + r /\ a.latest <= a2.latest
    /\ allocator # "APPEND_ONLY" =>
          /\ \E c \in Classes : \E b \in a2.bits[c] : off = UnitAt(c, b) /\ r = UnitOf(c)
          /\ \A c \in Classes : a.bits[c] \subseteq a2.bits[c]

LEMMA Allocates ==
    ASSUME NEW t, TableOK(t), NEW rm, Placed(t, rm), NEW a, AllocOK(t, rm, a),
           allocator \in {"BITMAP", "APPEND_ONLY"}, NEW len \in Lens, HasRoom(a, len)
    PROVE  /\ NewPlace(t, rm, OffsetFor(a, len), RoomFor(len), len)
           /\ GivenOut(a, Allocated(a, len), OffsetFor(a, len), RoomFor(len))
<1>0. /\ a \in [latest : Nat, bits : [Classes -> SUBSET Nat], last : [Classes -> Nat]]
      /\ a.latest <= Cells /\ \A c \in Classes : a.bits[c] \subseteq 0..(BitsOf(c) - 1)
      /\ a.latest \in Nat /\ len \in Nat \ {0} /\ len <= Large
  BY KvConsts DEF AllocOK, AllocType
<1>1. CASE allocator = "APPEND_ONLY"
  <2>1. OffsetFor(a, len) = a.latest /\ RoomFor(len) = len /\ a.latest + len <= Cells
    BY <1>1 DEF OffsetFor, RoomFor, HasRoom
  <2>2. Allocated(a, len) = [a EXCEPT !.latest = @ + len]
    BY <1>1 DEF Allocated
  <2>3. /\ Allocated(a, len) \in [latest : Nat, bits : [Classes -> SUBSET Nat], last : [Classes -> Nat]]
        /\ Allocated(a, len).latest = a.latest + len /\ Allocated(a, len).bits = a.bits
    BY <1>0, <2>2
  <2>4. AllocType(Allocated(a, len))
    BY <1>0, <2>1, <2>3 DEF AllocType
  <2>5. NewPlace(t, rm, a.latest, len, len)
    BY <1>0, <1>1, <2>1 DEF NewPlace, AllocOK
  <2> QED BY <1>0, <1>1, <2>1, <2>3, <2>4, <2>5 DEF GivenOut
<1>2. CASE allocator = "BITMAP"
  <2> DEFINE c == SizeClass(len)
             Z == {b \in a.last[c]..(BitsOf(c) - 1) : b \notin a.bits[c]}
             z == ZeroBit(a, c)
             w == IF z + 1 > BitsOf(c) THEN 0 ELSE z + 1
  <2>1. c \in Classes /\ len <= UnitOf(c) /\ UnitOf(c) \in Nat \ {0}
    BY <1>0, KvConsts DEF SizeClass, Classes, UnitOf
  <2>2. a.last[c] \in Nat /\ BitsOf(c) \in Nat /\ a.bits[c] \in SUBSET Nat
    BY <1>0, <2>1, UnitFacts
  <2>3. Z \in SUBSET Nat /\ Z # {}
    <3>1. \E b \in a.last[c]..(BitsOf(c) - 1) : b \notin a.bits[c]
      BY <1>2 DEF HasRoom
    <3> QED BY <2>2, <3>1
  <2>4. z = CHOOSE x \in Z : \A y \in Z : x <= y
    BY DEF ZeroBit, Min
  <2>5. z \in Z
    BY <2>3, <2>4, LeastElement
  <2>6. z \in 0..(BitsOf(c) - 1) /\ z \notin a.bits[c] /\ z \in Nat
    BY <2>2, <2>5
  <2>7. OffsetFor(a, len) = UnitAt(c, z) /\ RoomFor(len) = UnitOf(c)
    BY <1>2 DEF OffsetFor, RoomFor, UnitAt
  <2>8. Allocated(a, len) = [a EXCEPT !.bits[c] = @ \cup {z}, !.last[c] = w]
    BY <1>2 DEF Allocated
  <2>9. w \in Nat
    BY <2>6, <2>2
  <2> HIDE DEF c, z, w, Z
  <2> DEFINE a1 == [a EXCEPT !.bits[c] = @ \cup {z}]
             a2 == [a1 EXCEPT !.last[c] = w]
  <2>10. /\ a1 \in [latest : Nat, bits : [Classes -> SUBSET Nat], last : [Classes -> Nat]]
         /\ a1.latest = a.latest /\ a1.bits = [a.bits EXCEPT ![c] = @ \cup {z}]
    BY <1>0, <2>1, <2>6
  <2> HIDE DEF a1
  <2>11. /\ a2 \in [latest : Nat, bits : [Classes -> SUBSET Nat], last : [Classes -> Nat]]
         /\ a2.latest = a.latest /\ a2.bits = [a.bits EXCEPT ![c] = @ \cup {z}]
    BY <2>10, <2>1, <2>9
  <2>12. Allocated(a, len) = a2
    BY <2>8 DEF a1
  <2> HIDE DEF a2
  <2>13. /\ a2.bits[c] = a.bits[c] \cup {z}
         /\ \A e \in Classes : a.bits[e] \subseteq a2.bits[e] /\ a2.bits[e] \subseteq a.bits[e] \cup {z}
         /\ \A e \in Classes : e # c => a2.bits[e] = a.bits[e]
    BY <1>0, <2>1, <2>11
  <2>14. AllocType(a2)
    BY <1>0, <2>6, <2>11, <2>13 DEF AllocType
  <2>15. GivenOut(a, a2, UnitAt(c, z), UnitOf(c))
    BY <1>2, <2>1, <2>13, <2>14 DEF GivenOut
  <2>16. UnitAt(c, z) \in Nat /\ UnitAt(c, z) + UnitOf(c) <= Cells
    BY <2>1, <2>6, UnitPlace
  <2>17. ASSUME NEW s \in SlotIds, Used(t, s)
         PROVE  \/ t[s].off + rm[t[s].off] <= UnitAt(c, z)
                \/ UnitAt(c, z) + UnitOf(c) <= t[s].off
    <3>1. PICK e \in Classes : \E b \in a.bits[e] : t[s].off = UnitAt(e, b) /\ rm[t[s].off] = UnitOf(e)
      BY <1>2, <2>17 DEF AllocOK
    <3>2. PICK b \in a.bits[e] : t[s].off = UnitAt(e, b) /\ rm[t[s].off] = UnitOf(e)
      BY <3>1
    <3>3. b \in 0..(BitsOf(e) - 1) /\ (c # e \/ z # b)
      BY <1>0, <2>6, <3>2
    <3>4. UnitAt(c, z) + UnitOf(c) <= UnitAt(e, b) \/ UnitAt(e, b) + UnitOf(e) <= UnitAt(c, z)
      BY <2>1, <2>6, <3>3, UnitsApart
    <3> QED BY <3>2, <3>4
  <2>18. NewPlace(t, rm, UnitAt(c, z), UnitOf(c), len)
    BY <2>1, <2>16, <2>17 DEF NewPlace
  <2> QED BY <2>7, <2>12, <2>15, <2>18
<1> QED BY <1>1, <1>2

-----------------------------------------------------------------------------
(* Stores. *)

MemOK(m) == m \in [0..(Cells - 1) -> Nat]

DevOK(d) ==
    /\ TableOK(d.table) /\ Ranked(d.table)
    /\ Placed(d.table, d.room) /\ AllocOK(d.table, d.room, d.a)
    /\ MemOK(d.mem)

KeysStay(t, u) == \A s \in SlotIds : Used(t, s) => Used(u, s) /\ u[s].key = t[s].key

(* The value of key j is the same, or the key is lost. *)
ValueStays(d, d2, j) ==
    /\ Walk(d2.table, j) # None => Walk(d.table, j) # None
    /\ Walk(d2.table, j) # None => Value(d2.table, d2.mem, j) = Value(d.table, d.mem, j)

(* A store of len cells v under key k has made d2 of d. *)
StoreOK(d, d2, k, len, v) ==
    /\ DevOK(d2) /\ KeysStay(d.table, d2.table)
    /\ Walk(d2.table, k) # None
    /\ Value(d2.table, d2.mem, k) = [i \in 1..len |-> v]
    /\ \A j \in Keys \ {k} : ValueStays(d, d2, j)

CopyMade(m, n, off, len, v) ==
    /\ MemOK(n)
    /\ \A c \in 0..(Cells - 1) : c \in off..(off + len - 1) => n[c] = v
    /\ \A c \in 0..(Cells - 1) : c \notin off..(off + len - 1) => n[c] = m[c]

LEMMA CopiedFacts ==
    ASSUME NEW m, MemOK(m), NEW off \in Nat, NEW len \in Nat, NEW v \in Nat
    PROVE  CopyMade(m, Copied(m, off, len, v), off, len, v)
<1>0. m \in [0..(Cells - 1) -> Nat] /\ DOMAIN m = 0..(Cells - 1)
  BY DEF MemOK
<1> DEFINE f == [c \in 0..(Cells - 1) |-> IF c \in off..(off + len - 1) THEN v ELSE m[c]]
<1>1. Copied(m, off, len, v) = f
  BY <1>0 DEF Copied
<1>2. f \in [0..(Cells - 1) -> Nat]
  BY <1>0
<1>3. \A c \in 0..(Cells - 1) : f[c] = IF c \in off..(off + len - 1) THEN v ELSE m[c]
  OBVIOUS
<1> HIDE DEF f
<1> QED BY <1>1, <1>2, <1>3 DEF MemOK, CopyMade

(* An entry apart from what is written keeps its value. *)
LEMMA ValueKept ==
    ASSUME NEW d, DevOK(d), NEW d2, TableOK(d2.table), NEW j \in Keys,
           NEW off \in Nat, NEW len \in Nat, NEW v \in Nat, d2.mem = Copied(d.mem, off, len, v),
           Walk(d2.table, j) \in {Walk(d.table, j), None},
           \A s \in SlotIds : Used(d.table, s) /\ d.table[s].key = j =>
               /\ d2.table[s].off = d.table[s].off /\ d2.table[s].len = d.table[s].len
               /\ \/ d.table[s].off + d.table[s].len <= off
                  \/ off + len <= d.table[s].off
    PROVE  ValueStays(d, d2, j)
<1> SUFFICES ASSUME Walk(d2.table, j) # None
             PROVE  /\ Walk(d.table, j) # None
                    /\ Value(d2.table, d2.mem, j) = Value(d.table, d.mem, j)
  BY DEF ValueStays
<1> DEFINE s == Walk(d.table, j)
           t == d.table
           u == d2.table
<1>1. Walk(u, j) = s /\ s # None
  OBVIOUS
<1>2. s \in SlotIds /\ Used(t, s) /\ t[s].key = j
  BY <1>1, TableLinked, WalkFinds DEF DevOK
<1>3. /\ u[s].off = t[s].off /\ u[s].len = t[s].len
      /\ t[s].off + t[s].len <= off \/ off + len <= t[s].off
  BY <1>2
<1>4. /\ t[s].off \in Nat /\ t[s].len \in Nat \ {0} /\ t[s].off + t[s].len <= Cells
  <2> HIDE DEF s
  <2>1. t[s].off \in Nat /\ t[s].len \in Nat \ {0}
    BY <1>2 DEF DevOK, TableOK
  <2>2. t[s].off \in 0..(Cells - 1) /\ t[s].len <= d.room[t[s].off] /\ t[s].off + d.room[t[s].off] <= Cells
        /\ d.room \in [0..(Cells - 1) -> Nat]
    BY <1>2 DEF DevOK, Placed
  <2> HIDE DEF t
  <2>3. d.room[t[s].off] \in Nat /\ Cells \in Nat
    BY <2>2, KvConsts
  <2> DEFINE o == t[s].off
             n == t[s].len
             q == d.room[o]
  <2>4. o \in Nat /\ n \in Nat /\ q \in Nat /\ n <= q /\ o + q <= Cells
    BY <2>1, <2>2, <2>3
  <2> HIDE DEF o, n, q
  <2>5. o + n <= Cells
    BY <2>3, <2>4
  <2> QED BY <2>1, <2>5 DEF o, n
<1>5. /\ Value(t, d.mem, j) = [i \in 1..t[s].len |-> d.mem[t[s].off + i - 1]]
      /\ Value(u, d2.mem, j) = [i \in 1..u[s].len |-> d2.mem[u[s].off + i - 1]]
  BY <1>1 DEF Value
<1>6. CopyMade(d.mem, d2.mem, off, len, v)
  BY CopiedFacts DEF DevOK
<1> DEFINE o == t[s].off
           l == t[s].len
<1>7. ASSUME NEW i \in 1..l PROVE d2.mem[o + i - 1] = d.mem[o + i - 1]
  <2> HIDE DEF s, t, u, o, l
  <2>1. o \in Nat /\ l \in Nat /\ o + l <= Cells /\ (o + l <= off \/ off + len <= o)
    BY <1>3, <1>4 DEF o, l
  <2>2. o + i - 1 \in 0..(Cells - 1) /\ o + i - 1 \notin off..(off + len - 1)
    BY <2>1, KvConsts
  <2> QED BY <1>6, <2>2 DEF CopyMade
<1>8. [i \in 1..l |-> d2.mem[o + i - 1]] = [i \in 1..l |-> d.mem[o + i - 1]]
  BY <1>7
<1> QED BY <1>1, <1>3, <1>5, <1>8

(* What is written is read. *)
LEMMA ValueWritten ==
    ASSUME NEW u, NEW m, MemOK(m), NEW k, NEW s, Walk(u, k) = s, s # None,
           NEW off \in Nat, NEW len \in Nat, NEW v \in Nat, off + len <= Cells,
           u[s].off = off, u[s].len = len, NEW n, n = Copied(m, off, len, v)
    PROVE  Value(u, n, k) = [i \in 1..len |-> v]
<1>1. Value(u, n, k) = [i \in 1..len |-> n[off + i - 1]]
  BY DEF Value
<1>2. ASSUME NEW i \in 1..len PROVE n[off + i - 1] = v
  <2>1. off + i - 1 \in 0..(Cells - 1) /\ off + i - 1 \in off..(off + len - 1)
    BY KvConsts
  <2>2. CopyMade(m, n, off, len, v)
    BY CopiedFacts
  <2> QED BY <2>1, <2>2 DEF CopyMade
<1> QED BY <1>1, <1>2

(* The place of the new entry in slot x joins those given out. *)
EntryAdded(t, u, x, off, len) ==
    /\ Used(u, x) /\ u[x].off = off /\ u[x].len = len
    /\ \A s \in SlotIds \ {x} : (Used(u, s) <=> Used(t, s)) /\ u[s].off = t[s].off /\ u[s].len = t[s].len
RoomAdded(rm, rm2, off, r) == rm2 = [rm EXCEPT ![off] = r]
PlaceAdded(t, u, rm, rm2, x, off, r) ==
    /\ Placed(u, rm2)
    /\ rm2[off] = r
    /\ \A s \in SlotIds \ {x} : Used(u, s) => rm2[u[s].off] = rm[t[s].off]

LEMMA PlacedMore ==
    ASSUME NEW t, TableOK(t), NEW u, TableOK(u), NEW rm, Placed(t, rm), NEW x \in SlotIds,
           NEW off, NEW r, NEW len \in Nat \ {0}, NewPlace(t, rm, off, r, len),
           EntryAdded(t, u, x, off, len), NEW rm2, RoomAdded(rm, rm2, off, r)
    PROVE  PlaceAdded(t, u, rm, rm2, x, off, r)
<1> USE DEF EntryAdded, RoomAdded
<1>1. /\ off \in Nat /\ r \in Nat \ {0} /\ len <= r /\ off + r <= Cells /\ off \in 0..(Cells - 1)
      /\ \A s \in SlotIds : Used(t, s) => \/ t[s].off + rm[t[s].off] <= off
                                          \/ off + r <= t[s].off
  BY KvConsts DEF NewPlace
<1>2. rm \in [0..(Cells - 1) -> Nat]
  BY DEF Placed
<1>3. /\ rm2 \in [0..(Cells - 1) -> Nat] /\ rm2[off] = r
      /\ \A c \in 0..(Cells - 1) : c # off => rm2[c] = rm[c]
  BY <1>1, <1>2
<1>4. ASSUME NEW s \in SlotIds \ {x}, Used(u, s)
      PROVE  /\ Used(t, s) /\ u[s].off = t[s].off /\ u[s].len = t[s].len
             /\ t[s].off \in 0..(Cells - 1) /\ t[s].off \in Nat /\ t[s].len \in Nat \ {0}
             /\ rm[t[s].off] \in Nat \ {0} /\ t[s].len <= rm[t[s].off]
             /\ t[s].off + rm[t[s].off] <= Cells
             /\ t[s].off # off /\ rm2[u[s].off] = rm[t[s].off]
  <2>1. Used(t, s) /\ u[s].off = t[s].off /\ u[s].len = t[s].len
    BY <1>4
  <2>2. /\ t[s].off \in 0..(Cells - 1) /\ t[s].len <= rm[t[s].off] /\ t[s].off + rm[t[s].off] <= Cells
        /\ t[s].len \in Nat \ {0} /\ t[s].off \in Nat
    BY <2>1 DEF Placed, TableOK
  <2> DEFINE o == t[s].off
             l == t[s].len
  <2> HIDE DEF o, l
  <2>3. rm[o] \in Nat
    BY <1>2, <2>2 DEF o
  <2>4. rm[o] \in Nat \ {0}
    BY <2>2, <2>3 DEF o, l
  <2>5. o # off
    <3>1. o \in Nat /\ (o + rm[o] <= off \/ off + r <= o)
      BY <1>1, <2>1, <2>2 DEF o
    <3> QED BY <1>1, <2>4, <3>1
  <2>6. rm2[o] = rm[o]
    BY <1>3, <2>2, <2>5 DEF o
  <2> QED BY <2>1, <2>2, <2>4, <2>5, <2>6 DEF o
<1>5. Placed(u, rm2)
  <2>1. ASSUME NEW s \in SlotIds, Used(u, s)
        PROVE  u[s].off \in 0..(Cells - 1) /\ u[s].len <= rm2[u[s].off] /\ u[s].off + rm2[u[s].off] <= Cells
    <3>1. CASE s = x
      BY <1>1, <1>3, <3>1
    <3>2. CASE s # x
      BY <1>4, <2>1, <3>2
    <3> QED BY <3>1, <3>2
  <2>2. ASSUME NEW s \in SlotIds, NEW y \in SlotIds, Used(u, s), Used(u, y), s # y
        PROVE  \/ u[s].off + rm2[u[s].off] <= u[y].off
               \/ u[y].off + rm2[u[y].off] <= u[s].off
    <3>1. CASE s = x
      BY <1>1, <1>3, <1>4, <2>2, <3>1
    <3>2. CASE y = x
      BY <1>1, <1>3, <1>4, <2>2, <3>2
    <3>3. CASE s # x /\ y # x
      <4>1. /\ Used(t, s) /\ u[s].off = t[s].off /\ rm2[u[s].off] = rm[t[s].off]
            /\ Used(t, y) /\ u[y].off = t[y].off /\ rm2[u[y].off] = rm[t[y].off]
        BY <1>4, <2>2, <3>3
      <4> QED BY <2>2, <4>1 DEF Placed
    <3> QED BY <3>1, <3>2, <3>3
  <2> QED BY <1>3, <2>1, <2>2 DEF Placed
<1> QED BY <1>3, <1>4, <1>5 DEF PlaceAdded

LEMMA InsertOK ==
    ASSUME NEW d, DevOK(d), allocator \in {"BITMAP", "APPEND_ONLY"}, NEW k \in Keys,
           NEW len \in Lens, NEW v \in Nat, Walk(d.table, k) = None, HasRoom(d.a, len),
           \E x \in SlotIds : ~Used(d.table, x)
    PROVE  StoreOK(d, Insert(d, k, len, v), k, len, v)
<1> DEFINE t   == d.table
           rm  == d.room
           off == OffsetFor(d.a, len)
           r   == RoomFor(len)
           d2  == Insert(d, k, len, v)
           u   == NewEntry(t, k, off, len)
           rm2 == [rm EXCEPT ![off] = r]
<1>0. /\ TableOK(t) /\ Ranked(t) /\ Placed(t, rm) /\ AllocOK(t, rm, d.a) /\ MemOK(d.mem)
      /\ len \in Nat \ {0}
  BY KvConsts DEF DevOK
<1>1. NewPlace(t, rm, off, r, len) /\ GivenOut(d.a, Allocated(d.a, len), off, r)
  BY <1>0, Allocates
<1>2. off \in Nat /\ r \in Nat \ {0} /\ len <= r /\ off + r <= Cells
  BY <1>1 DEF NewPlace
<1>3. /\ d2.table = u /\ d2.mem = Copied(d.mem, off, len, v)
      /\ d2.room = rm2 /\ d2.a = Allocated(d.a, len)
  BY DEF Insert, RoomFor
<1> HIDE DEF t, off, r, d2, u, rm, rm2
<1>4. PICK x \in SlotIds : Filled(t, u, k, x, off, len) /\ u \in [SlotIds -> Entries]
  BY <1>0, <1>2, NewEntryFills DEF t, u
<1>5. /\ TableOK(u)
      /\ Used(u, x) /\ \A s \in SlotIds \ {x} : /\ Used(u, s) <=> Used(t, s)
                                                /\ u[s].key = t[s].key /\ u[s].off = t[s].off
                                                /\ u[s].len = t[s].len
      /\ \A j \in Keys \ {k} : Walk(u, j) \in {Walk(t, j), None}
      /\ Walk(t, k) = None => Walk(u, k) = x
      /\ Ranked(t) => Ranked(u)
  BY <1>0, <1>2, <1>4, FillKeeps
<1>6. x \in SlotIds /\ ~Used(t, x) /\ u[x].off = off /\ u[x].len = len
  BY <1>4 DEF Filled
<1>7. /\ Placed(u, rm2) /\ rm2[off] = r
      /\ \A s \in SlotIds \ {x} : Used(u, s) => rm2[u[s].off] = rm[t[s].off]
  <2>1. RoomAdded(rm, rm2, off, r)
    BY DEF rm2, RoomAdded
  <2>2. EntryAdded(t, u, x, off, len) /\ TableOK(u)
    BY <1>5, <1>6 DEF EntryAdded
  <2>3. PlaceAdded(t, u, rm, rm2, x, off, r)
    BY <1>0, <1>1, <2>1, <2>2, PlacedMore
  <2> QED BY <2>3 DEF PlaceAdded
<1>8. AllocOK(u, rm2, d2.a)
  <2>1. AllocType(d2.a)
    BY <1>1, <1>3 DEF GivenOut
  <2>2. ASSUME allocator = "APPEND_ONLY", NEW s \in SlotIds, Used(u, s)
        PROVE  u[s].off + rm2[u[s].off] <= d2.a.latest
    <3>1. d2.a.latest = off + r /\ d.a.latest <= off + r
      BY <1>1, <1>3, <2>2 DEF GivenOut
    <3>2. CASE s = x
      BY <1>2, <1>6, <1>7, <3>1, <3>2
    <3>3. CASE s # x
      <4>1. Used(t, s) /\ u[s].off = t[s].off /\ rm2[u[s].off] = rm[t[s].off]
        BY <1>5, <1>7, <2>2, <3>3
      <4>2. t[s].off + rm[t[s].off] <= d.a.latest
        BY <1>0, <2>2, <4>1 DEF AllocOK
      <4>3. t[s].off \in Nat /\ rm[t[s].off] \in Nat /\ d.a.latest \in Nat
        BY <1>0, <4>1 DEF AllocOK, AllocType, Placed, TableOK
      <4> QED BY <1>2, <3>1, <4>1, <4>2, <4>3
    <3> QED BY <3>2, <3>3
  <2>3. ASSUME allocator # "APPEND_ONLY", NEW s \in SlotIds, Used(u, s)
        PROVE  \E c \in Classes : \E b \in d2.a.bits[c] : u[s].off = UnitAt(c, b) /\ rm2[u[s].off] = UnitOf(c)
    <3>1. /\ \E c \in Classes : \E b \in d2.a.bits[c] : off = UnitAt(c, b) /\ r = UnitOf(c)
          /\ \A c \in Classes : d.a.bits[c] \subseteq d2.a.bits[c]
      BY <1>1, <1>3, <2>3 DEF GivenOut
    <3>2. CASE s = x
      BY <1>6, <1>7, <3>1, <3>2
    <3>3. CASE s # x
      <4>1. Used(t, s) /\ u[s].off = t[s].off /\ rm2[u[s].off] = rm[t[s].off]
        BY <1>5, <1>7, <2>3, <3>3
      <4>2. \E c \in Classes : \E b \in d.a.bits[c] : t[s].off = UnitAt(c, b) /\ rm[t[s].off] = UnitOf(c)
        BY <1>0, <2>3, <4>1 DEF AllocOK
      <4> QED BY <3>1, <4>1, <4>2
    <3> QED BY <3>2, <3>3
  <2> QED BY <2>1, <2>2, <2>3 DEF AllocOK
<1>9. MemOK(d2.mem)
  BY <1>0, <1>2, <1>3, CopiedFacts DEF CopyMade
<1>10. DevOK(d2)
  BY <1>0, <1>3, <1>5, <1>7, <1>8, <1>9 DEF DevOK
<1>11. KeysStay(t, u)
  BY <1>5, <1>6 DEF KeysStay
<1>12. Walk(u, k) = x /\ x # None
  BY <1>5, KvConsts DEF t
<1>13. off + len <= Cells
  BY <1>0, <1>2, KvConsts
<1>14. Value(u, d2.mem, k) = [i \in 1..len |-> v]
  BY <1>0, <1>2, <1>3, <1>6, <1>12, <1>13, ValueWritten
<1>15. ASSUME NEW j \in Keys \ {k} PROVE ValueStays(d, d2, j)
  <2>1. ASSUME NEW s \in SlotIds, Used(t, s)
        PROVE  /\ u[s].off = t[s].off /\ u[s].len = t[s].len
               /\ \/ t[s].off + t[s].len <= off
                  \/ off + len <= t[s].off
    <3>1. s # x
      BY <1>6, <2>1
    <3>2. t[s].off + rm[t[s].off] <= off \/ off + r <= t[s].off
      BY <1>1, <2>1 DEF NewPlace
    <3>3. t[s].off \in Nat /\ t[s].len \in Nat /\ rm[t[s].off] \in Nat /\ t[s].len <= rm[t[s].off]
      BY <1>0, <2>1 DEF Placed, TableOK
    <3> QED BY <1>0, <1>2, <1>5, <3>1, <3>2, <3>3
  <2>2. Walk(d2.table, j) \in {Walk(d.table, j), None} /\ TableOK(d2.table)
    BY <1>3, <1>5, <1>15 DEF t
  <2>3. \A s \in SlotIds : Used(d.table, s) /\ d.table[s].key = j =>
               /\ d2.table[s].off = d.table[s].off /\ d2.table[s].len = d.table[s].len
               /\ \/ d.table[s].off + d.table[s].len <= off
                  \/ off + len <= d.table[s].off
    BY <1>3, <2>1 DEF t
  <2> QED BY <1>0, <1>2, <1>3, <2>2, <2>3, ValueKept
<1> QED BY <1>3, <1>10, <1>11, <1>12, <1>14, <1>15 DEF StoreOK, t, d2

LEMMA UpdateOK ==
    ASSUME NEW d, DevOK(d), NEW k \in Keys, NEW len \in Lens, NEW v \in Nat, NEW batched,
           NEW s, s = Walk(d.table, k), s # None, len <= d.room[d.table[s].off],
           batched \/ len > Small \/ d.table[s].len > Small => len = d.table[s].len
    PROVE  StoreOK(d, Update(d, s, len, v, batched), k, len, v)
<1> DEFINE t  == d.table
           e  == t[s]
           d2 == Update(d, s, len, v, batched)
           l  == IF ~batched /\ len # e.len /\ len <= Small /\ e.len <= Small THEN len ELSE e.len
           u  == [t EXCEPT ![s].len = l]
<1>0. /\ TableOK(t) /\ Ranked(t) /\ Placed(t, d.room) /\ AllocOK(t, d.room, d.a) /\ MemOK(d.mem)
      /\ len \in Nat \ {0} /\ Linked(t)
  BY KvConsts, TableLinked DEF DevOK
<1>1. s \in SlotIds /\ Used(t, s) /\ t[s].key = k
  BY <1>0, WalkFinds
<1>2. t \in [SlotIds -> Entries] /\ e \in Entries /\ e.off \in Nat /\ e.len \in Nat \ {0}
  BY <1>0, <1>1 DEF TableOK
<1>3. l = len
  BY <1>0, <1>2, KvConsts
<1>4. d2.table = u /\ d2.mem = Copied(d.mem, e.off, len, v) /\ d2.room = d.room /\ d2.a = d.a
  BY DEF Update
<1> HIDE DEF l
<1>5. /\ u \in [SlotIds -> Entries] /\ \A x \in SlotIds \ {s} : u[x] = t[x]
      /\ u[s].key = e.key /\ u[s].off = e.off /\ u[s].next = e.next /\ u[s].len = len
  BY <1>0, <1>1, <1>2, <1>3 DEF Entries
<1> HIDE DEF u, d2
<1>6. \A x \in SlotIds : /\ Used(u, x) <=> Used(t, x)
                         /\ u[x].key = t[x].key /\ u[x].off = t[x].off /\ u[x].next = t[x].next
                         /\ x # s => u[x].len = t[x].len
  BY <1>5 DEF Used
<1>7. TableOK(u)
  <2>1. ASSUME NEW x \in SlotIds, ~Used(u, x) PROVE u[x] = FreeEntry
    BY <1>0, <1>1, <1>5, <1>6, <2>1 DEF TableOK
  <2>2. ASSUME NEW x \in SlotIds, Used(u, x)
        PROVE  u[x].key \in Keys /\ u[x].off \in Nat /\ u[x].len \in Nat \ {0}
    BY <1>0, <1>1, <1>5, <1>6, <2>2 DEF TableOK
  <2> QED BY <1>5, <2>1, <2>2 DEF TableOK
<1>8. \A j \in Keys : Walk(u, j) = Walk(t, j)
  <2>1. Linked(u)
    BY <1>7, TableLinked
  <2> QED BY <1>0, <1>6, <2>1, SameFound
<1>9. Ranked(u)
  <2>1. PICK b \in Nat : \E q \in [SlotIds -> 0..b] : RankedBy(t, b, q)
    BY <1>0 DEF Ranked
  <2>2. PICK q \in [SlotIds -> 0..b] : RankedBy(t, b, q)
    BY <2>1
  <2>3. RankedBy(u, b, q)
    BY <1>6, <2>2 DEF RankedBy
  <2> QED BY <2>3 DEF Ranked
<1>10. Placed(u, d.room)
  <2>1. ASSUME NEW x \in SlotIds, Used(u, x)
        PROVE  /\ u[x].off \in 0..(Cells - 1) /\ u[x].len <= d.room[u[x].off]
               /\ u[x].off + d.room[u[x].off] <= Cells
    BY <1>0, <1>5, <1>6, <2>1 DEF Placed
  <2>2. ASSUME NEW x \in SlotIds, NEW y \in SlotIds, Used(u, x), Used(u, y), x # y
        PROVE  \/ u[x].off + d.room[u[x].off] <= u[y].off
               \/ u[y].off + d.room[u[y].off] <= u[x].off
    BY <1>0, <1>6, <2>2 DEF Placed
  <2> QED BY <1>0, <2>1, <2>2 DEF Placed
<1>11. AllocOK(u, d.room, d.a)
  BY <1>0, <1>6 DEF AllocOK
<1>12. MemOK(d2.mem)
  <2> HIDE DEF e
  <2>1. CopyMade(d.mem, Copied(d.mem, e.off, len, v), e.off, len, v)
    BY <1>0, <1>2, CopiedFacts
  <2> QED BY <1>4, <2>1 DEF CopyMade
<1>13. DevOK(d2)
  BY <1>4, <1>7, <1>9, <1>10, <1>11, <1>12 DEF DevOK
<1>14. KeysStay(t, u)
  BY <1>6 DEF KeysStay
<1>15. e.off + len <= Cells
  <2>1. /\ e.off + d.room[e.off] <= Cells /\ e.off \in 0..(Cells - 1) /\ d.room \in [0..(Cells - 1) -> Nat]
    BY <1>0, <1>1 DEF Placed
  <2> DEFINE o == e.off
             q == d.room[o]
  <2>2. q \in Nat /\ o \in Nat /\ len <= q /\ o + q <= Cells
    BY <1>2, <2>1
  <2> HIDE DEF o, q
  <2>3. o + len <= Cells
    BY <1>0, <2>2, KvConsts
  <2> QED BY <2>3 DEF o
<1>16. Value(u, d2.mem, k) = [i \in 1..len |-> v]
  <2>1. Walk(u, k) = s
    BY <1>8
  <2>2. u[s].off = e.off /\ u[s].len = len
    BY <1>5
  <2> HIDE DEF e, t
  <2> QED BY <1>0, <1>2, <1>4, <1>15, <2>1, <2>2, ValueWritten
<1>17. ASSUME NEW j \in Keys \ {k} PROVE ValueStays(d, d2, j)
  <2>1. ASSUME NEW x \in SlotIds, Used(t, x), t[x].key = j
        PROVE  /\ u[x].off = t[x].off /\ u[x].len = t[x].len
               /\ \/ t[x].off + t[x].len <= e.off
                  \/ e.off + len <= t[x].off
    <3>1. x # s
      BY <1>1, <1>17, <2>1
    <3>2. t[x].off + d.room[t[x].off] <= e.off \/ e.off + d.room[e.off] <= t[x].off
      BY <1>0, <1>1, <2>1, <3>1 DEF Placed
    <3>3. /\ t[x].off \in Nat /\ t[x].len \in Nat /\ t[x].len <= d.room[t[x].off]
          /\ t[x].off \in 0..(Cells - 1) /\ e.off \in 0..(Cells - 1) /\ d.room \in [0..(Cells - 1) -> Nat]
      BY <1>0, <1>1, <2>1 DEF Placed, TableOK
    <3> DEFINE o  == e.off
               q  == d.room[o]
               o2 == t[x].off
               q2 == d.room[o2]
               n2 == t[x].len
    <3>4. /\ q \in Nat /\ q2 \in Nat /\ o \in Nat /\ o2 \in Nat /\ n2 \in Nat /\ len <= q /\ n2 <= q2
          /\ o2 + q2 <= o \/ o + q <= o2
      BY <1>2, <3>2, <3>3
    <3>5. len \in Nat
      BY <1>0
    <3> HIDE DEF o, q, o2, q2, n2
    <3>6. o2 + n2 <= o \/ o + len <= o2
      BY <3>4, <3>5
    <3> QED BY <1>6, <3>1, <3>6 DEF o, o2, n2
  <2>2. Walk(d2.table, j) \in {Walk(d.table, j), None} /\ TableOK(d2.table)
    BY <1>4, <1>7, <1>8
  <2> DEFINE off == e.off
  <2>3. off \in Nat /\ d2.mem = Copied(d.mem, off, len, v) /\ len \in Nat
    BY <1>0, <1>2, <1>4
  <2>4. \A x \in SlotIds : Used(d.table, x) /\ d.table[x].key = j =>
               /\ d2.table[x].off = d.table[x].off /\ d2.table[x].len = d.table[x].len
               /\ \/ d.table[x].off + d.table[x].len <= off
                  \/ off + len <= d.table[x].off
    BY <1>4, <2>1
  <2> HIDE DEF off
  <2> QED BY <2>2, <2>3, <2>4, ValueKept
<1> QED BY <1>1, <1>4, <1>8, <1>13, <1>14, <1>16, <1>17 DEF StoreOK, d2

(* Every store that the host may make. *)
LEMMA StoredOK ==
    ASSUME NEW d, DevOK(d), allocator \in {"BITMAP", "APPEND_ONLY"}, NEW k \in Keys,
           NEW len \in Lens, NEW v \in Nat, NEW batched, Storable(d, k, len, batched)
    PROVE  StoreOK(d, Stored(d, k, len, v, batched), k, len, v)
<1>1. CASE Walk(d.table, k) = None
  <2>1. HasRoom(d.a, len) /\ \E x \in SlotIds : ~Used(d.table, x)
    BY <1>1 DEF Storable
  <2>2. Stored(d, k, len, v, batched) = Insert(d, k, len, v)
    BY <1>1 DEF Stored
  <2> QED BY <1>1, <2>1, <2>2, InsertOK
<1>2. CASE Walk(d.table, k) # None
  <2> DEFINE s == Walk(d.table, k)
  <2>1. /\ len <= d.room[d.table[s].off]
        /\ batched \/ len > Small \/ d.table[s].len > Small => len = d.table[s].len
    BY <1>2 DEF Storable
  <2>2. Stored(d, k, len, v, batched) = Update(d, s, len, v, batched)
    BY <1>2 DEF Stored
  <2>3. s = Walk(d.table, k) /\ s # None
    BY <1>2
  <2> HIDE DEF s
  <2>4. StoreOK(d, Update(d, s, len, v, batched), k, len, v)
    BY <2>1, <2>3, UpdateOK
  <2> QED BY <2>2, <2>4
<1> QED BY <1>1, <1>2

-----------------------------------------------------------------------------
(* The inductive invariant. *)

IterRecords ==
    [state : {"NULL", "OPEN", "WILD"}, pos : 0..Slots, filter : SUBSET Keys,
     must : SUBSET Keys, seen : SUBSET Keys]

(* A key is owed as long as an entry of it lies ahead.  That may be one    *)
(* that lookups no longer reach: iterations read the whole table.          *)
Ahead(t, k, n) == \E s \in SlotIds : s >= n /\ Used(t, s) /\ t[s].key = k

IterInv(it, t) ==
    /\ it \in [HandleIds -> IterRecords]
    /\ \A h \in HandleIds : \A k \in it[h].must :
          k \in it[h].filter /\ (k \in it[h].seen \/ Ahead(t, k, it[h].pos))

KIInv ==
    /\ DevOK(Device) /\ IterInv(iter, table)
    /\ allocator \in {"BITMAP", "APPEND_ONLY"} /\ changes \in 0..MaxChanges

LEMMA DeviceFields ==
    /\ Device.table = table /\ Device.mem = mem /\ Device.room = room
    /\ Device.a = [latest |-> latest, bits |-> bits, last |-> last]
  BY DEF Device

LEMMA KInit == Init => KIInv
<1> SUFFICES ASSUME Init PROVE KIInv
  OBVIOUS
<1>1. FreeEntry \in Entries /\ FreeEntry.off = None
  BY DEF FreeEntry, Entries, Links
<1>2. table \in [SlotIds -> Entries] /\ \A s \in SlotIds : table[s] = FreeEntry /\ ~Used(table, s)
  BY <1>1 DEF Init, Used
<1>3. TableOK(table)
  BY <1>2 DEF TableOK
<1>4. Ranked(table)
  <2> DEFINE r == [s \in SlotIds |-> 0]
  <2>1. r \in [SlotIds -> 0..0] /\ RankedBy(table, 0, r)
    BY <1>2 DEF RankedBy
  <2> QED BY <2>1 DEF Ranked
<1>5. Placed(table, room) /\ MemOK(mem)
  <2>1. room \in [0..(Cells - 1) -> Nat] /\ mem \in [0..(Cells - 1) -> Nat]
    BY DEF Init
  <2> QED BY <1>2, <2>1 DEF Placed, MemOK
<1>6. AllocOK(table, room, Device.a)
  <2> DEFINE a == Device.a
  <2>1. a = [latest |-> 0, bits |-> [c \in Classes |-> {}], last |-> [c \in Classes |-> 0]]
    BY DeviceFields DEF Init, Classes
  <2>2. a \in [latest : Nat, bits : [Classes -> SUBSET Nat], last : [Classes -> Nat]]
    BY <2>1
  <2>3. a.latest = 0 /\ \A c \in Classes : a.bits[c] = {}
    BY <2>1
  <2> HIDE DEF a
  <2>4. AllocType(a)
    BY <2>2, <2>3, KvConsts DEF AllocType
  <2>5. AllocOK(table, room, a)
    BY <1>2, <2>4 DEF AllocOK
  <2> QED BY <2>5 DEF a
<1>7. DevOK(Device)
  BY <1>3, <1>4, <1>5, <1>6, DeviceFields DEF DevOK
<1>8. IterInv(iter, table)
  <2>1. PICK garbage \in {"NULL", "WILD"} :
           iter = [h \in HandleIds |-> IF h = Handles THEN [NoIter EXCEPT !.state = garbage] ELSE NoIter]
    BY DEF Init
  <2>2. NoIter \in IterRecords /\ NoIter.must = {}
    BY KvConsts DEF NoIter, IterRecords
  <2>3. [NoIter EXCEPT !.state = garbage] \in IterRecords /\ [NoIter EXCEPT !.state = garbage].must = {}
    BY <2>2 DEF NoIter, IterRecords
  <2>4. iter \in [HandleIds -> IterRecords] /\ \A h \in HandleIds : iter[h].must = {}
    BY <2>1, <2>2, <2>3
  <2> QED BY <2>4 DEF IterInv
<1>9. allocator \in {"BITMAP", "APPEND_ONLY"} /\ changes \in 0..MaxChanges
  BY KvAssumption DEF Init
<1> QED BY <1>7, <1>8, <1>9 DEF KIInv

(* A command that leaves the device in state d. *)
LEMMA BecomesOK ==
    ASSUME KIInv, NEW d, DevOK(d), NEW c, Becomes(d, c), changes < MaxChanges,
           \A s \in SlotIds : Used(table, s) /\ table[s].key \in Readable(d.table) =>
               Used(d.table, s) /\ d.table[s].key = table[s].key
    PROVE  KIInv'
<1>1. /\ table' = d.table /\ mem' = d.mem /\ room' = d.room /\ allocator' = allocator
      /\ latest' = d.a.latest /\ bits' = d.a.bits /\ last' = d.a.last
      /\ changes' = changes + 1 /\ iter' = Owing(d.table, iter)
  BY DEF Becomes
<1>2. d.a \in [latest : Nat, bits : [Classes -> SUBSET Nat], last : [Classes -> Nat]]
  BY DEF DevOK, AllocOK, AllocType
<1>3. d.a = [latest |-> d.a.latest, bits |-> d.a.bits, last |-> d.a.last]
  BY <1>2
<1>4. Device'.table = d.table /\ Device'.mem = d.mem /\ Device'.room = d.room /\ Device'.a = d.a
  BY <1>1, <1>3 DEF Device
<1>5. DevOK(Device)'
  BY <1>1, <1>4 DEF DevOK, AllocOK, AllocType
<1>6. iter \in [HandleIds -> IterRecords]
  BY DEF KIInv, IterInv
<1>7. iter' \in [HandleIds -> IterRecords] /\
      \A h \in HandleIds : /\ iter'[h].must = iter[h].must \cap Readable(d.table)
                           /\ iter'[h].filter = iter[h].filter /\ iter'[h].seen = iter[h].seen
                           /\ iter'[h].pos = iter[h].pos
  BY <1>1, <1>6 DEF Owing, IterRecords
<1>8. IterInv(iter', table')
  <2> SUFFICES ASSUME NEW h \in HandleIds, NEW k \in iter'[h].must
               PROVE  k \in iter'[h].filter /\ (k \in iter'[h].seen \/ Ahead(table', k, iter'[h].pos))
    BY <1>7 DEF IterInv
  <2>1. k \in iter[h].must /\ k \in Readable(d.table)
    BY <1>7
  <2>2. k \in iter[h].filter /\ (k \in iter[h].seen \/ Ahead(table, k, iter[h].pos))
    BY <2>1 DEF KIInv, IterInv
  <2>3. Ahead(table, k, iter[h].pos) => Ahead(table', k, iter[h].pos)
    BY <1>1, <2>1 DEF Ahead
  <2> QED BY <1>7, <2>2, <2>3
<1>9. changes' \in 0..MaxChanges /\ allocator' \in {"BITMAP", "APPEND_ONLY"}
  BY <1>1, KvConsts DEF KIInv
<1> QED BY <1>5, <1>8, <1>9 DEF KIInv

(* A lookup that fails has no value. *)
LEMMA NoValue ==
    ASSUME NEW t, NEW m, NEW k, Walk(t, k) = None
    PROVE  Value(t, m, k) = None
  BY DEF Value

(* What the host sees of a command that leaves the device in state d. *)
LEMMA Seen ==
    ASSUME NEW d, NEW K \in SUBSET Keys, NEW v \in Values \cup {None},
           Becomes(d, [keys |-> K, value |-> v]),
           \A k \in K : Value(d.table, d.mem, k) = v,
           \A k \in Keys \ K : Value(d.table, d.mem, k) \in {Value(table, mem, k), None}
    PROVE  Map!Next
<1>1. table' = d.table /\ mem' = d.mem /\ cmd' = [keys |-> K, value |-> v]
  BY DEF Becomes
<1>2. cmd' \in Map!Commands /\ cmd'.keys = K /\ cmd'.value = v
  BY <1>1 DEF Map!Commands
<1>3. \A k \in Keys : Value(table', mem', k) \in IF k \in cmd'.keys THEN {cmd'.value} ELSE {Value(table, mem, k), None}
  BY <1>1, <1>2
<1> QED BY <1>2, <1>3 DEF Map!Next

LEMMA SeenNothing ==
    ASSUME Reads, Unmoved
    PROVE  Map!Next
<1>1. table' = table /\ mem' = mem /\ cmd' = [keys |-> {}, value |-> None]
  BY DEF Reads, Unmoved
<1>2. cmd' \in Map!Commands /\ cmd'.keys = {}
  BY <1>1 DEF Map!Commands
<1>3. \A k \in Keys : Value(table', mem', k) \in IF k \in cmd'.keys THEN {cmd'.value} ELSE {Value(table, mem, k), None}
  BY <1>1, <1>2
<1> QED BY <1>2, <1>3 DEF Map!Next

LEMMA NewValue ==
    ASSUME NEW len \in Lens, changes \in 0..MaxChanges, changes < MaxChanges
    PROVE  ValueOf(len) \in Values /\ ValueOf(len) = [i \in 1..len |-> changes + 1] /\ changes + 1 \in Nat
<1>1. changes + 1 \in Vals /\ changes + 1 \in Nat
  BY KvConsts DEF Vals
<1>2. ValueOf(len) \in [1..len -> Vals]
  BY <1>1 DEF ValueOf
<1> QED BY <1>1, <1>2 DEF Values, ValueOf

(* One store. *)
LEMMA StoreStep ==
    ASSUME KIInv, NEW k \in Keys, NEW len \in Lens, Store(k, len)
    PROVE  KIInv' /\ Map!Next
<1>1. PICK d \in {Stored(Device, k, len, changes + 1, FALSE)} : Becomes(d, [keys |-> {k}, value |-> ValueOf(len)])
  BY DEF Store
<1>2. changes < MaxChanges /\ Storable(Device, k, len, FALSE) /\ changes \in 0..MaxChanges
  BY DEF Store, KIInv
<1>3. ValueOf(len) \in Values /\ ValueOf(len) = [i \in 1..len |-> changes + 1] /\ changes + 1 \in Nat
  BY <1>2, NewValue
<1>4. StoreOK(Device, d, k, len, changes + 1)
  <2>1. DevOK(Device) /\ allocator \in {"BITMAP", "APPEND_ONLY"}
    BY DEF KIInv
  <2>2. StoreOK(Device, Stored(Device, k, len, changes + 1, FALSE), k, len, changes + 1)
    BY <1>2, <1>3, <2>1, StoredOK
  <2> QED BY <1>1, <2>2
<1>5. DevOK(d) /\ KeysStay(table, d.table)
  BY <1>4, DeviceFields DEF StoreOK
<1>6. KIInv'
  <2>1. \A s \in SlotIds : Used(table, s) /\ table[s].key \in Readable(d.table) =>
               Used(d.table, s) /\ d.table[s].key = table[s].key
    BY <1>5 DEF KeysStay
  <2> QED BY <1>1, <1>2, <1>5, <2>1, BecomesOK
<1>7. Value(d.table, d.mem, k) = ValueOf(len)
  BY <1>3, <1>4 DEF StoreOK
<1>8. ASSUME NEW j \in Keys \ {k} PROVE Value(d.table, d.mem, j) \in {Value(table, mem, j), None}
  <2>1. ValueStays(Device, d, j)
    BY <1>4 DEF StoreOK
  <2> QED BY <2>1, NoValue, DeviceFields DEF ValueStays
<1>9. Map!Next
  <2> DEFINE K == {k}
             v == ValueOf(len)
  <2>1. /\ K \in SUBSET Keys /\ v \in Values \cup {None} /\ Becomes(d, [keys |-> K, value |-> v])
        /\ \A j \in K : Value(d.table, d.mem, j) = v
        /\ \A j \in Keys \ K : Value(d.table, d.mem, j) \in {Value(table, mem, j), None}
    BY <1>1, <1>3, <1>7, <1>8
  <2> HIDE DEF K, v
  <2> QED BY <2>1, Seen
<1> QED BY <1>6, <1>9

(* Two stores: the second may push the first key out of its chain. *)
LEMMA BatchStep ==
    ASSUME KIInv, NEW k1 \in Keys, NEW k2 \in Keys, NEW len \in Lens, Batch(k1, k2, len)
    PROVE  KIInv' /\ Map!Next
<1> DEFINE w == changes + 1
<1>1. changes < MaxChanges /\ Storable(Device, k1, len, TRUE) /\ changes \in 0..MaxChanges /\ k1 # k2
  BY DEF Batch, KIInv
<1>2. PICK d1 \in {Stored(Device, k1, len, w, TRUE)} :
         /\ Storable(d1, k2, len, TRUE)
         /\ \E d2 \in {Stored(d1, k2, len, w, TRUE)} :
               Becomes(d2, [keys |-> {k1, k2} \cap Readable(d2.table), value |-> ValueOf(len)])
  BY DEF Batch
<1>3. PICK d2 \in {Stored(d1, k2, len, w, TRUE)} :
         Becomes(d2, [keys |-> {k1, k2} \cap Readable(d2.table), value |-> ValueOf(len)])
  BY <1>2
<1>4. ValueOf(len) \in Values /\ ValueOf(len) = [i \in 1..len |-> w] /\ w \in Nat
  BY <1>1, NewValue
<1> HIDE DEF w
<1>5. DevOK(Device) /\ allocator \in {"BITMAP", "APPEND_ONLY"}
  BY DEF KIInv
<1>6. StoreOK(Device, d1, k1, len, w)
  <2>1. StoreOK(Device, Stored(Device, k1, len, w, TRUE), k1, len, w)
    BY <1>1, <1>4, <1>5, StoredOK
  <2> QED BY <1>2, <2>1
<1>7. StoreOK(d1, d2, k2, len, w)
  <2>1. DevOK(d1)
    BY <1>6 DEF StoreOK
  <2>2. StoreOK(d1, Stored(d1, k2, len, w, TRUE), k2, len, w)
    BY <1>2, <1>4, <1>5, <2>1, StoredOK
  <2> QED BY <1>3, <2>2
<1>8. DevOK(d2) /\ KeysStay(table, d1.table) /\ KeysStay(d1.table, d2.table)
  BY <1>6, <1>7, DeviceFields DEF StoreOK
<1>9. KIInv'
  <2>1. \A s \in SlotIds : Used(table, s) /\ table[s].key \in Readable(d2.table) =>
               Used(d2.table, s) /\ d2.table[s].key = table[s].key
    BY <1>8 DEF KeysStay
  <2> DEFINE c == [keys |-> {k1, k2} \cap Readable(d2.table), value |-> ValueOf(len)]
  <2>2. Becomes(d2, c)
    BY <1>3
  <2> HIDE DEF c
  <2> QED BY <1>1, <1>8, <2>1, <2>2, BecomesOK
<1>10. Value(d2.table, d2.mem, k2) = ValueOf(len)
  BY <1>4, <1>7 DEF StoreOK
<1>11. ASSUME k1 \in Readable(d2.table) PROVE Value(d2.table, d2.mem, k1) = ValueOf(len)
  <2>1. ValueStays(d1, d2, k1) /\ Walk(d2.table, k1) # None
    BY <1>1, <1>7, <1>11 DEF StoreOK, Readable
  <2>2. Value(d1.table, d1.mem, k1) = ValueOf(len)
    BY <1>4, <1>6 DEF StoreOK
  <2> QED BY <2>1, <2>2 DEF ValueStays
<1>12. ASSUME NEW j \in Keys \ {k1, k2} PROVE Value(d2.table, d2.mem, j) \in {Value(table, mem, j), None}
  <2>1. ValueStays(Device, d1, j) /\ ValueStays(d1, d2, j)
    BY <1>6, <1>7 DEF StoreOK
  <2> QED BY <2>1, NoValue, DeviceFields DEF ValueStays
<1>13. Map!Next
  <2> DEFINE K == {k1, k2} \cap Readable(d2.table)
             v == ValueOf(len)
  <2>1. /\ K \in SUBSET Keys /\ v \in Values \cup {None} /\ Becomes(d2, [keys |-> K, value |-> v])
        /\ \A j \in K : Value(d2.table, d2.mem, j) = v
    BY <1>3, <1>4, <1>10, <1>11
  <2>2. ASSUME NEW j \in Keys \ K PROVE Value(d2.table, d2.mem, j) \in {Value(table, mem, j), None}
    <3>1. CASE j \in {k1, k2}
      <4>1. Walk(d2.table, j) = None
        BY <2>2, <3>1 DEF Readable
      <4> QED BY <4>1, NoValue
    <3>2. CASE j \notin {k1, k2}
      BY <1>12, <2>2, <3>2
    <3> QED BY <3>1, <3>2
  <2> HIDE DEF K, v
  <2> QED BY <2>1, <2>2, Seen
<1> QED BY <1>9, <1>13

LEMMA DeleteStep ==
    ASSUME KIInv, NEW k \in Keys, Delete(k)
    PROVE  KIInv' /\ Map!Next
<1> DEFINE x == Walk(table, k)
           u == DeleteEntry(table, x)
<1>1. PICK d \in {[Device EXCEPT !.table = u]} : Becomes(d, [keys |-> {k}, value |-> None])
  BY DEF Delete
<1>2. changes < MaxChanges /\ x # None
  BY DEF Delete
<1>3. d.table = u /\ d.mem = mem /\ d.room = room /\ d.a = Device.a
  BY <1>1 DEF Device
<1>4. /\ TableOK(table) /\ Ranked(table) /\ Placed(table, room) /\ AllocOK(table, room, Device.a)
      /\ MemOK(mem)
  BY DeviceFields DEF KIInv, DevOK
<1>5. /\ TableOK(u) /\ x \in SlotIds /\ table[x].key = k
      /\ ~Used(u, x) /\ \A s \in SlotIds \ {x} : u[s] = table[s]
      /\ \A j \in Keys \ {k} : Walk(u, j) \in {Walk(table, j), None}
      /\ Walk(u, k) = None
      /\ Ranked(table) => Ranked(u)
  <2>1. x = Walk(table, k) /\ u = DeleteEntry(table, x)
    OBVIOUS
  <2> HIDE DEF x, u
  <2> QED BY <1>2, <1>4, <2>1, DeleteKeeps
<1>6. \A s \in SlotIds : Used(u, s) => s # x /\ u[s] = table[s] /\ Used(table, s)
  BY <1>5 DEF Used
<1> HIDE DEF x, u
<1>7. DevOK(d)
  <2>1. Placed(u, room)
    BY <1>4, <1>6 DEF Placed
  <2>2. AllocOK(u, room, Device.a)
    BY <1>4, <1>6 DEF AllocOK
  <2> QED BY <1>3, <1>4, <1>5, <2>1, <2>2 DEF DevOK
<1>8. KIInv'
  <2>1. k \notin Readable(u)
    BY <1>5 DEF Readable
  <2>2. \A s \in SlotIds : Used(table, s) /\ table[s].key \in Readable(d.table) =>
               Used(d.table, s) /\ d.table[s].key = table[s].key
    BY <1>3, <1>5, <2>1 DEF Used
  <2> DEFINE c == [keys |-> {k}, value |-> None]
  <2>3. Becomes(d, c)
    BY <1>1
  <2> HIDE DEF c
  <2> QED BY <1>2, <1>7, <2>2, <2>3, BecomesOK
<1>9. Value(d.table, d.mem, k) = None
  BY <1>3, <1>5, NoValue
<1>10. ASSUME NEW j \in Keys \ {k} PROVE Value(d.table, d.mem, j) \in {Value(table, mem, j), None}
  <2>1. CASE Walk(u, j) = None
    BY <1>3, <2>1, NoValue
  <2>2. CASE Walk(u, j) # None
    <3>1. Walk(u, j) = Walk(table, j) /\ Linked(u)
      BY <1>5, <1>10, <2>2, TableLinked
    <3>2. Walk(u, j) \in SlotIds /\ Used(u, Walk(u, j))
      BY <2>2, <3>1, WalkFinds
    <3>3. u[Walk(u, j)] = table[Walk(u, j)]
      BY <1>6, <3>2
    <3>4. Value(u, mem, j) = Value(table, mem, j)
      BY <2>2, <3>1, <3>3 DEF Value
    <3> QED BY <1>3, <3>4
  <2> QED BY <2>1, <2>2
<1>11. Map!Next
  <2> DEFINE K == {k}
             v == None
  <2>1. /\ K \in SUBSET Keys /\ v \in Values \cup {None} /\ Becomes(d, [keys |-> K, value |-> v])
        /\ \A j \in K : Value(d.table, d.mem, j) = v
        /\ \A j \in Keys \ K : Value(d.table, d.mem, j) \in {Value(table, mem, j), None}
    BY <1>1, <1>9, <1>10
  <2> HIDE DEF K, v
  <2> QED BY <2>1, Seen
<1> QED BY <1>8, <1>11

(* Commands that leave the device as it is. *)
LEMMA UnmovedOK ==
    ASSUME KIInv, Unmoved, IterInv(iter', table)
    PROVE  KIInv'
<1>1. UNCHANGED <<table, mem, allocator, latest, bits, last, changes, room>>
  BY DEF Unmoved
<1>2. Device' = Device
  BY <1>1 DEF Device
<1>3. DevOK(Device)'
  BY <1>1, <1>2 DEF KIInv, DevOK, AllocOK, AllocType
<1> QED BY <1>1, <1>3 DEF KIInv

LEMMA IterOpenStep ==
    ASSUME KIInv, NEW filter \in Filters, IterOpen(filter)
    PROVE  KIInv' /\ Map!Next
<1> DEFINE H == {x \in HandleIds : iter[x].state = "NULL"}
           h == Min(H)
           e == [state |-> "OPEN", pos |-> 0, filter |-> filter,
                 must |-> filter \cap Readable(table), seen |-> {}]
<1>1. iter' = [iter EXCEPT ![h] = e] /\ H # {} /\ Reads /\ Unmoved
  BY DEF IterOpen
<1>2. h \in HandleIds
  <2>1. H \in SUBSET Nat
    BY KvConsts DEF HandleIds
  <2>2. h = CHOOSE y \in H : \A z \in H : y <= z
    BY DEF Min
  <2> HIDE DEF H
  <2>3. h \in H
    BY <1>1, <2>1, <2>2, LeastElement
  <2> QED BY <2>3 DEF H
<1> HIDE DEF h
<1>3. e \in IterRecords
  BY KvAssumption, KvConsts DEF IterRecords, Readable
<1>4. ASSUME NEW k \in e.must PROVE k \in e.filter /\ Ahead(table, k, e.pos)
  <2>1. k \in filter /\ k \in Keys /\ Walk(table, k) # None
    BY <1>4 DEF Readable
  <2>2. Linked(table)
    BY TableLinked, DeviceFields DEF KIInv, DevOK
  <2>3. Walk(table, k) \in SlotIds /\ Used(table, Walk(table, k)) /\ table[Walk(table, k)].key = k
    BY <2>1, <2>2, WalkFinds
  <2>4. Walk(table, k) >= 0
    BY <2>3 DEF SlotIds
  <2> QED BY <2>1, <2>3, <2>4 DEF Ahead
<1> HIDE DEF e
<1>5. /\ iter' \in [HandleIds -> IterRecords] /\ iter'[h] = e
      /\ \A y \in HandleIds \ {h} : iter'[y] = iter[y]
  BY <1>1, <1>2, <1>3 DEF KIInv, IterInv
<1>6. IterInv(iter', table)
  <2> SUFFICES ASSUME NEW y \in HandleIds, NEW k \in iter'[y].must
               PROVE  k \in iter'[y].filter /\ (k \in iter'[y].seen \/ Ahead(table, k, iter'[y].pos))
    BY <1>5 DEF IterInv
  <2>1. CASE y = h
    BY <1>4, <1>5, <2>1
  <2>2. CASE y # h
    BY <1>5, <2>2 DEF KIInv, IterInv
  <2> QED BY <2>1, <2>2
<1> QED BY <1>1, <1>6, UnmovedOK, SeenNothing

LEMMA IterCloseStep ==
    ASSUME KIInv, NEW h \in HandleIds, IterClose(h)
    PROVE  KIInv' /\ Map!Next
<1>1. iter' = [iter EXCEPT ![h] = NoIter] /\ Reads /\ Unmoved
  BY DEF IterClose
<1>2. NoIter \in IterRecords /\ NoIter.must = {}
  BY KvConsts DEF NoIter, IterRecords
<1>3. /\ iter' \in [HandleIds -> IterRecords] /\ iter'[h] = NoIter
      /\ \A y \in HandleIds \ {h} : iter'[y] = iter[y]
  BY <1>1, <1>2 DEF KIInv, IterInv
<1>4. IterInv(iter', table)
  <2> SUFFICES ASSUME NEW y \in HandleIds, NEW k \in iter'[y].must
               PROVE  k \in iter'[y].filter /\ (k \in iter'[y].seen \/ Ahead(table, k, iter'[y].pos))
    BY <1>3 DEF IterInv
  <2>1. y # h
    BY <1>2, <1>3
  <2> QED BY <1>3, <2>1 DEF KIInv, IterInv
<1> QED BY <1>1, <1>4, UnmovedOK, SeenNothing

(* A read returns every key before the slot at which it stops. *)
LEMMA IterReadStep ==
    ASSUME KIInv, NEW h \in HandleIds, IterRead(h)
    PROVE  KIInv' /\ Map!Next
<1> DEFINE p    == iter[h].pos
           Q    == Hits(h)
           n(s) == Cardinality({x \in Q : x < s})
           out  == {s \in Q : n(s) < PerRead}
           full == {s \in Q : n(s) >= PerRead}
           stop == StopsAt(h)
           got  == {table[s].key : s \in out}
<1>1. iter' = [iter EXCEPT ![h].pos = stop, ![h].seen = @ \cup got] /\ Reads /\ Unmoved
  BY DEF IterRead
<1>2. iter \in [HandleIds -> IterRecords] /\ iter[h] \in IterRecords /\ p \in 0..Slots
  BY DEF KIInv, IterInv, IterRecords
<1>3. \A s \in Q : s \in SlotIds /\ s >= p /\ s \in Nat /\ Used(table, s) /\ table[s].key \in iter[h].filter
  BY <1>2, KvConsts DEF Hits, SlotIds
<1>4. \A s \in Q : n(s) \in Nat
  <2> SUFFICES ASSUME NEW s \in Q PROVE n(s) \in Nat
    OBVIOUS
  <2>1. IsFiniteSet(0..(Slots - 1))
    BY KvConsts, FS_Interval
  <2>2. {x \in Q : x < s} \subseteq 0..(Slots - 1)
    BY <1>3 DEF SlotIds
  <2> QED BY <2>1, <2>2, FS_Subset, FS_CardinalityType
<1> HIDE DEF n, Q
<1>5. stop \in 0..Slots /\ \A s \in full : stop <= s
  <2>1. stop = IF full = {} THEN Slots ELSE Min(full)
    BY DEF StopsAt, n, Q
  <2>2. full \in SUBSET Nat /\ full \subseteq SlotIds
    BY <1>3
  <2> HIDE DEF full, stop
  <2>3. CASE full = {}
    BY <2>1, <2>3, KvConsts
  <2>4. CASE full # {}
    <3>1. stop = CHOOSE x \in full : \A y \in full : x <= y
      BY <2>1, <2>4 DEF Min
    <3>2. stop \in full /\ \A y \in full : stop <= y
      BY <2>2, <2>4, <3>1, LeastElement
    <3> QED BY <2>2, <3>2, KvConsts DEF SlotIds
  <2> QED BY <2>3, <2>4
<1>6. ASSUME NEW s \in Q, ~(s >= stop) PROVE table[s].key \in got
  <2>1. s \notin full
    BY <1>3, <1>5, <1>6
  <2>2. n(s) \in Nat /\ PerRead \in Nat
    BY <1>4, <1>6, KvConsts
  <2>3. s \in out
    BY <1>6, <2>1, <2>2
  <2> QED BY <2>3
<1>7. got \in SUBSET Keys
  <2>1. \A s \in SlotIds : Used(table, s) => table[s].key \in Keys
    BY DeviceFields DEF KIInv, DevOK, TableOK
  <2> QED BY <1>3, <2>1
<1> HIDE DEF got, stop, p
<1> DEFINE i1 == [iter EXCEPT ![h].pos = stop]
           i2 == [i1 EXCEPT ![h].seen = @ \cup got]
<1>8. /\ i1 \in [HandleIds -> IterRecords]
      /\ i1[h].must = iter[h].must /\ i1[h].filter = iter[h].filter /\ i1[h].seen = iter[h].seen
      /\ i1[h].pos = stop
      /\ \A y \in HandleIds \ {h} : i1[y] = iter[y]
  BY <1>2, <1>5 DEF IterRecords
<1> HIDE DEF i1
<1>9. /\ i2 \in [HandleIds -> IterRecords]
      /\ i2[h].must = iter[h].must /\ i2[h].filter = iter[h].filter /\ i2[h].seen = iter[h].seen \cup got
      /\ i2[h].pos = stop
      /\ \A y \in HandleIds \ {h} : i2[y] = iter[y]
  BY <1>7, <1>8 DEF IterRecords
<1>10. iter' = i2
  BY <1>1 DEF i1
<1> HIDE DEF i2
<1>11. IterInv(i2, table)
  <2> SUFFICES ASSUME NEW y \in HandleIds, NEW k \in i2[y].must
               PROVE  k \in i2[y].filter /\ (k \in i2[y].seen \/ Ahead(table, k, i2[y].pos))
    BY <1>9 DEF IterInv
  <2>1. CASE y = h
    <3>1. k \in iter[h].filter /\ (k \in iter[h].seen \/ Ahead(table, k, p))
      BY <1>9, <2>1 DEF KIInv, IterInv, p
    <3>2. ASSUME NEW s \in SlotIds, s >= p, Used(table, s), table[s].key = k
          PROVE  k \in got \/ Ahead(table, k, stop)
      <4>1. s \in Q
        BY <1>2, <3>1, <3>2, KvConsts DEF Q, Hits, SlotIds, p
      <4>2. CASE s >= stop
        BY <3>2, <4>2 DEF Ahead
      <4>3. CASE ~(s >= stop)
        BY <1>6, <3>2, <4>1, <4>3
      <4> QED BY <4>2, <4>3
    <3>3. Ahead(table, k, p) => k \in got \/ Ahead(table, k, stop)
      BY <3>2 DEF Ahead
    <3> QED BY <1>9, <2>1, <3>1, <3>3
  <2>2. CASE y # h
    BY <1>9, <2>2 DEF KIInv, IterInv
  <2> QED BY <2>1, <2>2
<1> QED BY <1>1, <1>10, <1>11, UnmovedOK, SeenNothing

-----------------------------------------------------------------------------
(* The theorems. *)

(* Every step keeps the invariant and is, for the host, a step of KvMap or *)
(* none.                                                                   *)
LEMMA KNext ==
    ASSUME KIInv, [Next]_vars
    PROVE  /\ KIInv'
           /\ Map!Next \/ (UNCHANGED <<[k \in Keys |-> Value(table, mem, k)], cmd>>)
<1>1. CASE \E k \in Keys, len \in Lens : Store(k, len)
  BY <1>1, StoreStep
<1>2. CASE \E k1, k2 \in Keys, len \in Lens : Batch(k1, k2, len)
  BY <1>2, BatchStep
<1>3. CASE \E k \in Keys : Delete(k)
  BY <1>3, DeleteStep
<1>4. CASE \E filter \in Filters : IterOpen(filter)
  BY <1>4, IterOpenStep
<1>5. CASE \E h \in HandleIds : IterClose(h)
  BY <1>5, IterCloseStep
<1>6. CASE \E h \in HandleIds : IterRead(h)
  BY <1>6, IterReadStep
<1>7. CASE UNCHANGED vars
  <2>1. Unmoved /\ iter' = iter /\ cmd' = cmd
    BY <1>7 DEF vars, Unmoved
  <2>2. KIInv'
    BY <2>1, UnmovedOK DEF KIInv
  <2>3. table' = table /\ mem' = mem
    BY <2>1 DEF Unmoved
  <2> QED BY <2>1, <2>2, <2>3
<1> QED BY <1>1, <1>2, <1>3, <1>4, <1>5, <1>6, <1>7 DEF Next

(* Type correctness and the invariant: free slots are clear, links lead to *)
(* later entries, the places of the entries lie apart and inside the       *)
(* storage, the allocators hand out none of them again, and the keys an    *)
(* iteration owes lie ahead of it.                                         *)
THEOREM KIInvAlways == Spec => []KIInv
<1>1. KIInv /\ [Next]_vars => KIInv'
  BY KNext
<1> QED BY KInit, <1>1, PTL DEF Spec

(* At first no key has a value. *)
LEMMA MapInit == Init => Map!Init
<1> SUFFICES ASSUME Init PROVE Map!Init
  OBVIOUS
<1>1. \A s \in SlotIds : ~Used(table, s)
  BY DEF Init, Used, FreeEntry
<1>2. Linked(table)
  BY <1>1 DEF Linked
<1>3. \A k \in Keys : Walk(table, k) = None
  BY <1>1, <1>2, WalkFinds
<1>4. \A k \in Keys : Value(table, mem, k) = None
  BY <1>3, NoValue
<1> QED BY <1>4 DEF Init, Map!Init

(* The mapping table with its chains, allocators and storage implements    *)
(* KvMap: no sequence of stores, batches and deletes gives a key another   *)
(* key's value or brings a lost entry back.                                *)
THEOREM KvImplementsMap == Spec => ImplementsMap
<1>1. KIInv /\ [Next]_vars => [Map!Next]_<<[k \in Keys |-> Value(table, mem, k)], cmd>>
  BY KNext
<1> QED BY MapInit, KIInvAlways, <1>1, PTL DEF Spec, ImplementsMap, Map!Spec

(* An iteration of any table, with any buffer size and any commands        *)
(* between its reads, misses no key that stayed readable.                  *)
THEOREM IterAlwaysComplete == Spec => []IterComplete
<1>1. ASSUME KIInv PROVE IterComplete
  <2> SUFFICES ASSUME NEW h \in HandleIds, iter[h].pos = Slots, NEW k \in iter[h].must
               PROVE  k \in iter[h].seen
    BY DEF IterComplete
  <2>1. k \in iter[h].seen \/ Ahead(table, k, Slots)
    BY <1>1 DEF KIInv, IterInv
  <2>2. ~Ahead(table, k, Slots)
    BY KvConsts DEF Ahead, SlotIds
  <2> QED BY <2>1, <2>2
<1> QED BY KIInvAlways, <1>1, PTL

(* Links that only lead to later entries close no circle. *)
LEMMA RankedEnds ==
    ASSUME NEW t, TableOK(t), Ranked(t), NEW C \in SUBSET SlotIds, C # {}
    PROVE  \E s \in C : ~Used(t, s) \/ t[s].next \notin C
<1> SUFFICES ASSUME \A s \in C : Used(t, s) /\ t[s].next \in C PROVE FALSE
  OBVIOUS
<1>1. PICK b \in Nat : \E r \in [SlotIds -> 0..b] : RankedBy(t, b, r)
  BY DEF Ranked
<1>2. PICK r \in [SlotIds -> 0..b] : RankedBy(t, b, r)
  BY <1>1
<1> DEFINE T == {b - r[s] : s \in C}
<1>3. T \in SUBSET Nat /\ T # {}
  BY <1>2
<1>4. PICK x \in T : \A y \in T : x <= y
  <2> HIDE DEF T
  <2> QED BY <1>3, LeastElement
<1>5. PICK s \in C : x = b - r[s]
  BY <1>4
<1>6. t[s].next \in C /\ t[s].next \in SlotIds /\ Used(t, s) /\ Used(t, t[s].next)
  BY <1>5
<1>7. r[s] < r[t[s].next]
  BY <1>2, <1>5, <1>6 DEF RankedBy
<1>8. b - r[t[s].next] \in T
  BY <1>6
<1>9. b - r[s] <= b - r[t[s].next]
  BY <1>4, <1>5, <1>8
<1>10. r[s] \in Nat /\ r[t[s].next] \in Nat
  BY <1>2, <1>5, <1>6
<1> QED BY <1>7, <1>9, <1>10

(* The lookup loop ends in every reachable table of every size. *)
THEOREM ChainsAlwaysEnd == Spec => []ChainsEnd
<1>1. ASSUME KIInv PROVE ChainsEnd
  <2>1. TableOK(table) /\ Ranked(table)
    BY <1>1, DeviceFields DEF KIInv, DevOK
  <2>2. ASSUME NEW C \in (SUBSET SlotIds) \ {{}} PROVE \E s \in C : ~Used(table, s) \/ table[s].next \notin C
    <3>1. C \in SUBSET SlotIds /\ C # {}
      BY <2>2
    <3> QED BY <2>1, <3>1, RankedEnds
  <2> QED BY <2>2 DEF ChainsEnd
<1> QED BY KIInvAlways, <1>1, PTL

=============================================================================
