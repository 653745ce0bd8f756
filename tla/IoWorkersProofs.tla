-------------------------- MODULE IoWorkersProofs ---------------------------
(***************************************************************************)
(* The front end, for every number of queues, commands and entries of the  *)
(* process table: the two lists that dispatcher and worker share without a *)
(* lock stay lists, the worker always stands on safe ground, every command *)
(* is carried out and answered at most once, and as long as no writeback   *)
(* is dropped the tables implement the write buffer.                       *)
(***************************************************************************)
EXTENDS IoWorkers, NumberFacts, SequenceTheorems

-----------------------------------------------------------------------------
(* Lists.  s has n places; the entries there follow each other through     *)
(* next.                                                                   *)

NextOK == \A e \in Entries : table[e].next \in Entries \cup {Nil}

Injective(s, n) == \A i, j \in 1..n : s[i] = s[j] => i = j

In(e, s, n) == \E i \in 1..n : s[i] = e

LEMMA EntryFacts ==
    /\ NEntries \in Nat \ {0} /\ Nil \notin Entries /\ Nil \notin Sqs
    /\ IsFiniteSet(Entries) /\ Cardinality(Entries) = NEntries
<1>1. NEntries \in Nat \ {0} /\ Nil \notin Entries /\ Nil \notin Sqs
  BY IoAssumption DEF Nil, Entries
<1>2. IsFiniteSet(0..(NEntries - 1)) /\ Cardinality(0..(NEntries - 1)) = NEntries
  BY <1>1, FS_Interval
<1> QED BY <1>1, <1>2 DEF Entries

(* A list without repetition is no longer than the table. *)
LEMMA ListFits ==
    ASSUME NEW n \in Nat, NEW s \in [1..n -> Entries], Injective(s, n)
    PROVE  n <= NEntries
<1> DEFINE R == {s[i] : i \in 1..n}
<1>1. s \in Injection(1..n, R) /\ R \subseteq Entries
  BY DEF Injective, Injection, IsInjective
<1>2. s \in Surjection(1..n, R)
  BY DEF Surjection
<1>3. s \in Bijection(1..n, R)
  BY <1>1, <1>2 DEF Bijection
<1>4. IsFiniteSet(1..n) /\ Cardinality(1..n) = n
  BY FS_Interval
<1> HIDE DEF R
<1>5. Cardinality(R) = n
  BY <1>3, <1>4, FS_Bijection DEF ExistsBijection
<1>6. Cardinality(R) <= Cardinality(Entries)
  BY <1>1, EntryFacts, FS_Subset
<1> QED BY <1>5, <1>6, EntryFacts

LEMMA FurtherType ==
    ASSUME NextOK, NEW h \in Entries \cup {Nil}, NEW c \in Seq(Entries)
    PROVE  Further(h, c) \in Seq(Entries)
<1> DEFINE e == IF c = << >> THEN h ELSE table[Last(c)].next
<1>1. c # << >> => Last(c) \in Entries
  BY EmptySeq, ElementOfSeq DEF Last
<1>2. e \in Entries \cup {Nil}
  BY <1>1 DEF NextOK
<1>3. Further(h, c) = IF e = Nil THEN c ELSE Append(c, e)
  BY DEF Further
<1> QED BY <1>2, <1>3

(* The recursion behind Chain. *)
LEMMA ChainRuns ==
    ASSUME NextOK, NEW h \in Entries \cup {Nil}
    PROVE  \E f \in [0..NEntries -> Seq(Entries)] :
              /\ f[0] = << >> /\ \A m \in 1..NEntries : f[m] = Further(h, f[m - 1])
              /\ Chain(h) = f[NEntries]
<1> DEFINE n == NEntries
           M == Seq(Entries)
           tu == [c \in M |-> Further(h, c)]
           st == [m \in 1..n |-> tu]
           f == CHOOSE f : f = [m \in 0..n |-> IF m = 0 THEN << >> ELSE Further(h, f[m - 1])]
<1>0. n \in Nat /\ << >> \in M
  BY EntryFacts, EmptySeq
<1>2. tu \in [M -> M] /\ \A c \in M : tu[c] = Further(h, c)
  BY FurtherType
<1> HIDE DEF tu, M
<1>3. st \in [1..n -> [M -> M]] /\ \A m \in 1..n : st[m] = tu
  BY <1>2
<1> HIDE DEF st
<1>4. PICK g \in [0..n -> M] : g[0] = << >> /\ \A m \in 1..n : g[m] = st[m][g[m - 1]]
  <2> DEFINE z == << >>
  <2>1. n \in Nat /\ z \in M
    BY <1>0
  <2>2. st \in [1..n -> [M -> M]]
    BY <1>3
  <2> HIDE DEF n, z
  <2>3. \E g \in [0..n -> M] : g[0] = z /\ \A m \in 1..n : g[m] = st[m][g[m - 1]]
    BY <2>1, <2>2, RecExists
  <2> QED BY <2>3 DEF z
<1>5. \A m \in 1..n : g[m - 1] \in M /\ g[m] = Further(h, g[m - 1])
  <2> SUFFICES ASSUME NEW m \in 1..n PROVE g[m - 1] \in M /\ g[m] = Further(h, g[m - 1])
    OBVIOUS
  <2>1. g[m - 1] \in M
    BY <1>0, <1>4
  <2> QED BY <1>2, <1>3, <1>4, <2>1
<1>6. g = [m \in 0..n |-> IF m = 0 THEN << >> ELSE Further(h, g[m - 1])]
  <2> HIDE DEF n
  <2> DEFINE B(m) == IF m = 0 THEN << >> ELSE Further(h, g[m - 1])
  <2>1. ASSUME NEW m \in 0..n PROVE g[m] = B(m)
    BY <1>0, <1>4, <1>5
  <2>2. g = [m \in 0..n |-> g[m]]
    BY <1>4
  <2> HIDE DEF B
  <2>3. g = [m \in 0..n |-> B(m)]
    BY <2>1, <2>2
  <2> QED BY <2>3 DEF B
<1>7. f = [m \in 0..n |-> IF m = 0 THEN << >> ELSE Further(h, f[m - 1])]
  <2> HIDE DEF n
  <2> QED BY <1>6, Zenon
<1>8. Chain(h) = f[n]
  BY DEF Chain
<1> HIDE DEF f, n
<1>9. f[0] = << >> /\ \A m \in 1..n : f[m] = Further(h, f[m - 1])
  BY <1>0, <1>7
<1> DEFINE T == {m \in Nat : m <= n => f[m] \in M}
<1>10. 0 \in T
  BY <1>0, <1>9
<1>11. ASSUME NEW m \in T PROVE m + 1 \in T
  <2> SUFFICES ASSUME m + 1 <= n PROVE f[m + 1] \in M
    BY <1>11
  <2>1. m \in Nat /\ f[m] \in M /\ m + 1 \in 1..n /\ (m + 1) - 1 = m
    BY <1>0, <1>11
  <2>2. f[m + 1] = Further(h, f[m])
    BY <1>9, <2>1
  <2> QED BY <2>1, <2>2, FurtherType DEF M
<1>12. \A m \in Nat : m \in T
  <2> HIDE DEF T
  <2>1. T \in SUBSET Nat
    BY DEF T
  <2> QED BY <1>10, <1>11, <2>1, SetInduction
<1>13. f \in [0..n -> M]
  <2>1. \A m \in 0..n : f[m] \in M
    BY <1>0, <1>12
  <2>2. f = [m \in 0..n |-> f[m]]
    BY <1>7
  <2> QED BY <2>1, <2>2
<1> QED BY <1>8, <1>9, <1>13 DEF n, M

(* A set that next does not leave holds every chain that starts in it. *)
LEMMA ChainWithin ==
    ASSUME NextOK, NEW S \in SUBSET Entries, NEW h \in S \cup {Nil},
           \A e \in S : table[e].next \in S \cup {Nil}
    PROVE  Range(Chain(h)) \subseteq S
<1>1. PICK f \in [0..NEntries -> Seq(Entries)] :
         /\ f[0] = << >> /\ \A m \in 1..NEntries : f[m] = Further(h, f[m - 1])
         /\ Chain(h) = f[NEntries]
  BY ChainRuns
<1> DEFINE T == {m \in Nat : m <= NEntries => \A i \in 1..Len(f[m]) : f[m][i] \in S}
<1>2. 0 \in T
  BY <1>1
<1>3. ASSUME NEW m \in T PROVE m + 1 \in T
  <2> SUFFICES ASSUME m + 1 <= NEntries PROVE \A i \in 1..Len(f[m + 1]) : f[m + 1][i] \in S
    BY <1>3
  <2>1. m \in Nat /\ m \in 0..NEntries /\ m + 1 \in 1..NEntries /\ (m + 1) - 1 = m
    BY <1>3, EntryFacts
  <2> DEFINE c == f[m]
             e == IF c = << >> THEN h ELSE table[Last(c)].next
  <2>2. c \in Seq(Entries) /\ \A i \in 1..Len(c) : c[i] \in S
    BY <1>1, <1>3, <2>1
  <2>3. f[m + 1] = Further(h, c)
    BY <1>1, <2>1
  <2>4. e \in S \cup {Nil}
    <3>1. c # << >> => Last(c) \in S
      BY <2>2, EmptySeq DEF Last
    <3> QED BY <3>1
  <2>5. f[m + 1] = IF e = Nil THEN c ELSE Append(c, e)
    BY <2>3 DEF Further
  <2> HIDE DEF c, e
  <2>6. CASE e = Nil
    BY <2>2, <2>5, <2>6
  <2>7. CASE e # Nil
    BY <2>2, <2>4, <2>5, <2>7
  <2> QED BY <2>6, <2>7
<1>4. NEntries \in T
  <2> HIDE DEF T
  <2>1. T \in SUBSET Nat
    BY DEF T
  <2> QED BY <1>2, <1>3, <2>1, EntryFacts, SetInduction
<1>5. f[NEntries] \in Seq(Entries) /\ \A i \in 1..Len(f[NEntries]) : f[NEntries][i] \in S
  BY <1>1, <1>4, EntryFacts
<1> QED BY <1>1, <1>5, LenProperties DEF Range

(* s is the list from h: it starts there, goes on through next and ends.   *)
ListFrom(h, s, n) ==
    /\ n \in Nat /\ s \in [1..n -> Entries] /\ Injective(s, n)
    /\ h = IF n = 0 THEN Nil ELSE s[1]
    /\ \A i \in 1..n : table[s[i]].next = IF i = n THEN Nil ELSE s[i + 1]

LEMMA ChainIs ==
    ASSUME NextOK, NEW h \in Entries \cup {Nil}, NEW n, NEW s, ListFrom(h, s, n)
    PROVE  Chain(h) \in Seq(Entries) /\ Len(Chain(h)) = n /\ \A i \in 1..n : Chain(h)[i] = s[i]
<1>0. n \in Nat /\ s \in [1..n -> Entries] /\ n <= NEntries
  BY ListFits DEF ListFrom
<1>1. PICK f \in [0..NEntries -> Seq(Entries)] :
         /\ f[0] = << >> /\ \A m \in 1..NEntries : f[m] = Further(h, f[m - 1])
         /\ Chain(h) = f[NEntries]
  BY ChainRuns
<1> DEFINE L(m) == IF m <= n THEN m ELSE n
           T == {m \in Nat : m <= NEntries =>
                    Len(f[m]) = L(m) /\ \A i \in 1..L(m) : f[m][i] = s[i]}
<1>2. 0 \in T
  BY <1>0, <1>1
<1>3. ASSUME NEW m \in T PROVE m + 1 \in T
  <2> SUFFICES ASSUME m + 1 <= NEntries
               PROVE  Len(f[m + 1]) = L(m + 1) /\ \A i \in 1..L(m + 1) : f[m + 1][i] = s[i]
    BY <1>3
  <2>1. m \in Nat /\ m \in 0..NEntries /\ m + 1 \in 1..NEntries /\ (m + 1) - 1 = m
    <3>1. m \in Nat
      BY <1>3
    <3> HIDE DEF T
    <3> QED BY <3>1, EntryFacts
  <2> DEFINE c == f[m]
             e == IF c = << >> THEN h ELSE table[Last(c)].next
  <2>2. c \in Seq(Entries) /\ Len(c) = L(m) /\ \A i \in 1..L(m) : c[i] = s[i]
    BY <1>1, <1>3, <2>1
  <2>3. f[m + 1] = IF e = Nil THEN c ELSE Append(c, e)
    BY <1>1, <2>1 DEF Further
  <2>4. e = IF L(m) = n THEN Nil ELSE s[L(m) + 1]
    <3>1. CASE c = << >>
      <4>1. L(m) = 0
        BY <2>2, <3>1
      <4> QED BY <3>1, <4>1, <1>0 DEF ListFrom
    <3>2. CASE c # << >>
      <4>1. L(m) \in 1..n /\ Last(c) = s[L(m)]
        BY <1>0, <2>1, <2>2, <3>2, EmptySeq DEF Last
      <4>2. table[s[L(m)]].next = IF L(m) = n THEN Nil ELSE s[L(m) + 1]
        BY <4>1 DEF ListFrom
      <4> QED BY <3>2, <4>1, <4>2
    <3> QED BY <3>1, <3>2
  <2> HIDE DEF c, e
  <2>5. CASE L(m) = n
    <3>1. f[m + 1] = c /\ L(m + 1) = n
      BY <2>1, <2>3, <2>4, <2>5, <1>0
    <3> QED BY <2>2, <2>5, <3>1
  <2>6. CASE L(m) # n
    <3>1. L(m) = m /\ L(m + 1) = m + 1 /\ m + 1 \in 1..n /\ s[m + 1] \in Entries
      BY <1>0, <2>1, <2>6
    <3>2. e = s[m + 1] /\ e # Nil
      BY <2>4, <2>6, <3>1, EntryFacts
    <3>3. f[m + 1] = Append(c, e)
      BY <2>3, <3>2
    <3> QED BY <2>1, <2>2, <3>1, <3>2, <3>3
  <2> QED BY <2>5, <2>6
<1>4. NEntries \in T
  <2> HIDE DEF T
  <2>1. T \in SUBSET Nat
    BY DEF T
  <2> QED BY <1>2, <1>3, <2>1, EntryFacts, SetInduction
<1>5. L(NEntries) = n
  BY <1>0, EntryFacts
<1> QED BY <1>1, <1>4, <1>5, EntryFacts

-----------------------------------------------------------------------------
(* Types.                                                                  *)

Links == Entries \cup {Nil}
Jobs == 1..MaxCmds

DispTypes ==
    [pc : {"poll"}]
    \cup [pc : {"alloc"}, q : Sqs, id : Jobs, wbs : Nat]
    \cup [pc : {"link"}, q : Sqs, id : Jobs, wbs : Nat, ent : Entries, at : Links]
    \cup [pc : {"reclaim"}, last : Links]
    \cup [pc : {"free"}, first : Links, last : Entries]

Completions == [slot : [Slots -> [id : Nat, phase : {0, 1}]], head : Slots, phase : {0, 1},
                ready : BOOLEAN]

QueueTypes ==
    /\ issued \in [Sqs -> Seq(Reads \cup Writes)]
    /\ fetched \in [Sqs -> Nat] /\ deferred \in [Sqs -> Seq(Nat)]
    /\ \A q \in Sqs : /\ Len(issued[q]) <= MaxCmds /\ fetched[q] <= Len(issued[q])
                      /\ \A i \in 1..Len(deferred[q]) : deferred[q][i] \in 1..fetched[q]

BufferTypes == remaining \in Nat /\ open \in [0..(Parts - 1) -> Nat]

TableTypes ==
    /\ table \in [Entries -> EntryOf]
    /\ \A e \in Entries : table[e].q # Nil => table[e].id \in Jobs
    /\ freeSeq \in Entries /\ freeEnd \in Entries /\ ioSeq \in Links /\ ioEnd \in Links

ThreadTypes ==
    /\ procNsecs \in 0..now /\ now \in 0..MaxTime
    /\ disp \in DispTypes
    /\ wk \in [pc : {"start", "visit", "mark", "next", "irq"}, cur : Links]
    /\ (wk.cur # Nil) <=> (wk.pc \in {"visit", "mark", "next"})

RingTypes ==
    /\ cq \in [Sqs -> Completions]
    /\ host \in [Sqs -> [head : Slots, phase : {0, 1}, irq : BOOLEAN]]
    /\ performed \in [Sqs -> [Jobs -> Nat]] /\ answered \in [Sqs -> [Jobs -> Nat]]

Types == hc \in Hosts /\ QueueTypes /\ BufferTypes /\ TableTypes /\ ThreadTypes /\ RingTypes

LEMMA ConstFacts ==
    /\ MaxCmds \in Nat /\ MaxTime \in Nat /\ IsFiniteSet(Sqs)
    /\ Parts \in Nat \ {0} /\ SecsPerPg \in Nat \ {0} /\ Oneshot \in Nat \ {0} /\ Initial \in Nat \ {0}
    /\ Nil = -1
BY IoAssumption DEF Nil

LEMMA HostFacts ==
    ASSUME hc \in Hosts
    PROVE  /\ hc.qsize \in Nat \ {0, 1} /\ hc.budget \in 0..MaxCmds
           /\ QSize = hc.qsize /\ QSize \in Nat /\ QSize >= 2
           /\ Slots = 0..(QSize - 1)
<1>1. hc \in [qsize : Nat \ {0, 1}, budget : 0..MaxCmds, reads : BOOLEAN]
  BY IoAssumption
<1> QED BY <1>1 DEF QSize, Slots

(* The links of an entry, and the other fields the worker goes by. *)
LEMMA FieldFacts ==
    ASSUME TableTypes, NEW e \in Entries
    PROVE  /\ table[e] \in EntryOf
           /\ table[e].q \in Sqs \cup {Nil} /\ table[e].id \in 0..MaxCmds
           /\ table[e].target \in 0..MaxTime
           /\ table[e].next \in Links /\ table[e].prev \in Links
           /\ table[e].done \in BOOLEAN /\ table[e].copied \in BOOLEAN /\ table[e].wb \in BOOLEAN
BY DEF TableTypes, EntryOf, Links

LEMMA InitTypes == Init => Types
<1> SUFFICES ASSUME Init PROVE Types
  OBVIOUS
<1> USE ConstFacts, EntryFacts DEF Init
<1>1. hc \in Hosts
  OBVIOUS
<1>2. QueueTypes
  <2>1. << >> \in Seq(Reads \cup Writes) /\ << >> \in Seq(Nat)
    BY EmptySeq
  <2> QED BY <2>1 DEF QueueTypes
<1>3. BufferTypes
  BY DEF BufferTypes
<1>4. TableTypes
  <2>1. ASSUME NEW e \in Entries PROVE FreeEntry(e) \in EntryOf /\ FreeEntry(e).q = Nil
    <3>1. (IF e = NEntries - 1 THEN Nil ELSE e + 1) \in Links /\ e - 1 \in Links
      BY DEF Entries, Links, Nil
    <3> QED BY <3>1 DEF FreeEntry, EntryOf, Links
  <2>2. 0 \in Entries /\ NEntries - 1 \in Entries
    BY DEF Entries
  <2> QED BY <2>1, <2>2 DEF TableTypes, Links
<1>5. ThreadTypes
  BY DEF ThreadTypes, DispTypes, Idle, Links
<1>6. RingTypes
  <2>1. 0 \in Slots
    BY <1>1, HostFacts
  <2>2. \A q \in Sqs : cq[q] \in Completions /\ host[q] \in [head : Slots, phase : {0, 1}, irq : BOOLEAN]
    BY <2>1 DEF Completions
  <2> QED BY <2>2 DEF RingTypes, Jobs
<1> QED BY <1>1, <1>2, <1>3, <1>4, <1>5, <1>6 DEF Types

LEMMA TotalFinite ==
    ASSUME QueueTypes
    PROVE  IsFiniteSet(UNION {{p} \X (1..Len(issued[p])) : p \in Sqs})
<1> DEFINE F(p) == {p} \X (1..Len(issued[p]))
           S == {F(p) : p \in Sqs}
<1>1. ASSUME NEW p \in Sqs PROVE IsFiniteSet(F(p))
  <2>1. Len(issued[p]) \in Nat
    BY LenProperties DEF QueueTypes
  <2>2. IsFiniteSet(1..Len(issued[p]))
    BY <2>1, FS_Interval
  <2>3. IsFiniteSet({p})
    BY FS_Singleton
  <2> QED BY <2>1, <2>2, <2>3, FS_Product
<1>2. IsFiniteSet(S)
  <2> DEFINE g == [p \in Sqs |-> F(p)]
  <2>1. g \in Surjection(Sqs, S)
    BY DEF Surjection
  <2> HIDE DEF g, S
  <2> QED BY <2>1, ConstFacts, FS_Surjection
<1>3. \A T \in S : IsFiniteSet(T)
  BY <1>1
<1>4. IsFiniteSet(UNION S)
  <2> HIDE DEF S
  <2> QED BY <1>2, <1>3, FS_UNION
<1> QED BY <1>4

(* What is in one queue is no more than what is in all. *)
LEMMA TotalCovers ==
    ASSUME QueueTypes, NEW q \in Sqs
    PROVE  Total \in Nat /\ Len(issued[q]) <= Total
<1> DEFINE F(p) == {p} \X (1..Len(issued[p]))
           S == {F(p) : p \in Sqs}
<1>3. IsFiniteSet(UNION S)
  BY TotalFinite
<1>4. F(q) \subseteq UNION S
  OBVIOUS
<1>5. Cardinality(F(q)) = Len(issued[q])
  <2> DEFINE n == Len(issued[q])
             g == [i \in 1..n |-> <<q, i>>]
  <2>0. n \in Nat
    BY LenProperties DEF QueueTypes
  <2>1. n \in Nat /\ IsFiniteSet(1..n) /\ Cardinality(1..n) = n
    BY <2>0, FS_Interval
  <2>2. g \in Bijection(1..n, F(q))
    <3>1. g \in [1..n -> F(q)]
      OBVIOUS
    <3>2. \A a, b \in 1..n : g[a] = g[b] => a = b
      OBVIOUS
    <3>3. \A t \in F(q) : \E s \in 1..n : g[s] = t
      OBVIOUS
    <3> QED BY <3>1, <3>2, <3>3 DEF Bijection, Injection, Surjection, IsInjective
  <2> HIDE DEF n, g, F
  <2>3. Cardinality(F(q)) = n
    BY <2>1, <2>2, FS_Bijection DEF ExistsBijection
  <2> QED BY <2>3 DEF n
<1>6. Total = Cardinality(UNION S)
  BY DEF Total
<1> HIDE DEF S, F
<1>7. Cardinality(UNION S) \in Nat /\ Cardinality(F(q)) <= Cardinality(UNION S)
  BY <1>3, <1>4, FS_Subset, FS_CardinalityType
<1> QED BY <1>5, <1>6, <1>7

LEMMA IssueTypes ==
    ASSUME Types, NEW q \in Sqs, NEW c \in Cmds, Issue(q, c)
    PROVE  Types'
<1>1. c \in Reads \cup Writes
  BY DEF Cmds
<1>2. Len(issued[q]) < MaxCmds
  <2>1. Total \in Nat /\ Len(issued[q]) <= Total /\ Len(issued[q]) \in Nat
    BY TotalCovers, LenProperties DEF Types, QueueTypes
  <2>2. hc.budget \in 0..MaxCmds /\ Total < hc.budget
    BY HostFacts DEF Types, Issue
  <2> QED BY <2>1, <2>2, ConstFacts
<1>3. QueueTypes'
  <2>1. issued' = [issued EXCEPT ![q] = Append(issued[q], c)] /\ fetched' = fetched /\ deferred' = deferred
    BY DEF Issue
  <2>2. issued[q] \in Seq(Reads \cup Writes)
    BY DEF Types, QueueTypes
  <2>3. Append(issued[q], c) \in Seq(Reads \cup Writes) /\ Len(Append(issued[q], c)) = Len(issued[q]) + 1
        /\ Len(issued[q]) \in Nat
    BY <1>1, <2>2
  <2>4. issued' \in [Sqs -> Seq(Reads \cup Writes)]
    BY <2>1, <2>3 DEF Types, QueueTypes
  <2>5. ASSUME NEW p \in Sqs
        PROVE  Len(issued'[p]) <= MaxCmds /\ fetched[p] <= Len(issued'[p])
    <3>1. CASE p = q
      <4>1. issued'[p] = Append(issued[q], c)
        BY <2>1, <3>1 DEF Types, QueueTypes
      <4>2. fetched[q] <= Len(issued[q]) /\ fetched[q] \in Nat
        BY DEF Types, QueueTypes
      <4> QED BY <1>2, <2>3, <3>1, <4>1, <4>2, ConstFacts
    <3>2. CASE p # q
      BY <2>1, <3>2 DEF Types, QueueTypes
    <3> QED BY <3>1, <3>2
  <2> QED BY <2>1, <2>4, <2>5 DEF Types, QueueTypes
<1>4. UNCHANGED <<hc, buffer, table, lists, procNsecs, now, disp, wk, cq, host, hist>>
  BY DEF Issue
<1> QED BY <1>3, <1>4
      DEF Types, BufferTypes, TableTypes, ThreadTypes, RingTypes, buffer, lists, hist, Completions, Slots, QSize

(* The number of wordlines a write fills. *)
Filled(c) == UNION {{i} \X (1..((open[i] + PagesIn(c, i)) \div Oneshot)) : i \in DOMAIN open}

LEMMA PagesFacts ==
    ASSUME NEW c \in Reads \cup Writes, NEW i \in Nat
    PROVE  PagesIn(c, i) \in Nat
<1> DEFINE a == c.lba \div SecsPerPg
           b == (c.lba + c.len - 1) \div SecsPerPg
           S == {l \in a..b : l % Parts = i}
<1>1. c.lba \in Nat /\ c.len \in Nat \ {0}
  BY IoAssumption
<1>2. a \in Int /\ b \in Int
  <2>1. c.lba + c.len - 1 \in Nat
    BY <1>1
  <2> DEFINE x == c.lba + c.len - 1
  <2> HIDE DEF x
  <2>2. x \in Nat => x \div SecsPerPg \in Int
    BY ConstFacts
  <2>3. c.lba \div SecsPerPg \in Int
    BY <1>1, ConstFacts
  <2> QED BY <2>1, <2>2, <2>3 DEF x
<1>3. PagesIn(c, i) = Cardinality(S)
  BY DEF PagesIn, Lpns
<1> HIDE DEF a, b
<1>4. IsFiniteSet(a..b) /\ S \subseteq a..b
  BY <1>2, FS_Interval
<1> HIDE DEF S
<1> QED BY <1>3, <1>4, FS_Subset, FS_CardinalityType

LEMMA FilledFacts ==
    ASSUME BufferTypes, NEW c \in Reads \cup Writes
    PROVE  /\ Cardinality(Filled(c)) \in Nat
           /\ \A i \in DOMAIN open : (open[i] + PagesIn(c, i)) % Oneshot \in Nat
<1> DEFINE x(i) == open[i] + PagesIn(c, i)
           F(i) == {i} \X (1..(x(i) \div Oneshot))
           S == {F(i) : i \in DOMAIN open}
<1>1. ASSUME NEW i \in DOMAIN open PROVE x(i) \in Nat
  <2>1. i \in Nat /\ open[i] \in Nat
    BY <1>1, ConstFacts DEF BufferTypes
  <2> QED BY <2>1, PagesFacts
<1> HIDE DEF x
<1>2. ASSUME NEW i \in DOMAIN open PROVE x(i) % Oneshot \in Nat /\ IsFiniteSet(F(i))
  <2>1. x(i) % Oneshot \in Nat /\ x(i) \div Oneshot \in Int
    BY <1>1, <1>2, ConstFacts
  <2> DEFINE d == x(i) \div Oneshot
  <2>2. d \in Int
    BY <2>1
  <2> HIDE DEF d
  <2>3. IsFiniteSet(1..d) /\ IsFiniteSet({i})
    <3>1. IsFiniteSet(1..d)
      BY <2>2, FS_Interval
    <3>2. IsFiniteSet({i})
      BY FS_Singleton
    <3> QED BY <3>1, <3>2
  <2>4. IsFiniteSet({i} \X (1..d))
    BY <2>3, FS_Product
  <2> QED BY <2>1, <2>4 DEF d
<1>3. IsFiniteSet(DOMAIN open)
  BY ConstFacts, FS_Interval DEF BufferTypes
<1>4. IsFiniteSet(S)
  <2> DEFINE D == DOMAIN open
             g == [i \in D |-> F(i)]
  <2>1. g \in Surjection(D, S)
    BY DEF Surjection
  <2> HIDE DEF g, S
  <2>2. IsFiniteSet(D)
    BY <1>3
  <2> HIDE DEF D
  <2> QED BY <2>1, <2>2, FS_Surjection
<1>5. IsFiniteSet(UNION S)
  <2>1. \A T \in S : IsFiniteSet(T)
    BY <1>2
  <2> HIDE DEF S
  <2> QED BY <1>4, <2>1, FS_UNION
<1>6. Filled(c) = UNION S
  BY DEF Filled, x
<1>7. Cardinality(Filled(c)) \in Nat
  <2> HIDE DEF S
  <2> QED BY <1>5, <1>6, FS_CardinalityType
<1> QED BY <1>2, <1>7 DEF x

LEMMA HandleTypes ==
    ASSUME Types, NEW q \in Sqs, Handle(q)
    PROVE  Types'
<1> DEFINE e == cq[q].slot[host[q].head]
<1>0. hc' = hc /\ cq' = cq /\ performed' = performed
  BY DEF Handle, queues
<1>1. QSize \in Nat /\ QSize >= 2 /\ Slots = 0..(QSize - 1)
  BY HostFacts DEF Types
<1>2. host[q] \in [head : Slots, phase : {0, 1}, irq : BOOLEAN]
  BY DEF Types, RingTypes
<1>3. host' \in [Sqs -> [head : Slots, phase : {0, 1}, irq : BOOLEAN]]
  <2>1. CASE host' = [host EXCEPT ![q].irq = FALSE]
    BY <2>1, <1>2 DEF Types, RingTypes
  <2>2. CASE host' = [host EXCEPT ![q].head = (host[q].head + 1) % QSize,
                                  ![q].phase = IF host[q].head = QSize - 1 THEN 1 - host[q].phase
                                                                           ELSE host[q].phase]
    <3> DEFINE a == (host[q].head + 1) % QSize
               b == IF host[q].head = QSize - 1 THEN 1 - host[q].phase ELSE host[q].phase
    <3>1. a \in Slots /\ b \in {0, 1}
      <4>1. host[q].head + 1 \in Nat
        BY <1>1, <1>2
      <4> DEFINE h == host[q].head + 1
      <4> HIDE DEF h
      <4>2. h \in Nat => h % QSize \in 0..(QSize - 1)
        BY <1>1
      <4>3. a \in Slots
        BY <1>1, <4>1, <4>2 DEF h
      <4> QED BY <1>2, <4>3
    <3> HIDE DEF a, b
    <3>2. host' = [host EXCEPT ![q].head = a, ![q].phase = b]
      BY <2>2 DEF a, b
    <3> QED BY <1>2, <3>1, <3>2 DEF Types, RingTypes
  <2> QED BY <2>1, <2>2 DEF Handle
<1>4. answered' \in [Sqs -> [Jobs -> Nat]]
  <2>1. CASE answered' = answered
    BY <2>1 DEF Types, RingTypes
  <2>2. CASE answered' = [answered EXCEPT ![q][e.id] = answered[q][e.id] + 1]
    <3> HIDE DEF e
    <3>1. answered[q] \in [Jobs -> Nat]
      BY DEF Types, RingTypes
    <3>2. [answered[q] EXCEPT ![e.id] = answered[q][e.id] + 1] \in [Jobs -> Nat]
      <4>1. CASE e.id \in Jobs
        BY <3>1, <4>1
      <4>2. CASE e.id \notin Jobs
        <5>1. [answered[q] EXCEPT ![e.id] = answered[q][e.id] + 1] = answered[q]
          BY <3>1, <4>2
        <5> QED BY <3>1, <5>1
      <4> QED BY <4>1, <4>2
    <3> QED BY <2>2, <3>2 DEF Types, RingTypes
  <2> QED BY <2>1, <2>2 DEF Handle
<1>5. RingTypes'
  BY <1>0, <1>3, <1>4 DEF Types, RingTypes, Completions, Slots, QSize
<1>6. UNCHANGED <<queues, buffer, table, lists, procNsecs, now, disp, wk>>
  BY DEF Handle
<1> QED BY <1>5, <1>6
      DEF Types, QueueTypes, BufferTypes, TableTypes, ThreadTypes, queues, buffer, lists

LEMMA AcceptTypes ==
    ASSUME Types, NEW q \in Sqs, NEW j \in Jobs, j <= Len(issued[q]),
           ~Defers(issued[q][j]), Accept(q, j)
    PROVE  BufferTypes' /\ disp' \in [pc : {"alloc"}, q : Sqs, id : Jobs, wbs : Nat]
           /\ disp' = [pc |-> "alloc", q |-> q, id |-> j, wbs |-> disp'.wbs]
<1> DEFINE c == issued[q][j]
<1>1. c \in Reads \cup Writes
  <2>1. issued[q] \in Seq(Reads \cup Writes) /\ j \in 1..Len(issued[q])
    BY LenProperties DEF Types, QueueTypes, Jobs
  <2> QED BY <2>1
<1>2. c.len \in Nat /\ remaining \in Nat
  <2>1. c \in [lba : Nat, len : Nat \ {0}]
    BY <1>1, IoAssumption
  <2> QED BY <2>1 DEF Types, BufferTypes
<1>3. CASE c \in Writes
  <2>1. /\ remaining' = remaining - c.len
        /\ open' = [i \in DOMAIN open |-> (open[i] + PagesIn(c, i)) % Oneshot]
        /\ disp' = [pc |-> "alloc", q |-> q, id |-> j, wbs |-> Cardinality(Filled(c))]
    BY <1>3 DEF Accept, Filled
  <2> HIDE DEF c
  <2>2. remaining' \in Nat
    <3>1. ~Defers(c)
      BY DEF c
    <3> QED BY <1>2, <1>3, <2>1, <3>1 DEF Defers
  <2>3. Cardinality(Filled(c)) \in Nat /\ \A i \in DOMAIN open : (open[i] + PagesIn(c, i)) % Oneshot \in Nat
    BY <1>1, FilledFacts DEF Types
  <2>4. open' \in [0..(Parts - 1) -> Nat]
    BY <2>1, <2>3 DEF Types, BufferTypes
  <2> QED BY <2>1, <2>2, <2>3, <2>4 DEF BufferTypes
<1>4. CASE c \notin Writes
  BY <1>4 DEF Accept, buffer, Types, BufferTypes
<1> QED BY <1>3, <1>4

LEMMA ProcIoSqTypes ==
    ASSUME Types, NEW q \in Sqs, ProcIoSq(q)
    PROVE  Types'
<1> DEFINE j == fetched[q] + 1
<1>1. /\ fetched[q] \in Nat /\ Len(issued[q]) \in Nat /\ fetched[q] < Len(issued[q])
      /\ Len(issued[q]) <= MaxCmds
  BY LenProperties DEF Types, QueueTypes, ProcIoSq
<1>2. j \in Jobs /\ j <= Len(issued[q]) /\ j \in 1..j /\ j \in Nat
  BY <1>1, ConstFacts DEF Jobs
<1>3. UNCHANGED <<hc, issued, table, lists, procNsecs, now, wk, cq, host, hist>>
      /\ fetched' = [fetched EXCEPT ![q] = j]
  BY DEF ProcIoSq
<1>4. BufferTypes' /\ disp' \in DispTypes /\ deferred' \in [Sqs -> Seq(Nat)]
      /\ (deferred' = deferred \/ deferred' = [deferred EXCEPT ![q] = Append(deferred[q], j)])
  <2>1. CASE Defers(issued[q][j])
    <3>1. deferred' = [deferred EXCEPT ![q] = Append(deferred[q], j)] /\ UNCHANGED <<buffer, disp>>
      BY <2>1 DEF ProcIoSq
    <3>2. deferred[q] \in Seq(Nat)
      BY DEF Types, QueueTypes
    <3>3. Append(deferred[q], j) \in Seq(Nat)
      BY <1>2, <3>2
    <3> QED BY <3>1, <3>3 DEF Types, BufferTypes, ThreadTypes, QueueTypes, buffer
  <2>2. CASE ~Defers(issued[q][j])
    <3>1. Accept(q, j) /\ deferred' = deferred
      BY <2>2 DEF ProcIoSq
    <3>2. BufferTypes' /\ disp' \in [pc : {"alloc"}, q : Sqs, id : Jobs, wbs : Nat]
      <4> HIDE DEF j
      <4> QED BY <1>2, <2>2, <3>1, AcceptTypes
    <3> QED BY <3>1, <3>2 DEF DispTypes, Types, QueueTypes
  <2> QED BY <2>1, <2>2
<1>5. QueueTypes'
  <2>1. fetched' \in [Sqs -> Nat] /\ fetched'[q] = j
    BY <1>2, <1>3 DEF Types, QueueTypes
  <2>2. ASSUME NEW p \in Sqs
        PROVE  /\ Len(issued[p]) <= MaxCmds /\ fetched'[p] <= Len(issued[p])
               /\ \A i \in 1..Len(deferred'[p]) : deferred'[p][i] \in 1..fetched'[p]
    <3>0. deferred[p] \in Seq(Nat) /\ fetched[p] \in Nat
          /\ \A i \in 1..Len(deferred[p]) : deferred[p][i] \in 1..fetched[p]
      BY DEF Types, QueueTypes
    <3>1. CASE p # q
      <4>1. fetched'[p] = fetched[p] /\ deferred'[p] = deferred[p]
        BY <1>3, <1>4, <3>1 DEF Types, QueueTypes
      <4> QED BY <4>1 DEF Types, QueueTypes
    <3>2. CASE p = q
      <4>1. fetched'[p] = fetched[p] + 1
        BY <2>1, <3>2
      <4>2. deferred'[p] = deferred[p] \/ deferred'[p] = Append(deferred[p], fetched[p] + 1)
        BY <1>4, <3>2 DEF Types, QueueTypes
      <4>3. \A i \in 1..Len(deferred'[p]) : deferred'[p][i] \in 1..(fetched[p] + 1)
        <5> DEFINE d == deferred[p]
                   x == fetched[p]
        <5>0. d \in Seq(Nat) /\ Len(d) \in Nat /\ x \in Nat /\ \A i \in 1..Len(d) : d[i] \in 1..x
          BY <3>0
        <5>1. deferred'[p] = d \/ deferred'[p] = Append(d, x + 1)
          BY <4>2
        <5> HIDE DEF d, x
        <5>2. CASE deferred'[p] = d
          <6>1. \A i \in 1..Len(d) : d[i] \in 1..(x + 1)
            BY <5>0
          <6> QED BY <5>2, <6>1 DEF x
        <5>3. CASE deferred'[p] = Append(d, x + 1)
          <6> SUFFICES ASSUME NEW i \in 1..(Len(d) + 1) PROVE Append(d, x + 1)[i] \in 1..(x + 1)
            BY <5>0, <5>3 DEF x
          <6>1. CASE i = Len(d) + 1
            BY <5>0, <6>1
          <6>2. CASE i # Len(d) + 1
            <7>1. i \in 1..Len(d) /\ Append(d, x + 1)[i] = d[i]
              BY <5>0, <6>2
            <7> QED BY <5>0, <7>1
          <6> QED BY <6>1, <6>2
        <5> QED BY <5>1, <5>2, <5>3 DEF x
      <4> QED BY <1>1, <3>2, <4>1, <4>3
    <3> QED BY <3>1, <3>2
  <2> QED BY <1>3, <1>4, <2>1, <2>2 DEF Types, QueueTypes
<1> QED BY <1>3, <1>4, <1>5
      DEF Types, TableTypes, ThreadTypes, RingTypes, lists, hist, Completions, Slots, QSize

LEMMA ProcIoDqTypes ==
    ASSUME Types, NEW q \in Sqs, ProcIoDq(q)
    PROVE  Types'
<1> DEFINE j == Head(deferred[q])
<1>1. deferred[q] \in Seq(Nat) /\ deferred[q] # << >> /\ Len(deferred[q]) \in Nat
  BY LenProperties DEF Types, QueueTypes, ProcIoDq
<1>2. j = deferred[q][1] /\ 1 \in 1..Len(deferred[q])
  BY <1>1
<1>3. j \in Jobs /\ j <= Len(issued[q])
  <2>1. j \in 1..fetched[q] /\ fetched[q] \in Nat /\ fetched[q] <= Len(issued[q])
        /\ Len(issued[q]) \in Nat /\ Len(issued[q]) <= MaxCmds
    BY <1>2, LenProperties DEF Types, QueueTypes
  <2> HIDE DEF j
  <2> QED BY <2>1, ConstFacts DEF Jobs
<1>4. UNCHANGED <<hc, issued, fetched, table, lists, procNsecs, now, wk, cq, host, hist>>
      /\ deferred' = [deferred EXCEPT ![q] = Tail(deferred[q])]
      /\ ~Defers(issued[q][j]) /\ Accept(q, j)
  BY DEF ProcIoDq
<1>5. BufferTypes' /\ disp' \in DispTypes
  <2> HIDE DEF j
  <2>1. BufferTypes' /\ disp' \in [pc : {"alloc"}, q : Sqs, id : Jobs, wbs : Nat]
    BY <1>3, <1>4, AcceptTypes
  <2> QED BY <2>1 DEF DispTypes
<1>6. QueueTypes'
  <2>1. Tail(deferred[q]) \in Seq(Nat) /\ Len(Tail(deferred[q])) = Len(deferred[q]) - 1
        /\ \A i \in 1..Len(Tail(deferred[q])) : Tail(deferred[q])[i] = deferred[q][i + 1]
    BY <1>1, HeadTailProperties
  <2>2. deferred' \in [Sqs -> Seq(Nat)]
    BY <1>4, <2>1 DEF Types, QueueTypes
  <2>3. ASSUME NEW p \in Sqs, NEW i \in 1..Len(deferred'[p]) PROVE deferred'[p][i] \in 1..fetched[p]
    <3>1. CASE p # q
      BY <1>4, <2>3, <3>1 DEF Types, QueueTypes
    <3>2. CASE p = q
      <4>1. deferred'[p] = Tail(deferred[q])
        BY <1>4, <3>2 DEF Types, QueueTypes
      <4>2. i + 1 \in 1..Len(deferred[q]) /\ deferred'[p][i] = deferred[q][i + 1]
        BY <1>1, <2>1, <2>3, <4>1
      <4> QED BY <3>2, <4>2 DEF Types, QueueTypes
    <3> QED BY <3>1, <3>2
  <2> QED BY <1>4, <2>2, <2>3 DEF Types, QueueTypes
<1> QED BY <1>4, <1>5, <1>6
      DEF Types, TableTypes, ThreadTypes, RingTypes, lists, hist, Completions, Slots, QSize

(* The dispatcher on the table.                                            *)

LEMMA QueuedType ==
    ASSUME ThreadTypes, disp.pc \in {"alloc", "link"}
    PROVE  Queued \in [pc : {"alloc"}, q : Sqs, id : Jobs, wbs : Nat] \cup [pc : {"reclaim"}, last : {Nil}]
<1>1. disp.q \in Sqs /\ disp.id \in Jobs /\ disp.wbs \in Nat
  BY DEF ThreadTypes, DispTypes
<1>2. disp.wbs > 0 => disp.wbs - 1 \in Nat
  BY <1>1
<1> QED BY <1>1, <1>2 DEF Queued

LEMMA EnqueueTypes ==
    ASSUME Types, Enqueue
    PROVE  Types'
<1>0. UNCHANGED <<queues, buffer, freeEnd, ioSeq, ioEnd, procNsecs, now, wk, cq, host, hist>>
  BY DEF Enqueue
<1>1. disp.pc = "alloc" /\ disp.q \in Sqs /\ disp.id \in Jobs /\ disp.wbs \in Nat
  BY DEF Enqueue, Types, ThreadTypes, DispTypes
<1>2. TableTypes' /\ disp' \in DispTypes
  <2>1. CASE table[freeSeq].next = Nil
    <3>1. disp' = Queued /\ UNCHANGED <<freeSeq, table>>
      BY <2>1 DEF Enqueue
    <3> QED BY <1>0, <1>1, <3>1, QueuedType DEF Types, TableTypes, DispTypes, Links
  <2>2. CASE table[freeSeq].next # Nil
    <3>1. PICK t \in now..MaxTime :
             table' = [table EXCEPT ![freeSeq] =
                      [q |-> disp.q, id |-> disp.id, target |-> t, done |-> FALSE,
                       copied |-> disp.wbs > 0, wb |-> disp.wbs > 0, next |-> Nil, prev |-> Nil]]
      BY <2>2 DEF Enqueue
    <3> DEFINE x == [q |-> disp.q, id |-> disp.id, target |-> t, done |-> FALSE,
                     copied |-> disp.wbs > 0, wb |-> disp.wbs > 0, next |-> Nil, prev |-> Nil]
    <3>2. t \in 0..MaxTime
      BY DEF Types, ThreadTypes
    <3>3. x \in EntryOf /\ x.id \in Jobs
      BY <1>1, <3>2, ConstFacts DEF EntryOf, Jobs
    <3>4. freeSeq' \in Entries
      <4>1. freeSeq' = table[freeSeq].next
        BY <2>2 DEF Enqueue
      <4>2. table[freeSeq].next \in Links
        BY FieldFacts DEF Types, TableTypes
      <4> QED BY <2>2, <4>1, <4>2 DEF Links
    <3> HIDE DEF x
    <3>5. table' = [table EXCEPT ![freeSeq] = x]
      BY <3>1 DEF x
    <3>6. TableTypes'
      BY <1>0, <3>3, <3>4, <3>5 DEF Types, TableTypes
    <3>7. disp' = [pc |-> "link", q |-> disp.q, id |-> disp.id, wbs |-> disp.wbs,
                   ent |-> freeSeq, at |-> ioEnd]
      BY <2>2 DEF Enqueue
    <3> QED BY <1>1, <3>6, <3>7 DEF DispTypes, Types, TableTypes, Links
  <2> QED BY <2>1, <2>2
<1> QED BY <1>0, <1>2
      DEF Types, QueueTypes, BufferTypes, ThreadTypes, RingTypes, queues, buffer, hist, Completions, Slots, QSize

LEMMA WalkBackTypes ==
    ASSUME Types, WalkBack
    PROVE  Types'
<1>0. UNCHANGED <<queues, buffer, table, lists, procNsecs, now, wk, cq, host, hist>>
  BY DEF WalkBack
<1>1. disp \in [pc : {"link"}, q : Sqs, id : Jobs, wbs : Nat, ent : Entries, at : Links]
  BY DEF WalkBack, Types, ThreadTypes, DispTypes
<1>2. disp.at \in Entries
  BY <1>1 DEF WalkBack, WalksOn, Links
<1>3. disp' = [disp EXCEPT !.at = table[disp.at].prev] /\ table[disp.at].prev \in Links
  BY <1>2, FieldFacts DEF WalkBack, Types
<1>4. disp' \in DispTypes
  BY <1>1, <1>3 DEF DispTypes
<1> QED BY <1>0, <1>4
      DEF Types, QueueTypes, BufferTypes, TableTypes, ThreadTypes, RingTypes, queues, buffer, lists, hist,
          Completions, Slots, QSize

(* Changes of a link. *)
SetNext(t, a, b) == [t EXCEPT ![a].next = b]
SetPrev(t, a, b) == [t EXCEPT ![a].prev = b]

Tables == [Entries -> EntryOf]

(* u differs from t in links only. *)
Keeps(u, t) ==
    \A e \in Entries :
        /\ u[e].q = t[e].q /\ u[e].id = t[e].id /\ u[e].target = t[e].target
        /\ u[e].done = t[e].done /\ u[e].copied = t[e].copied /\ u[e].wb = t[e].wb

LEMMA SetFacts ==
    ASSUME NEW t \in Tables, NEW a \in Entries, NEW b \in Links
    PROVE  /\ SetNext(t, a, b) \in Tables /\ Keeps(SetNext(t, a, b), t)
           /\ \A e \in Entries : /\ SetNext(t, a, b)[e].next = IF e = a THEN b ELSE t[e].next
                                 /\ SetNext(t, a, b)[e].prev = t[e].prev
           /\ SetPrev(t, a, b) \in Tables /\ Keeps(SetPrev(t, a, b), t)
           /\ \A e \in Entries : /\ SetPrev(t, a, b)[e].prev = IF e = a THEN b ELSE t[e].prev
                                 /\ SetPrev(t, a, b)[e].next = t[e].next
<1>1. t[a] \in EntryOf
  BY DEF Tables
<1> DEFINE x == [t[a] EXCEPT !.next = b]
           y == [t[a] EXCEPT !.prev = b]
<1>2. x \in EntryOf /\ y \in EntryOf
  BY <1>1 DEF EntryOf, Links
<1>3. /\ x.next = b /\ x.prev = t[a].prev /\ x.q = t[a].q /\ x.id = t[a].id /\ x.target = t[a].target
      /\ x.done = t[a].done /\ x.copied = t[a].copied /\ x.wb = t[a].wb
  BY <1>1 DEF EntryOf
<1>4. /\ y.next = t[a].next /\ y.prev = b /\ y.q = t[a].q /\ y.id = t[a].id /\ y.target = t[a].target
      /\ y.done = t[a].done /\ y.copied = t[a].copied /\ y.wb = t[a].wb
  BY <1>1 DEF EntryOf
<1>5. SetNext(t, a, b) = [t EXCEPT ![a] = x] /\ SetPrev(t, a, b) = [t EXCEPT ![a] = y]
  BY DEF SetNext, SetPrev
<1> HIDE DEF x, y
<1>6. /\ [t EXCEPT ![a] = x] \in Tables
      /\ \A e \in Entries : [t EXCEPT ![a] = x][e] = IF e = a THEN x ELSE t[e]
  BY <1>2 DEF Tables
<1>7. /\ [t EXCEPT ![a] = y] \in Tables
      /\ \A e \in Entries : [t EXCEPT ![a] = y][e] = IF e = a THEN y ELSE t[e]
  BY <1>2 DEF Tables
<1>8. /\ SetNext(t, a, b) \in Tables /\ Keeps(SetNext(t, a, b), t)
      /\ \A e \in Entries : /\ SetNext(t, a, b)[e].next = IF e = a THEN b ELSE t[e].next
                            /\ SetNext(t, a, b)[e].prev = t[e].prev
  BY <1>3, <1>5, <1>6 DEF Keeps
<1>9. /\ SetPrev(t, a, b) \in Tables /\ Keeps(SetPrev(t, a, b), t)
      /\ \A e \in Entries : /\ SetPrev(t, a, b)[e].prev = IF e = a THEN b ELSE t[e].prev
                            /\ SetPrev(t, a, b)[e].next = t[e].next
  BY <1>4, <1>5, <1>7 DEF Keeps
<1> QED BY <1>8, <1>9

LEMMA SetNextFacts ==
    ASSUME NEW t \in Tables, NEW a \in Entries, NEW b \in Links, NEW u, u = SetNext(t, a, b)
    PROVE  /\ u \in Tables /\ Keeps(u, t)
           /\ \A e \in Entries : u[e].prev = t[e].prev /\ u[e].next = IF e = a THEN b ELSE t[e].next
BY SetFacts

LEMMA SetPrevFacts ==
    ASSUME NEW t \in Tables, NEW a \in Entries, NEW b \in Links, NEW u, u = SetPrev(t, a, b)
    PROVE  /\ u \in Tables /\ Keeps(u, t)
           /\ \A e \in Entries : u[e].next = t[e].next /\ u[e].prev = IF e = a THEN b ELSE t[e].prev
BY SetFacts

LEMMA KeepsTrans ==
    ASSUME NEW t, NEW u, NEW v, Keeps(u, t), Keeps(v, u)
    PROVE  Keeps(v, t)
BY DEF Keeps

(* Where Link puts the entry: between lo and hi. *)
LinkHi == IF ioSeq = Nil THEN Nil ELSE IF disp.at = Nil THEN ioSeq ELSE table[disp.at].next
LinkLo == IF ioSeq = Nil THEN Nil ELSE disp.at

Between(e, lo, hi) ==
    /\ table' \in Tables /\ Keeps(table', table)
    /\ \A x \in Entries :
          /\ table'[x].next = IF x = lo THEN e ELSE IF x = e THEN hi ELSE table[x].next
          /\ table'[x].prev = IF x = e THEN lo ELSE IF x = hi THEN e ELSE table[x].prev

LEMMA LinkStep ==
    ASSUME Types, Link, table[disp.ent].next = Nil, table[disp.ent].prev = Nil,
           ioSeq # disp.ent, ioSeq # Nil => disp.at # disp.ent,
           ioSeq # Nil /\ disp.at # Nil => table[disp.at].next # disp.ent /\ table[disp.at].next # disp.at
    PROVE  /\ disp.ent \in Entries /\ LinkLo \in Links /\ LinkHi \in Links
           /\ Between(disp.ent, LinkLo, LinkHi)
           /\ ioSeq' = (IF LinkLo = Nil THEN disp.ent ELSE ioSeq)
           /\ ioEnd' = (IF LinkHi = Nil THEN disp.ent ELSE ioEnd)
           /\ disp' = Queued
           /\ UNCHANGED <<queues, buffer, freeSeq, freeEnd, procNsecs, now, wk, cq, host, hist>>
<1> DEFINE e == disp.ent
           a == disp.at
           b == table[a].next
<1>1. e \in Entries /\ e \in Links /\ a \in Links /\ ioSeq \in Links /\ table \in Tables
  BY DEF Link, Types, ThreadTypes, DispTypes, TableTypes, Tables, Links
<1>2. a # Nil => a \in Entries /\ b \in Links
  BY <1>1, FieldFacts DEF Links, Types
<1>3. LinkLo \in Links /\ LinkHi \in Links
  BY <1>1, <1>2 DEF LinkLo, LinkHi, Links
<1>4. disp' = Queued /\ UNCHANGED <<queues, buffer, freeSeq, freeEnd, procNsecs, now, wk, cq, host, hist>>
  BY DEF Link
<1>5. CASE ioSeq = Nil
  <2>1. ioSeq' = e /\ ioEnd' = e /\ table' = table
    BY <1>5 DEF Link
  <2>2. LinkLo = Nil /\ LinkHi = Nil
    BY <1>5 DEF LinkLo, LinkHi
  <2>3. Between(e, Nil, Nil)
    BY <1>1, <2>1, EntryFacts DEF Between, Keeps
  <2> QED BY <1>1, <1>3, <1>4, <2>1, <2>2, <2>3
<1>6. CASE ioSeq # Nil /\ a = Nil
  <2> DEFINE t1 == SetPrev(table, ioSeq, e)
             t2 == SetNext(t1, e, ioSeq)
  <2>1. ioSeq' = e /\ ioEnd' = ioEnd /\ table' = [table EXCEPT ![ioSeq].prev = e, ![e].next = ioSeq]
    BY <1>6 DEF Link
  <2>2. table' = t2
    BY <2>1 DEF SetPrev, SetNext
  <2>3. LinkLo = Nil /\ LinkHi = ioSeq /\ ioSeq \in Entries
    BY <1>1, <1>6 DEF LinkLo, LinkHi, Links
  <2>30. ioSeq \in Entries
    BY <2>3
  <2> HIDE DEF e, a, b
  <2>4. t1 \in Tables /\ Keeps(t1, table)
        /\ \A x \in Entries : t1[x].next = table[x].next /\ t1[x].prev = IF x = ioSeq THEN e ELSE table[x].prev
    BY <1>1, <2>30, SetFacts
  <2> HIDE DEF t1
  <2>5. t2 \in Tables /\ Keeps(t2, t1)
        /\ \A x \in Entries : t2[x].prev = t1[x].prev /\ t2[x].next = IF x = e THEN ioSeq ELSE t1[x].next
    BY <1>1, <2>4, SetFacts
  <2> HIDE DEF t2
  <2>6. Keeps(t2, table)
    BY <2>4, <2>5, KeepsTrans
  <2>7. Between(e, Nil, ioSeq)
    <3>1. table[e].next = Nil /\ table[e].prev = Nil /\ e # ioSeq
      BY DEF e
    <3> QED BY <1>1, <2>2, <2>4, <2>5, <2>6, <3>1, EntryFacts DEF Between
  <2> QED BY <1>1, <1>3, <1>4, <1>6, <2>1, <2>3, <2>7 DEF e
<1>7. CASE ioSeq # Nil /\ a # Nil /\ b = Nil
  <2> DEFINE t1 == SetPrev(table, e, a)
             t2 == SetNext(t1, a, e)
  <2>1. ioEnd' = e /\ ioSeq' = ioSeq /\ table' = [table EXCEPT ![e].prev = a, ![a].next = e]
    BY <1>7 DEF Link
  <2>2. table' = t2
    BY <2>1 DEF SetPrev, SetNext
  <2>3. LinkLo = a /\ LinkHi = Nil /\ a \in Entries
    BY <1>1, <1>7 DEF LinkLo, LinkHi, Links
  <2>30. a \in Entries
    BY <2>3
  <2> HIDE DEF e, a, b
  <2>4. t1 \in Tables /\ Keeps(t1, table)
        /\ \A x \in Entries : t1[x].next = table[x].next /\ t1[x].prev = IF x = e THEN a ELSE table[x].prev
    BY <1>1, <2>30, SetFacts
  <2> HIDE DEF t1
  <2>5. t2 \in Tables /\ Keeps(t2, t1)
        /\ \A x \in Entries : t2[x].prev = t1[x].prev /\ t2[x].next = IF x = a THEN e ELSE t1[x].next
    BY <1>1, <2>30, <2>4, SetFacts
  <2> HIDE DEF t2
  <2>6. Keeps(t2, table)
    BY <2>4, <2>5, KeepsTrans
  <2>7. Between(e, a, Nil)
    <3>1. table[e].next = Nil /\ table[e].prev = Nil /\ e # a
      BY <1>7 DEF e, a
    <3> QED BY <1>1, <2>2, <2>4, <2>5, <2>6, <3>1, EntryFacts DEF Between
  <2> QED BY <1>1, <1>3, <1>4, <1>7, <2>1, <2>3, <2>7, EntryFacts DEF e, a
<1>8. CASE ioSeq # Nil /\ a # Nil /\ b # Nil
  <2> DEFINE t1 == SetPrev(table, e, a)
             t2 == SetNext(t1, e, b)
             t3 == SetPrev(t2, b, e)
             t4 == SetNext(t3, a, e)
  <2>1. ioEnd' = ioEnd /\ ioSeq' = ioSeq
        /\ table' = [table EXCEPT ![e].prev = a, ![e].next = b, ![b].prev = e, ![a].next = e]
    BY <1>8 DEF Link
  <2>2. table' = t4
    BY <2>1 DEF SetPrev, SetNext
  <2>3. LinkLo = a /\ LinkHi = b /\ a \in Entries /\ b \in Entries
    BY <1>1, <1>2, <1>8 DEF LinkLo, LinkHi, Links
  <2>0. table[e].next = Nil /\ table[e].prev = Nil /\ e # a /\ b # e /\ b # a /\ b \in Links /\ a \in Links
    BY <1>8, <1>2, <1>1
  <2>30. a \in Entries /\ b \in Entries
    BY <2>3
  <2> HIDE DEF e, a, b
  <2>4. t1 \in Tables /\ Keeps(t1, table)
        /\ \A x \in Entries : t1[x].next = table[x].next /\ t1[x].prev = IF x = e THEN a ELSE table[x].prev
    BY <1>1, <2>30, SetFacts
  <2> HIDE DEF t1
  <2>5. t2 \in Tables /\ Keeps(t2, t1)
        /\ \A x \in Entries : t2[x].prev = t1[x].prev /\ t2[x].next = IF x = e THEN b ELSE t1[x].next
    BY <1>1, <2>0, <2>4, SetFacts
  <2> HIDE DEF t2
  <2>6. t3 \in Tables /\ Keeps(t3, t2)
        /\ \A x \in Entries : t3[x].next = t2[x].next /\ t3[x].prev = IF x = b THEN e ELSE t2[x].prev
    BY <1>1, <2>30, <2>5, SetFacts
  <2> HIDE DEF t3
  <2>7. t4 \in Tables /\ Keeps(t4, t3)
        /\ \A x \in Entries : t4[x].prev = t3[x].prev /\ t4[x].next = IF x = a THEN e ELSE t3[x].next
    BY <1>1, <2>30, <2>6, SetFacts
  <2> HIDE DEF t4
  <2>8. Keeps(t4, table)
    BY <2>4, <2>5, <2>6, <2>7, KeepsTrans
  <2>9. Between(e, a, b)
    BY <1>1, <2>0, <2>2, <2>4, <2>5, <2>6, <2>7, <2>8 DEF Between
  <2>10. Between(e, LinkLo, LinkHi) /\ LinkLo # Nil /\ LinkHi # Nil
    BY <1>8, <2>3, <2>9, EntryFacts
  <2> QED BY <1>1, <1>3, <1>4, <2>1, <2>10 DEF e
<1> QED BY <1>5, <1>6, <1>7, <1>8

-----------------------------------------------------------------------------
(* The lists.  s holds the n entries of the list that is searched, in this *)
(* order; the first m of them are being taken back, and while they are put *)
(* on the free list io_seq has moved past them.  f holds the k free ones.  *)

Listed(s, n) ==
    /\ n \in Nat /\ s \in [1..n -> Entries] /\ Injective(s, n)
    /\ \A i \in 1..n : table[s[i]].next = IF i = n THEN Nil ELSE s[i + 1]

IoList(s, n, m) ==
    /\ Listed(s, n) /\ m \in 0..n
    /\ \A i \in 1..n : (table[s[i]].q = Nil) <=> (i <= m)
    /\ \A i \in 1..m : table[s[i]].done = TRUE
    /\ n > 0 => ioEnd = s[n]

FreeList(f, k) ==
    /\ Listed(f, k) /\ k >= 1 /\ freeSeq = f[1] /\ freeEnd = f[k]
    /\ \A j \in 1..k : table[f[j]].q = Nil
    /\ \A j \in 1..(k - 1) : table[f[j]].done = TRUE => table[f[j + 1]].done = TRUE

\* Where io_seq stands: c entries of s are before it.
Split(s, n, c) ==
    /\ ioSeq = IF c < n THEN s[c + 1] ELSE Nil
    /\ \A i \in 1..n : table[s[i]].prev = IF i = 1 \/ i = c + 1 THEN Nil ELSE s[i - 1]

Apart(s, n, f, k) == \A i \in 1..n, j \in 1..k : s[i] # f[j]

\* No entry is lost; the one in hand is on neither list.
Held(s, n, f, k) ==
    /\ \A e \in Entries : In(e, s, n) \/ In(e, f, k) \/ (disp.pc = "link" /\ e = disp.ent)
    /\ disp.pc = "link" =>
          /\ ~In(disp.ent, s, n) /\ ~In(disp.ent, f, k)
          /\ table[disp.ent].next = Nil /\ table[disp.ent].prev = Nil /\ table[disp.ent].q # Nil
          /\ n > 0 => disp.at = Nil \/ In(disp.at, s, n)

DispAt(s, m) ==
    /\ disp.pc \notin {"reclaim", "free"} => m = 0
    /\ disp.pc = "reclaim" => disp.last = IF m = 0 THEN Nil ELSE s[m]
    /\ disp.pc = "free" => m > 0 /\ disp.first = s[1] /\ disp.last = s[m]

Before(m) == IF disp.pc = "free" THEN m ELSE 0

Lay(s, n, m, f, k) ==
    /\ IoList(s, n, m) /\ FreeList(f, k) /\ Split(s, n, Before(m))
    /\ Apart(s, n, f, k) /\ Held(s, n, f, k) /\ DispAt(s, m)

Lists == \E s, n, m, f, k : Lay(s, n, m, f, k)

\* An entry that has been filled at least once.
Used(e) == table[e].q # Nil \/ table[e].done = TRUE

WorkerAt ==
    /\ wk.cur # Nil => Used(wk.cur)
    /\ wk.pc = "mark" => table[wk.cur].q # Nil /\ table[wk.cur].done = FALSE

Sound == Types /\ Lists /\ WorkerAt

(* A step that leaves the links alone, and at most finishes an entry that  *)
(* is filled.                                                              *)
LinksKept ==
    /\ \A e \in Entries :
          /\ table'[e].next = table[e].next /\ table'[e].prev = table[e].prev
          /\ table'[e].q = table[e].q
          /\ table'[e].done = table[e].done \/ (table[e].q # Nil /\ table'[e].done = TRUE)
    /\ UNCHANGED lists

LEMMA LayFrame ==
    ASSUME Types, NEW s, NEW n, NEW m, NEW f, NEW k, Lay(s, n, m, f, k), LinksKept,
           Held(s, n, f, k)', DispAt(s, m)', Before(m)' = Before(m)
    PROVE  Lay(s, n, m, f, k)'
<1>0. /\ n \in Nat /\ s \in [1..n -> Entries] /\ m \in 0..n
      /\ k \in Nat /\ f \in [1..k -> Entries]
  BY DEF Lay, IoList, FreeList, Listed
<1>1. UNCHANGED <<freeSeq, freeEnd, ioSeq, ioEnd>>
  BY DEF LinksKept, lists
<1>2. \A i \in 1..n : s[i] \in Entries
  BY <1>0
<1>3. \A j \in 1..k : f[j] \in Entries
  BY <1>0
<1>4. Listed(s, n)' /\ Listed(f, k)'
  BY <1>2, <1>3 DEF Lay, IoList, FreeList, Listed, LinksKept
<1>5. IoList(s, n, m)'
  <2>1. \A i \in 1..n : table'[s[i]].q = table[s[i]].q
    BY <1>2 DEF LinksKept
  <2>2. \A i \in 1..m : table'[s[i]].done = TRUE
    <3> SUFFICES ASSUME NEW i \in 1..m PROVE table'[s[i]].done = TRUE
      OBVIOUS
    <3>1. i \in 1..n
      BY <1>0
    <3>2. table[s[i]].done = TRUE
      BY DEF Lay, IoList
    <3> QED BY <1>2, <3>1, <3>2 DEF LinksKept
  <2> QED BY <1>0, <1>1, <1>4, <2>1, <2>2 DEF Lay, IoList
<1>6. FreeList(f, k)'
  <2>1. \A j \in 1..k : table'[f[j]].q = Nil /\ table'[f[j]].done = table[f[j]].done
    BY <1>3 DEF LinksKept, Lay, FreeList
  <2>2. \A j \in 1..(k - 1) : j \in 1..k /\ j + 1 \in 1..k
    BY <1>0
  <2> QED BY <1>0, <1>1, <1>4, <2>1, <2>2 DEF Lay, FreeList
<1>7. Split(s, n, Before(m))'
  <2>1. \A i \in 1..n : table'[s[i]].prev = table[s[i]].prev
    BY <1>2 DEF LinksKept
  <2> QED BY <1>1, <2>1 DEF Lay, Split
<1>8. Apart(s, n, f, k)'
  BY DEF Lay, Apart
<1> QED BY <1>5, <1>6, <1>7, <1>8 DEF Lay

(* The same when the dispatcher does not move either. *)
LEMMA ListsFrame ==
    ASSUME Types, Lists, LinksKept, disp' = disp
    PROVE  Lists'
<1>1. PICK s, n, m, f, k : Lay(s, n, m, f, k)
  BY DEF Lists
<1>2. DispAt(s, m)' /\ Before(m)' = Before(m)
  BY <1>1 DEF Lay, DispAt, Before
<1>3. Held(s, n, f, k)'
  <2>1. disp.pc = "link" => disp.ent \in Entries
    BY DEF Types, ThreadTypes, DispTypes
  <2> QED BY <1>1, <2>1 DEF Lay, Held, LinksKept
<1>4. Lay(s, n, m, f, k)'
  BY <1>1, <1>2, <1>3, LayFrame
<1> QED BY <1>4 DEF Lists

LEMMA InitSound == Init => Sound
<1> SUFFICES ASSUME Init PROVE Sound
  OBVIOUS
<1>1. Types
  BY InitTypes
<1> DEFINE f == [j \in 1..NEntries |-> j - 1]
           s == << >>
<1>2. NEntries \in Nat /\ NEntries >= 1 /\ Nil = -1 /\ Nil \notin Sqs
  BY EntryFacts, ConstFacts
<1>3. f \in [1..NEntries -> Entries] /\ \A j \in 1..NEntries : f[j] = j - 1
  BY <1>2 DEF Entries
<1>4. table = [e \in Entries |-> FreeEntry(e)]
  BY DEF Init
<1>5. \A e \in Entries : /\ table[e].q = Nil /\ table[e].done = FALSE
                         /\ table[e].next = IF e = NEntries - 1 THEN Nil ELSE e + 1
  BY <1>4 DEF FreeEntry
<1>6. Listed(f, NEntries)
  <2> HIDE DEF f
  <2>1. Injective(f, NEntries)
    BY <1>2, <1>3 DEF Injective
  <2>2. ASSUME NEW j \in 1..NEntries
        PROVE  table[f[j]].next = IF j = NEntries THEN Nil ELSE f[j + 1]
    <3>1. f[j] \in Entries /\ f[j] = j - 1
      BY <1>3
    <3>2. j # NEntries => j + 1 \in 1..NEntries /\ f[j + 1] = j
      BY <1>2, <1>3
    <3> QED BY <1>2, <1>5, <3>1, <3>2
  <2> QED BY <1>2, <1>3, <2>1, <2>2 DEF Listed
<1>7. FreeList(f, NEntries)
  <2> HIDE DEF f
  <2>1. freeSeq = 0 /\ freeEnd = NEntries - 1
    BY DEF Init
  <2>2. 1 \in 1..NEntries /\ NEntries \in 1..NEntries
    BY <1>2
  <2>3. \A j \in 1..NEntries : table[f[j]].q = Nil /\ table[f[j]].done = FALSE
    BY <1>3, <1>5
  <2>4. \A j \in 1..(NEntries - 1) : j \in 1..NEntries
    BY <1>2
  <2> QED BY <1>2, <1>3, <1>6, <2>1, <2>2, <2>3, <2>4 DEF FreeList
<1>8. IoList(s, 0, 0)
  <2>1. s \in [1..0 -> Entries]
    BY EmptySeq
  <2> QED BY <2>1 DEF IoList, Listed, Injective
<1>9. disp.pc = "poll" /\ ioSeq = Nil /\ wk.cur = Nil /\ wk.pc = "start"
  BY DEF Init, Idle
<1>10. Split(s, 0, Before(0)) /\ DispAt(s, 0) /\ Apart(s, 0, f, NEntries)
  BY <1>9 DEF Split, DispAt, Apart, Before
<1>11. Held(s, 0, f, NEntries)
  <2> SUFFICES ASSUME NEW e \in Entries PROVE In(e, f, NEntries)
    BY <1>9 DEF Held
  <2>1. e + 1 \in 1..NEntries /\ (e + 1) - 1 = e
    BY <1>2 DEF Entries
  <2>2. f[e + 1] = e
    BY <1>3, <2>1
  <2> HIDE DEF f
  <2> QED BY <2>1, <2>2 DEF In
<1> HIDE DEF f, s
<1>12. Lay(s, 0, 0, f, NEntries)
  BY <1>7, <1>8, <1>10, <1>11 DEF Lay
<1>13. Lists
  BY <1>12 DEF Lists
<1> QED BY <1>1, <1>9, <1>13 DEF Sound, WorkerAt

(* Steps of the clock and of the host. *)
LEMMA QuietStep ==
    ASSUME Sound, UNCHANGED <<table, lists, disp, wk>>, Types'
    PROVE  Sound'
<1>1. LinksKept
  BY DEF LinksKept
<1>2. Lists'
  BY <1>1, ListsFrame DEF Sound
<1>3. WorkerAt'
  BY DEF Sound, WorkerAt, Used
<1> QED BY <1>2, <1>3 DEF Sound

LEMMA TickTypes ==
    ASSUME Types, Tick
    PROVE  Types'
<1>1. now' = now + 1 /\ now < MaxTime
      /\ UNCHANGED <<queues, buffer, table, lists, procNsecs, disp, wk, cq, host, hist>>
  BY DEF Tick
<1>2. procNsecs \in 0..(now + 1) /\ now + 1 \in 0..MaxTime
  BY <1>1, ConstFacts DEF Types, ThreadTypes
<1> QED BY <1>1, <1>2
      DEF Types, QueueTypes, BufferTypes, TableTypes, ThreadTypes, RingTypes, queues, buffer, lists, hist,
          Completions, Slots, QSize

-----------------------------------------------------------------------------
(* The worker.                                                             *)

Places == {"start", "visit", "mark", "next", "irq"}

(* The entry the worker stands on. *)
LEMMA HereFacts ==
    ASSUME Sound, wk.pc \in {"visit", "mark", "next"}
    PROVE  /\ wk.cur \in Entries /\ Used(wk.cur) /\ Here = table[wk.cur] /\ Here \in EntryOf
           /\ Here.done = FALSE => Here.q \in Sqs /\ Here.id \in Jobs
<1>1. wk.cur \in Entries
  BY DEF Sound, Types, ThreadTypes, Links
<1>2. Used(wk.cur)
  BY <1>1, EntryFacts DEF Sound, WorkerAt
<1>3. table[wk.cur] \in EntryOf /\ table[wk.cur].q \in Sqs \cup {Nil}
      /\ (table[wk.cur].q # Nil => table[wk.cur].id \in Jobs)
  BY <1>1, FieldFacts DEF Sound, Types, TableTypes
<1> QED BY <1>1, <1>2, <1>3 DEF Used, Here

(* Next never leads from a filled entry to one that never was. *)
LEMMA UsedClosed ==
    ASSUME Types, Lists, NEW e \in Entries, Used(e)
    PROVE  table[e].next = Nil \/ (table[e].next \in Entries /\ Used(table[e].next))
<1>1. PICK s, n, m, f, k : Lay(s, n, m, f, k)
  BY DEF Lists
<1>2. /\ n \in Nat /\ s \in [1..n -> Entries] /\ m \in 0..n
      /\ k \in Nat /\ f \in [1..k -> Entries]
  BY <1>1 DEF Lay, IoList, FreeList, Listed
<1>3. CASE In(e, s, n)
  <2>1. PICK i \in 1..n : s[i] = e
    BY <1>3 DEF In
  <2>2. table[e].next = IF i = n THEN Nil ELSE s[i + 1]
    BY <1>1, <2>1 DEF Lay, IoList, Listed
  <2>3. i # n => i + 1 \in 1..n
    BY <1>2
  <2>4. ASSUME NEW j \in 1..n PROVE s[j] \in Entries /\ Used(s[j])
    <3>1. j <= m => j \in 1..m
      BY <1>2
    <3>2. (table[s[j]].q = Nil) <=> (j <= m)
      BY <1>1 DEF Lay, IoList
    <3>3. j \in 1..m => table[s[j]].done = TRUE
      BY <1>1 DEF Lay, IoList
    <3> QED BY <1>2, <3>1, <3>2, <3>3 DEF Used
  <2> QED BY <2>2, <2>3, <2>4
<1>4. CASE In(e, f, k)
  <2>1. PICK j \in 1..k : f[j] = e
    BY <1>4 DEF In
  <2>2. table[e].next = IF j = k THEN Nil ELSE f[j + 1]
    BY <1>1, <2>1 DEF Lay, FreeList, Listed
  <2>3. table[f[j]].done = TRUE
    BY <1>1, <2>1 DEF Lay, FreeList, Used
  <2>4. CASE j # k
    <3>1. j \in 1..(k - 1) /\ j + 1 \in 1..k
      BY <1>2, <2>4
    <3>2. table[f[j + 1]].done = TRUE
      BY <1>1, <2>3, <3>1 DEF Lay, FreeList
    <3>3. f[j + 1] \in Entries
      BY <1>2, <3>1
    <3> QED BY <2>2, <2>4, <3>2, <3>3 DEF Used
  <2> QED BY <2>2, <2>4
<1>5. CASE disp.pc = "link" /\ e = disp.ent
  BY <1>1, <1>5 DEF Lay, Held
<1> QED BY <1>1, <1>3, <1>4, <1>5 DEF Lay, Held

(* The head of the list that the worker starts from. *)
LEMMA HeadUsed ==
    ASSUME Types, Lists, ioSeq # Nil
    PROVE  ioSeq \in Entries /\ Used(ioSeq)
<1>1. PICK s, n, m, f, k : Lay(s, n, m, f, k)
  BY DEF Lists
<1>2. n \in Nat /\ s \in [1..n -> Entries] /\ m \in 0..n
  BY <1>1 DEF Lay, IoList, Listed
<1> DEFINE c == Before(m)
<1>3. c \in 0..n /\ ioSeq = IF c < n THEN s[c + 1] ELSE Nil
  BY <1>1, <1>2 DEF Lay, Split, Before
<1> HIDE DEF c
<1>4. c + 1 \in 1..n /\ ioSeq = s[c + 1]
  BY <1>2, <1>3
<1>5. (table[s[c + 1]].q = Nil) <=> (c + 1 <= m)
  BY <1>1, <1>4 DEF Lay, IoList
<1>6. c + 1 <= m => table[s[c + 1]].done = TRUE
  <2>1. c + 1 <= m => c + 1 \in 1..m
    BY <1>2, <1>4
  <2> QED BY <1>1, <2>1 DEF Lay, IoList
<1> QED BY <1>2, <1>4, <1>5, <1>6 DEF Used

(* Steps that only move the worker. *)
LEMMA WorkerMoves ==
    ASSUME Types, UNCHANGED <<queues, buffer, table, lists, now, disp, hist>>,
           procNsecs' \in {procNsecs, now}, cq' \in [Sqs -> Completions],
           host' \in [Sqs -> [head : Slots, phase : {0, 1}, irq : BOOLEAN]],
           wk' \in [pc : Places, cur : Links],
           (wk'.cur # Nil) <=> (wk'.pc \in {"visit", "mark", "next"})
    PROVE  Types'
<1>1. procNsecs' \in 0..now /\ Completions' = Completions /\ Slots' = Slots
  BY ConstFacts DEF Types, ThreadTypes, Completions, Slots, QSize, queues
<1> QED BY <1>1
      DEF Types, QueueTypes, BufferTypes, TableTypes, ThreadTypes, RingTypes, queues, buffer, lists, hist, Places

LEMMA StartPassSound ==
    ASSUME Sound, StartPass
    PROVE  Sound'
<1>1. wk' = [cur |-> ioSeq, pc |-> IF ioSeq = Nil THEN "irq" ELSE "visit"]
      /\ UNCHANGED <<queues, buffer, table, lists, procNsecs, now, disp, cq, host, hist>>
  BY DEF StartPass
<1>2. wk' \in [pc : Places, cur : Links] /\ ((wk'.cur # Nil) <=> (wk'.pc \in {"visit", "mark", "next"}))
  BY <1>1 DEF Sound, Types, TableTypes, Places
<1>3. Types'
  BY <1>1, <1>2, WorkerMoves DEF Sound, Types, RingTypes
<1>4. Lists'
  <2>1. LinksKept
    BY <1>1 DEF LinksKept
  <2> QED BY <1>1, <2>1, ListsFrame DEF Sound
<1>5. WorkerAt'
  BY <1>1, HeadUsed DEF WorkerAt, Used, Sound
<1> QED BY <1>3, <1>4, <1>5 DEF Sound

LEMMA AdvanceSound ==
    ASSUME Sound, Advance
    PROVE  Sound'
<1>0. wk.cur \in Entries /\ Used(wk.cur) /\ Here = table[wk.cur]
  BY HereFacts DEF Advance
<1> DEFINE h == Here.next
<1>1. wk' = [cur |-> h, pc |-> IF h = Nil THEN "irq" ELSE "visit"]
      /\ UNCHANGED <<queues, buffer, table, lists, procNsecs, now, disp, cq, host, hist>>
  BY DEF Advance
<1>2. h = Nil \/ (h \in Entries /\ Used(h))
  BY <1>0, UsedClosed DEF Sound
<1> HIDE DEF h
<1>3. wk' \in [pc : Places, cur : Links] /\ ((wk'.cur # Nil) <=> (wk'.pc \in {"visit", "mark", "next"}))
  BY <1>1, <1>2 DEF Places, Links
<1>4. Types'
  BY <1>1, <1>3, WorkerMoves DEF Sound, Types, RingTypes
<1>5. Lists'
  <2>1. LinksKept
    BY <1>1 DEF LinksKept
  <2> QED BY <1>1, <2>1, ListsFrame DEF Sound
<1>6. WorkerAt'
  BY <1>1, <1>2 DEF WorkerAt, Used
<1> QED BY <1>4, <1>5, <1>6 DEF Sound

LEMMA SkipSound ==
    ASSUME Sound, Skip
    PROVE  Sound'
<1>1. wk' = [wk EXCEPT !.pc = "next"] /\ wk.pc = "visit" /\ procNsecs' = now
      /\ UNCHANGED <<queues, buffer, table, lists, now, disp, cq, host, hist>>
  BY DEF Skip
<1>2. wk \in [pc : Places, cur : Links] /\ wk.cur # Nil
  BY <1>1 DEF Sound, Types, ThreadTypes, Places
<1>3. wk' \in [pc : Places, cur : Links] /\ wk'.cur = wk.cur /\ wk'.pc = "next"
  BY <1>1, <1>2 DEF Places
<1>4. Types'
  <2>1. (wk'.cur # Nil) <=> (wk'.pc \in {"visit", "mark", "next"})
    BY <1>2, <1>3
  <2>2. procNsecs' \in {procNsecs, now}
    BY <1>1
  <2> QED BY <1>1, <1>3, <2>1, <2>2, WorkerMoves DEF Sound, Types, RingTypes
<1>5. Lists'
  <2>1. LinksKept
    BY <1>1 DEF LinksKept
  <2> QED BY <1>1, <2>1, ListsFrame DEF Sound
<1>6. WorkerAt'
  BY <1>1, <1>2, <1>3 DEF Sound, WorkerAt, Used
<1> QED BY <1>4, <1>5, <1>6 DEF Sound

LEMMA SignalIrqSound ==
    ASSUME Sound, SignalIrq
    PROVE  Sound'
<1>1. /\ cq' = [q \in Sqs |-> [cq[q] EXCEPT !.ready = FALSE]]
      /\ host' = [q \in Sqs |-> [host[q] EXCEPT !.irq = host[q].irq \/ cq[q].ready]]
      /\ wk' = [wk EXCEPT !.pc = "start"] /\ wk.pc = "irq"
      /\ UNCHANGED <<queues, buffer, table, lists, procNsecs, now, disp, hist>>
  BY DEF SignalIrq
<1>2. wk \in [pc : Places, cur : Links] /\ wk.cur = Nil
  BY <1>1 DEF Sound, Types, ThreadTypes, Places
<1>3. wk' \in [pc : Places, cur : Links] /\ wk'.cur = Nil /\ wk'.pc = "start"
  BY <1>1, <1>2 DEF Places
<1>4. cq' \in [Sqs -> Completions]
  <2>1. \A q \in Sqs : cq[q] \in Completions
    BY DEF Sound, Types, RingTypes
  <2>2. \A q \in Sqs : [cq[q] EXCEPT !.ready = FALSE] \in Completions
    BY <2>1 DEF Completions
  <2> QED BY <1>1, <2>2
<1>5. host' \in [Sqs -> [head : Slots, phase : {0, 1}, irq : BOOLEAN]]
  <2> DEFINE H == [head : Slots, phase : {0, 1}, irq : BOOLEAN]
             b(q) == host[q].irq \/ cq[q].ready
  <2>1. \A q \in Sqs : host[q] \in H
    BY DEF Sound, Types, RingTypes
  <2>2. \A q \in Sqs : b(q) \in BOOLEAN
    OBVIOUS
  <2> HIDE DEF b
  <2>3. ASSUME NEW q \in Sqs PROVE [host[q] EXCEPT !.irq = b(q)] \in H
    BY <2>1, <2>2
  <2>4. host' = [q \in Sqs |-> [host[q] EXCEPT !.irq = b(q)]]
    BY <1>1 DEF b
  <2> HIDE DEF H
  <2>5. host' \in [Sqs -> H]
    BY <2>3, <2>4
  <2> QED BY <2>5 DEF H
<1>6. Types'
  <2>1. (wk'.cur # Nil) <=> (wk'.pc \in {"visit", "mark", "next"})
    BY <1>3
  <2> QED BY <1>1, <1>3, <1>4, <1>5, <2>1, WorkerMoves DEF Sound
<1>7. Lists'
  <2>1. LinksKept
    BY <1>1 DEF LinksKept
  <2> QED BY <1>1, <2>1, ListsFrame DEF Sound
<1>8. WorkerAt'
  BY <1>3 DEF WorkerAt
<1> QED BY <1>6, <1>7, <1>8 DEF Sound

LEMMA ReleaseSound ==
    ASSUME Sound, Release
    PROVE  Sound'
<1>1. wk' = [wk EXCEPT !.pc = "mark"] /\ wk.pc = "visit" /\ procNsecs' = now /\ ~Here.done
      /\ remaining' = remaining + Oneshot * SecsPerPg
      /\ UNCHANGED <<queues, open, unpaid, table, lists, now, disp, cq, host, hist>>
  BY DEF Release
<1>2. wk \in [pc : Places, cur : Links] /\ wk.cur \in Entries /\ wk.cur # Nil
      /\ Here = table[wk.cur] /\ Here \in EntryOf /\ (Here.done = FALSE => Here.q \in Sqs)
  BY <1>1, HereFacts, EntryFacts DEF Sound, Types, ThreadTypes, Places
<1>3. wk' \in [pc : Places, cur : Links] /\ wk'.cur = wk.cur /\ wk'.pc = "mark"
  BY <1>1, <1>2 DEF Places
<1>4. Here.done = FALSE
  BY <1>1, <1>2 DEF EntryOf
<1>5. BufferTypes'
  <2>1. Oneshot * SecsPerPg \in Nat
    BY ConstFacts
  <2> DEFINE x == Oneshot * SecsPerPg
  <2> HIDE DEF x
  <2>2. remaining \in Nat /\ x \in Nat => remaining + x \in Nat
    OBVIOUS
  <2> QED BY <1>1, <2>1, <2>2 DEF Sound, Types, BufferTypes, x
<1>6. Types'
  <2>1. procNsecs' \in 0..now /\ Completions' = Completions /\ Slots' = Slots
    BY <1>1, ConstFacts DEF Sound, Types, ThreadTypes, Completions, Slots, QSize, queues
  <2>2. (wk'.cur # Nil) <=> (wk'.pc \in {"visit", "mark", "next"})
    BY <1>2, <1>3
  <2>3. ThreadTypes'
    BY <1>1, <1>3, <2>1, <2>2 DEF Sound, Types, ThreadTypes, Places
  <2> QED BY <1>1, <1>5, <2>1, <2>3
        DEF Sound, Types, QueueTypes, TableTypes, RingTypes, queues, lists, hist
<1>7. Lists'
  <2>1. LinksKept
    BY <1>1 DEF LinksKept
  <2> QED BY <1>1, <2>1, ListsFrame DEF Sound
<1>8. WorkerAt'
  <2>1. table' = table
    BY <1>1
  <2> QED BY <1>2, <1>3, <1>4, <2>1, EntryFacts DEF WorkerAt, Used
<1> QED BY <1>6, <1>7, <1>8 DEF Sound

(* The flags of an entry. *)
SetCopied(t, a) == [t EXCEPT ![a].copied = TRUE]
SetDone(t, a) == [t EXCEPT ![a].done = TRUE]

(* u differs from t in the flag copied of a only. *)
CopiedOnly(u, t, a) ==
    \A e \in Entries :
        /\ u[e].q = t[e].q /\ u[e].id = t[e].id /\ u[e].target = t[e].target
        /\ u[e].done = t[e].done /\ u[e].wb = t[e].wb
        /\ u[e].next = t[e].next /\ u[e].prev = t[e].prev
        /\ (e = a => u[e].copied = TRUE) /\ (e # a => u[e].copied = t[e].copied)

LEMMA CopiedFacts ==
    ASSUME NEW t \in Tables, NEW a \in Entries
    PROVE  SetCopied(t, a) \in Tables /\ CopiedOnly(SetCopied(t, a), t, a)
<1> DEFINE x == [t[a] EXCEPT !.copied = TRUE]
<1>1. t[a] \in EntryOf
  BY DEF Tables
<1>2. x \in EntryOf
  BY <1>1 DEF EntryOf
<1>3. /\ x.next = t[a].next /\ x.prev = t[a].prev /\ x.q = t[a].q /\ x.id = t[a].id
      /\ x.target = t[a].target /\ x.done = t[a].done /\ x.copied = TRUE /\ x.wb = t[a].wb
  BY <1>1 DEF EntryOf
<1>4. SetCopied(t, a) = [t EXCEPT ![a] = x]
  BY DEF SetCopied
<1> HIDE DEF x
<1>5. /\ [t EXCEPT ![a] = x] \in Tables
      /\ \A e \in Entries : [t EXCEPT ![a] = x][e] = IF e = a THEN x ELSE t[e]
  BY <1>2 DEF Tables
<1> QED BY <1>3, <1>4, <1>5 DEF CopiedOnly

LEMMA DoneFacts ==
    ASSUME NEW t \in Tables, NEW a \in Entries
    PROVE  /\ SetDone(t, a) \in Tables
           /\ \A e \in Entries :
                 /\ SetDone(t, a)[e].q = t[e].q /\ SetDone(t, a)[e].id = t[e].id
                 /\ SetDone(t, a)[e].target = t[e].target /\ SetDone(t, a)[e].copied = t[e].copied
                 /\ SetDone(t, a)[e].wb = t[e].wb
                 /\ SetDone(t, a)[e].next = t[e].next /\ SetDone(t, a)[e].prev = t[e].prev
                 /\ (e = a => SetDone(t, a)[e].done = TRUE) /\ (e # a => SetDone(t, a)[e].done = t[e].done)
<1> DEFINE x == [t[a] EXCEPT !.done = TRUE]
<1>1. t[a] \in EntryOf
  BY DEF Tables
<1>2. x \in EntryOf
  BY <1>1 DEF EntryOf
<1>3. /\ x.next = t[a].next /\ x.prev = t[a].prev /\ x.q = t[a].q /\ x.id = t[a].id
      /\ x.target = t[a].target /\ x.copied = t[a].copied /\ x.done = TRUE /\ x.wb = t[a].wb
  BY <1>1 DEF EntryOf
<1>4. SetDone(t, a) = [t EXCEPT ![a] = x]
  BY DEF SetDone
<1> HIDE DEF x
<1>5. /\ [t EXCEPT ![a] = x] \in Tables
      /\ \A e \in Entries : [t EXCEPT ![a] = x][e] = IF e = a THEN x ELSE t[e]
  BY <1>2 DEF Tables
<1> QED BY <1>3, <1>4, <1>5

(* The links, the command and the links of every entry stay. *)
FlagsOnly ==
    /\ table' \in Tables
    /\ \A e \in Entries : table'[e].q = table[e].q /\ table'[e].id = table[e].id
    /\ LinksKept

LEMMA FlagsStep ==
    ASSUME Types, Lists, FlagsOnly, disp' = disp
    PROVE  TableTypes' /\ Lists'
<1>1. Lists'
  BY ListsFrame DEF FlagsOnly
<1>2. UNCHANGED <<freeSeq, freeEnd, ioSeq, ioEnd>>
  BY DEF FlagsOnly, LinksKept, lists
<1>3. \A e \in Entries : table'[e].q # Nil => table'[e].id \in Jobs
  BY DEF FlagsOnly, Types, TableTypes
<1>4. table' \in [Entries -> EntryOf]
  BY DEF FlagsOnly, Tables
<1> QED BY <1>1, <1>2, <1>3, <1>4 DEF Types, TableTypes

LEMMA MarkSound ==
    ASSUME Sound, Mark
    PROVE  Sound'
<1>1. wk' = [wk EXCEPT !.pc = "next"] /\ wk.pc = "mark" /\ table' = SetDone(table, wk.cur)
      /\ UNCHANGED <<queues, buffer, lists, procNsecs, now, disp, cq, host, hist>>
  BY DEF Mark, SetDone
<1>2. wk \in [pc : Places, cur : Links] /\ wk.cur \in Entries /\ wk.cur # Nil /\ table \in Tables
  BY <1>1, HereFacts, EntryFacts DEF Sound, Types, ThreadTypes, Places, TableTypes, Tables
<1>3. wk' \in [pc : Places, cur : Links] /\ wk'.cur = wk.cur /\ wk'.pc = "next"
  BY <1>1, <1>2 DEF Places
<1>4. table[wk.cur].q # Nil
  BY <1>1 DEF Sound, WorkerAt
<1>5. table' \in Tables
      /\ \A e \in Entries :
            /\ table'[e].q = table[e].q /\ table'[e].id = table[e].id
            /\ table'[e].next = table[e].next /\ table'[e].prev = table[e].prev
            /\ (e = wk.cur => table'[e].done = TRUE) /\ (e # wk.cur => table'[e].done = table[e].done)
  <2> DEFINE a == wk.cur
             t == SetDone(table, a)
  <2>1. table \in Tables /\ a \in Entries
    BY <1>2
  <2>2. table' = t
    BY <1>1
  <2> HIDE DEF a
  <2>3. t \in Tables
        /\ \A e \in Entries :
              /\ t[e].q = table[e].q /\ t[e].id = table[e].id
              /\ t[e].next = table[e].next /\ t[e].prev = table[e].prev
              /\ (e = a => t[e].done = TRUE) /\ (e # a => t[e].done = table[e].done)
    BY <2>1, DoneFacts
  <2> HIDE DEF t
  <2> QED BY <2>2, <2>3 DEF a, CopiedOnly
<1>6. FlagsOnly
  BY <1>1, <1>4, <1>5 DEF FlagsOnly, LinksKept
<1>7. TableTypes' /\ Lists'
  BY <1>1, <1>6, FlagsStep DEF Sound
<1>8. ThreadTypes'
  <2>1. (wk'.cur # Nil) <=> (wk'.pc \in {"visit", "mark", "next"})
    BY <1>2, <1>3
  <2> QED BY <1>1, <1>3, <2>1 DEF Sound, Types, ThreadTypes, Places
<1>9. Types'
  BY <1>1, <1>7, <1>8
     DEF Sound, Types, QueueTypes, BufferTypes, RingTypes, queues, buffer, hist, Completions, Slots, QSize
<1>10. WorkerAt'
  BY <1>2, <1>3, <1>5 DEF WorkerAt, Used
<1> QED BY <1>7, <1>9, <1>10 DEF Sound

(* Perform, on an entry that is not done. *)
LEMMA PerformStep ==
    ASSUME Sound, wk.pc = "visit", ~Here.done, Perform, UNCHANGED <<lists, disp>>
    PROVE  /\ FlagsOnly /\ TableTypes' /\ Lists' /\ performed' \in [Sqs -> [Jobs -> Nat]]
           /\ wk.cur \in Entries /\ Here = table[wk.cur] /\ Here.q \in Sqs /\ Here.id \in Jobs
           /\ table[wk.cur].done = FALSE
           /\ \A e \in Entries :
                 /\ table'[e].q = table[e].q /\ table'[e].id = table[e].id /\ table'[e].wb = table[e].wb
                 /\ table'[e].done = table[e].done
                 /\ (e = wk.cur => table'[e].copied = TRUE) /\ (e # wk.cur => table'[e].copied = table[e].copied)
<1>1. /\ wk.cur \in Entries /\ Here = table[wk.cur] /\ Here \in EntryOf
      /\ Here.done = FALSE => Here.q \in Sqs /\ Here.id \in Jobs
  BY HereFacts
<1>2. Here.done = FALSE
  BY <1>1 DEF EntryOf
<1>3. table' = SetCopied(table, wk.cur) /\ table \in Tables
  BY DEF Perform, SetCopied, Sound, Types, TableTypes, Tables
<1>4. table' \in Tables
      /\ \A e \in Entries :
            /\ table'[e].q = table[e].q /\ table'[e].id = table[e].id
            /\ table'[e].next = table[e].next /\ table'[e].prev = table[e].prev
            /\ table'[e].done = table[e].done /\ table'[e].wb = table[e].wb
            /\ (e = wk.cur => table'[e].copied = TRUE) /\ (e # wk.cur => table'[e].copied = table[e].copied)
  <2> DEFINE a == wk.cur
             t == SetCopied(table, a)
  <2>1. table \in Tables /\ a \in Entries
    BY <1>1, <1>3
  <2>2. table' = t
    BY <1>3
  <2> HIDE DEF a
  <2>3. t \in Tables /\ CopiedOnly(t, table, a)
    BY <2>1, CopiedFacts
  <2> HIDE DEF t
  <2> QED BY <2>2, <2>3 DEF a, CopiedOnly
<1>5. FlagsOnly
  BY <1>4 DEF FlagsOnly, LinksKept
<1>6. TableTypes' /\ Lists'
  BY <1>5, FlagsStep DEF Sound
<1>7. performed' \in [Sqs -> [Jobs -> Nat]]
  <2> DEFINE a == Here.q
             b == Here.id
  <2>1. performed \in [Sqs -> [Jobs -> Nat]] /\ a \in Sqs /\ b \in Jobs
    BY <1>1, <1>2 DEF Sound, Types, RingTypes
  <2>2. performed' = performed \/ performed' = [performed EXCEPT ![a][b] = performed[a][b] + 1]
    BY DEF Perform
  <2> HIDE DEF a, b
  <2> QED BY <2>1, <2>2
<1> QED BY <1>1, <1>2, <1>4, <1>5, <1>6, <1>7

LEMMA VisitEarlySound ==
    ASSUME Sound, VisitEarly
    PROVE  Sound'
<1>1. wk' = [wk EXCEPT !.pc = "next"] /\ wk.pc = "visit" /\ procNsecs' = now /\ ~Here.done /\ Perform
      /\ UNCHANGED <<queues, buffer, lists, now, disp, cq, host, answered>>
  BY DEF VisitEarly
<1>2. /\ TableTypes' /\ Lists' /\ performed' \in [Sqs -> [Jobs -> Nat]] /\ wk.cur \in Entries
      /\ \A e \in Entries : table'[e].q = table[e].q /\ table'[e].done = table[e].done
  BY <1>1, PerformStep
<1>3. wk \in [pc : Places, cur : Links] /\ wk.cur # Nil
  BY <1>1 DEF Sound, Types, ThreadTypes, Places
<1>4. wk' \in [pc : Places, cur : Links] /\ wk'.cur = wk.cur /\ wk'.pc = "next"
  BY <1>1, <1>3 DEF Places
<1>5. ThreadTypes'
  <2>1. (wk'.cur # Nil) <=> (wk'.pc \in {"visit", "mark", "next"})
    BY <1>3, <1>4
  <2>2. procNsecs' \in 0..now
    BY <1>1, ConstFacts DEF Sound, Types, ThreadTypes
  <2> QED BY <1>1, <1>4, <2>1, <2>2 DEF Sound, Types, ThreadTypes, Places
<1>6. Types'
  BY <1>1, <1>2, <1>5
     DEF Sound, Types, QueueTypes, BufferTypes, RingTypes, queues, buffer, Completions, Slots, QSize
<1>7. WorkerAt'
  BY <1>2, <1>3, <1>4 DEF WorkerAt, Used, Sound
<1> QED BY <1>2, <1>6, <1>7 DEF Sound

LEMMA PostFacts ==
    ASSUME hc \in Hosts, NEW c \in Completions, NEW j \in Nat
    PROVE  /\ Post(c, j) \in Completions
           /\ Post(c, j).slot = [c.slot EXCEPT ![c.head] = [id |-> j, phase |-> c.phase]]
           /\ Post(c, j).head = IF c.head = QSize - 1 THEN 0 ELSE c.head + 1
           /\ Post(c, j).phase = IF c.head = QSize - 1 THEN 1 - c.phase ELSE c.phase
           /\ Post(c, j).ready = TRUE
<1>1. QSize \in Nat /\ QSize >= 2 /\ Slots = 0..(QSize - 1)
  BY HostFacts
<1>2. c.head \in Slots /\ c.phase \in {0, 1} /\ c.slot \in [Slots -> [id : Nat, phase : {0, 1}]]
  BY DEF Completions
<1> DEFINE a == (c.head + 1) % QSize
           b == IF c.head = QSize - 1 THEN 1 - c.phase ELSE c.phase
           t == [c.slot EXCEPT ![c.head] = [id |-> j, phase |-> c.phase]]
<1>3. a = IF c.head = QSize - 1 THEN 0 ELSE c.head + 1
  <2> DEFINE h == c.head
  <2>1. h \in Nat /\ h <= QSize - 1
    BY <1>1, <1>2
  <2> HIDE DEF h
  <2>2. CASE h = QSize - 1
    <3>1. h + 1 = QSize
      BY <1>1, <2>2
    <3>2. QSize % QSize = 0
      BY <1>1
    <3> QED BY <2>2, <3>1, <3>2 DEF h
  <2>3. CASE h # QSize - 1
    <3>1. h + 1 \in 0..(QSize - 1)
      BY <1>1, <2>1, <2>3
    <3>2. (h + 1) % QSize = h + 1
      BY <1>1, <3>1
    <3> QED BY <2>3, <3>2 DEF h
  <2> QED BY <2>2, <2>3
<1>4. a \in Slots /\ b \in {0, 1}
  BY <1>1, <1>2, <1>3
<1>5. t \in [Slots -> [id : Nat, phase : {0, 1}]]
  BY <1>2
<1>6. Post(c, j) = [slot |-> t, head |-> a, phase |-> b, ready |-> TRUE]
  BY DEF Post
<1>7. Post(c, j) \in Completions
  <2> HIDE DEF a, b, t
  <2> QED BY <1>4, <1>5, <1>6 DEF Completions
<1>8. Post(c, j).slot = t /\ Post(c, j).head = a /\ Post(c, j).phase = b /\ Post(c, j).ready = TRUE
  <2> HIDE DEF a, b, t
  <2> QED BY <1>6
<1> QED BY <1>3, <1>7, <1>8

LEMMA CompleteSound ==
    ASSUME Sound, Complete
    PROVE  Sound'
<1>1. wk' = [wk EXCEPT !.pc = "mark"] /\ wk.pc = "visit" /\ procNsecs' = now /\ ~Here.done /\ Perform
      /\ cq' = [cq EXCEPT ![Here.q] = Post(cq[Here.q], Here.id)]
      /\ UNCHANGED <<queues, buffer, lists, now, disp, host, answered>>
  BY DEF Complete
<1>2. /\ TableTypes' /\ Lists' /\ performed' \in [Sqs -> [Jobs -> Nat]] /\ wk.cur \in Entries
      /\ \A e \in Entries : table'[e].q = table[e].q /\ table'[e].done = table[e].done
      /\ Here = table[wk.cur] /\ Here.q \in Sqs /\ Here.id \in Jobs /\ table[wk.cur].done = FALSE
  BY <1>1, PerformStep
<1>3. wk \in [pc : Places, cur : Links] /\ wk.cur # Nil
  BY <1>1 DEF Sound, Types, ThreadTypes, Places
<1>4. wk' \in [pc : Places, cur : Links] /\ wk'.cur = wk.cur /\ wk'.pc = "mark"
  BY <1>1, <1>3 DEF Places
<1>5. ThreadTypes'
  <2>1. (wk'.cur # Nil) <=> (wk'.pc \in {"visit", "mark", "next"})
    BY <1>3, <1>4
  <2>2. procNsecs' \in 0..now
    BY <1>1, ConstFacts DEF Sound, Types, ThreadTypes
  <2> QED BY <1>1, <1>4, <2>1, <2>2 DEF Sound, Types, ThreadTypes, Places
<1>6. cq' \in [Sqs -> Completions]
  <2> DEFINE a == Here.q
             b == Here.id
             p == Post(cq[a], b)
  <2>1. a \in Sqs /\ b \in Nat /\ cq \in [Sqs -> Completions] /\ cq[a] \in Completions /\ hc \in Hosts
    BY <1>2, ConstFacts DEF Sound, Types, RingTypes, Jobs
  <2> HIDE DEF a, b
  <2>2. p \in Completions
    BY <2>1, PostFacts
  <2>3. cq' = [cq EXCEPT ![a] = p]
    BY <1>1 DEF a, b
  <2> HIDE DEF p
  <2> QED BY <2>1, <2>2, <2>3
<1>7. Types'
  BY <1>1, <1>2, <1>5, <1>6
     DEF Sound, Types, QueueTypes, BufferTypes, RingTypes, queues, buffer, Completions, Slots, QSize
<1>8. WorkerAt'
  BY <1>2, <1>3, <1>4, EntryFacts DEF WorkerAt, Used, Sound
<1> QED BY <1>2, <1>7, <1>8 DEF Sound

-----------------------------------------------------------------------------
(* The dispatcher.                                                         *)

LEMMA LayFacts ==
    ASSUME NEW s, NEW n, NEW m, NEW f, NEW k, Lay(s, n, m, f, k)
    PROVE  /\ n \in Nat /\ s \in [1..n -> Entries] /\ m \in 0..n /\ m \in Nat
           /\ k \in Nat /\ k >= 1 /\ f \in [1..k -> Entries]
           /\ \A i \in 1..n : s[i] \in Entries
           /\ \A j \in 1..k : f[j] \in Entries
BY DEF Lay, IoList, FreeList, Listed

(* Between two entries the dispatcher holds nothing. *)
LEMMA DispMoves ==
    ASSUME Types, Lists, UNCHANGED <<table, lists>>,
           disp.pc \in {"poll", "alloc"} \/ (disp.pc = "reclaim" /\ disp.last = Nil),
           disp'.pc \in {"poll", "alloc"} \/ (disp'.pc = "reclaim" /\ disp'.last = Nil)
    PROVE  Lists'
<1>1. PICK s, n, m, f, k : Lay(s, n, m, f, k)
  BY DEF Lists
<1>2. m = 0
  <2>1. CASE disp.pc \in {"poll", "alloc"}
    BY <1>1, <2>1 DEF Lay, DispAt
  <2>2. CASE disp.pc = "reclaim" /\ disp.last = Nil
    <3>1. m # 0 => s[m] \in Entries
      BY <1>1, LayFacts
    <3> QED BY <1>1, <2>2, <3>1, EntryFacts DEF Lay, DispAt
  <2> QED BY <2>1, <2>2
<1>3. DispAt(s, m)'
  BY <1>2 DEF DispAt
<1>4. Before(m)' = Before(m)
  BY <1>2 DEF Before
<1>5. Held(s, n, f, k)'
  BY <1>1 DEF Lay, Held
<1>6. LinksKept
  BY DEF LinksKept
<1>7. Lay(s, n, m, f, k)'
  BY <1>1, <1>3, <1>4, <1>5, <1>6, LayFrame
<1> QED BY <1>7 DEF Lists

LEMMA ProcIoSqSound ==
    ASSUME Sound, NEW q \in Sqs, ProcIoSq(q)
    PROVE  Sound'
<1>1. Types'
  BY ProcIoSqTypes DEF Sound
<1>2. disp.pc = "poll" /\ UNCHANGED <<table, lists, wk>> /\ disp'.pc \in {"poll", "alloc"}
  BY DEF ProcIoSq, Accept
<1>3. Lists'
  BY <1>2, DispMoves DEF Sound
<1>4. WorkerAt'
  BY <1>2 DEF Sound, WorkerAt, Used
<1> QED BY <1>1, <1>3, <1>4 DEF Sound

LEMMA ProcIoDqSound ==
    ASSUME Sound, NEW q \in Sqs, ProcIoDq(q)
    PROVE  Sound'
<1>1. Types'
  BY ProcIoDqTypes DEF Sound
<1>2. disp.pc = "poll" /\ UNCHANGED <<table, lists, wk>> /\ disp'.pc \in {"poll", "alloc"}
  BY DEF ProcIoDq, Accept
<1>3. Lists'
  BY <1>2, DispMoves DEF Sound
<1>4. WorkerAt'
  BY <1>2 DEF Sound, WorkerAt, Used
<1> QED BY <1>1, <1>3, <1>4 DEF Sound

LEMMA WalkBackSound ==
    ASSUME Sound, WalkBack
    PROVE  Sound'
<1>1. Types'
  BY WalkBackTypes DEF Sound
<1>2. /\ disp.pc = "link" /\ ioSeq # Nil /\ disp.at # Nil
      /\ disp' = [disp EXCEPT !.at = table[disp.at].prev]
      /\ UNCHANGED <<table, lists, wk>>
  BY DEF WalkBack, WalksOn
<1>3. disp \in [pc : {"link"}, q : Sqs, id : Jobs, wbs : Nat, ent : Entries, at : Links]
  BY <1>2 DEF Sound, Types, ThreadTypes, DispTypes
<1>4. disp'.pc = "link" /\ disp'.ent = disp.ent /\ disp'.at = table[disp.at].prev
  BY <1>2, <1>3
<1>5. PICK s, n, m, f, k : Lay(s, n, m, f, k)
  BY DEF Lists, Sound
<1>6. n \in Nat /\ s \in [1..n -> Entries]
  BY <1>5, LayFacts
<1>7. m = 0 /\ Before(m) = 0 /\ Before(m)' = 0 /\ DispAt(s, m)'
  BY <1>2, <1>4, <1>5 DEF Lay, DispAt, Before
<1>8. n > 0
  BY <1>2, <1>5, <1>6, <1>7 DEF Lay, Split
<1>9. PICK i \in 1..n : s[i] = disp.at
  BY <1>2, <1>5, <1>8 DEF Lay, Held, In
<1>10. disp'.at = Nil \/ In(disp'.at, s, n)
  <2>1. table[disp.at].prev = IF i = 1 \/ i = 1 THEN Nil ELSE s[i - 1]
    BY <1>5, <1>7, <1>9 DEF Lay, Split
  <2>2. i # 1 => i - 1 \in 1..n
    BY <1>6
  <2> QED BY <1>4, <2>1, <2>2 DEF In
<1>11. Held(s, n, f, k)'
  BY <1>2, <1>4, <1>5, <1>10 DEF Lay, Held
<1>12. LinksKept
  BY <1>2 DEF LinksKept
<1>13. Lay(s, n, m, f, k)'
  BY <1>5, <1>7, <1>11, <1>12, LayFrame DEF Sound
<1>14. WorkerAt'
  BY <1>2 DEF Sound, WorkerAt, Used
<1> QED BY <1>1, <1>13, <1>14 DEF Sound, Lists

(* A list without its first d entries. *)
Drop(s, n, d) == [i \in 1..(n - d) |-> s[i + d]]

Dropped(u, s, n, d) ==
    /\ n - d \in Nat /\ u \in [1..(n - d) -> Entries]
    /\ \A i \in 1..(n - d) : i + d \in 1..n /\ u[i] = s[i + d]
    /\ \A i \in 1..n : i > d => i - d \in 1..(n - d) /\ u[i - d] = s[i]
    /\ Injective(s, n) => Injective(u, n - d)

LEMMA DropFacts ==
    ASSUME NEW n \in Nat, NEW s \in [1..n -> Entries], NEW d \in 0..n
    PROVE  Dropped(Drop(s, n, d), s, n, d)
<1> DEFINE u == Drop(s, n, d)
<1>1. n - d \in Nat /\ \A i \in 1..(n - d) : i + d \in 1..n
  OBVIOUS
<1>2. u = [i \in 1..(n - d) |-> s[i + d]]
  BY DEF Drop
<1> HIDE DEF u
<1>3. \A i \in 1..(n - d) : u[i] = s[i + d]
  BY <1>2
<1>4. u \in [1..(n - d) -> Entries]
  BY <1>1, <1>2
<1>5. ASSUME NEW i \in 1..n, i > d PROVE i - d \in 1..(n - d) /\ u[i - d] = s[i]
  <2>1. i - d \in 1..(n - d) /\ (i - d) + d = i
    BY <1>5
  <2> QED BY <1>3, <2>1
<1>6. ASSUME Injective(s, n), NEW i \in 1..(n - d), NEW j \in 1..(n - d), u[i] = u[j] PROVE i = j
  <2>1. s[i + d] = s[j + d] /\ i + d \in 1..n /\ j + d \in 1..n
    BY <1>1, <1>3, <1>6
  <2>2. i + d = j + d
    BY <1>6, <2>1 DEF Injective
  <2> QED BY <2>2
<1>7. Dropped(u, s, n, d)
  BY <1>1, <1>3, <1>4, <1>5, <1>6 DEF Injective, Dropped
<1> QED BY <1>7 DEF u

LEMMA DropListed ==
    ASSUME NEW s, NEW n, Listed(s, n), NEW d \in 0..n, NEW u, Dropped(u, s, n, d)
    PROVE  Listed(u, n - d)
<1>0. n \in Nat /\ s \in [1..n -> Entries] /\ Injective(s, n)
  BY DEF Listed
<1>1. /\ n - d \in Nat /\ u \in [1..(n - d) -> Entries]
      /\ \A i \in 1..(n - d) : i + d \in 1..n /\ u[i] = s[i + d]
      /\ Injective(u, n - d)
  BY <1>0 DEF Dropped
<1>2. ASSUME NEW i \in 1..(n - d) PROVE table[u[i]].next = IF i = n - d THEN Nil ELSE u[i + 1]
  <2>1. i + d \in 1..n /\ u[i] = s[i + d]
    BY <1>1
  <2>2. table[u[i]].next = IF i + d = n THEN Nil ELSE s[(i + d) + 1]
    BY <2>1 DEF Listed
  <2>3. i # n - d => i + 1 \in 1..(n - d) /\ (i + 1) + d = (i + d) + 1
    BY <1>0
  <2>4. i # n - d => u[i + 1] = s[(i + d) + 1]
    BY <1>1, <2>3
  <2>5. (i = n - d) <=> (i + d = n)
    BY <1>0
  <2> QED BY <2>2, <2>4, <2>5
<1> QED BY <1>1, <1>2 DEF Listed

LEMMA ListedFrame ==
    ASSUME NEW s, NEW n, Listed(s, n), \A i \in 1..n : table'[s[i]].next = table[s[i]].next
    PROVE  Listed(s, n)'
BY DEF Listed

(* The first free entry is filled. *)
LEMMA FillLists ==
    ASSUME Types, NEW s, NEW n, NEW f, NEW k, Lay(s, n, 0, f, k),
           disp.pc = "alloc", table[freeSeq].next # Nil,
           \A e \in Entries : e # freeSeq => table'[e] = table[e],
           table'[freeSeq].q # Nil, table'[freeSeq].next = Nil, table'[freeSeq].prev = Nil,
           freeSeq' = table[freeSeq].next, UNCHANGED <<freeEnd, ioSeq, ioEnd>>,
           disp'.pc = "link", disp'.ent = freeSeq, disp'.at = ioEnd
    PROVE  Lay(s, n, 0, Drop(f, k, 1), k - 1)'
<1>0. /\ n \in Nat /\ s \in [1..n -> Entries] /\ k \in Nat /\ k >= 1 /\ f \in [1..k -> Entries]
      /\ \A i \in 1..n : s[i] \in Entries
      /\ \A j \in 1..k : f[j] \in Entries
  BY LayFacts
<1>1. Listed(s, n) /\ Listed(f, k) /\ freeSeq = f[1] /\ freeEnd = f[k]
  BY DEF Lay, IoList, FreeList
<1>2. 1 \in 1..k /\ table[f[1]].next = IF 1 = k THEN Nil ELSE f[1 + 1]
  BY <1>0, <1>1 DEF Listed
<1>3. k >= 2 /\ freeSeq' = f[2] /\ 1 \in 0..k
  BY <1>0, <1>1, <1>2
<1> DEFINE u == Drop(f, k, 1)
<1>4. Dropped(u, f, k, 1)
  BY <1>0, <1>3, DropFacts
<1> HIDE DEF u
<1>5. Listed(u, k - 1)
  BY <1>1, <1>3, <1>4, DropListed
<1>6. /\ k - 1 \in Nat
      /\ \A j \in 1..(k - 1) : j + 1 \in 1..k /\ u[j] = f[j + 1]
      /\ \A j \in 1..k : j > 1 => j - 1 \in 1..(k - 1) /\ u[j - 1] = f[j]
  BY <1>4 DEF Dropped
<1>7. \A i \in 1..n : s[i] # freeSeq /\ table'[s[i]] = table[s[i]]
  BY <1>0, <1>1, <1>2 DEF Lay, Apart
<1>8. \A j \in 1..(k - 1) : u[j] # freeSeq /\ table'[u[j]] = table[u[j]]
  <2> SUFFICES ASSUME NEW j \in 1..(k - 1) PROVE u[j] # freeSeq /\ table'[u[j]] = table[u[j]]
    OBVIOUS
  <2>1. j + 1 \in 1..k /\ u[j] = f[j + 1] /\ j + 1 # 1
    BY <1>6
  <2>2. f[j + 1] # f[1]
    BY <1>1, <1>2, <2>1 DEF Listed, Injective
  <2> QED BY <1>0, <1>1, <2>1, <2>2
<1>9. Listed(s, n)' /\ Listed(u, k - 1)'
  BY <1>1, <1>5, <1>7, <1>8, ListedFrame
<1>10. IoList(s, n, 0)'
  BY <1>7, <1>9 DEF Lay, IoList
<1>11. FreeList(u, k - 1)'
  <2>1. 1 \in 1..(k - 1) /\ k \in 1..k /\ k > 1
    BY <1>0, <1>3
  <2>2. u[1] = f[2]
    BY <1>6, <2>1
  <2>3. u[k - 1] = f[k]
    BY <1>6, <2>1
  <2>4. \A j \in 1..(k - 1) : table'[u[j]].q = Nil
    BY <1>6, <1>8 DEF Lay, FreeList
  <2>5. ASSUME NEW j \in 1..((k - 1) - 1), table'[u[j]].done = TRUE PROVE table'[u[j + 1]].done = TRUE
    <3>1. j \in 1..(k - 1) /\ j + 1 \in 1..(k - 1)
      BY <1>0
    <3>2. u[j] = f[j + 1] /\ u[j + 1] = f[(j + 1) + 1]
      BY <1>6, <3>1
    <3>3. table[f[j + 1]].done = TRUE => table[f[(j + 1) + 1]].done = TRUE
      BY <3>1 DEF Lay, FreeList
    <3> QED BY <1>8, <2>5, <3>1, <3>2, <3>3
  <2>6. k - 1 >= 1
    BY <1>0, <1>3
  <2> QED BY <1>1, <1>3, <1>9, <2>2, <2>3, <2>4, <2>5, <2>6 DEF FreeList
<1>12. Split(s, n, Before(0))'
  <2>1. Before(0) = 0 /\ Before(0)' = 0
    BY DEF Before
  <2> QED BY <1>7, <2>1 DEF Lay, Split
<1>13. Apart(s, n, u, k - 1)'
  BY <1>6 DEF Lay, Apart
<1>14. DispAt(s, 0)'
  BY DEF DispAt
<1>15. Held(s, n, u, k - 1)'
  <2>1. ASSUME NEW e \in Entries PROVE In(e, s, n) \/ In(e, u, k - 1) \/ e = freeSeq
    <3>1. In(e, s, n) \/ In(e, f, k)
      BY DEF Lay, Held
    <3>2. ASSUME NEW j \in 1..k, f[j] = e PROVE In(e, u, k - 1) \/ e = freeSeq
      <4>1. CASE j = 1
        BY <1>1, <3>2, <4>1
      <4>2. CASE j # 1
        <5>1. j - 1 \in 1..(k - 1) /\ u[j - 1] = e
          BY <1>6, <3>2, <4>2
        <5> QED BY <5>1 DEF In
      <4> QED BY <4>1, <4>2
    <3> QED BY <3>1, <3>2 DEF In
  <2>2. ~In(freeSeq, s, n) /\ ~In(freeSeq, u, k - 1)
    BY <1>7, <1>8 DEF In
  <2>3. n > 0 => In(ioEnd, s, n)
    <3>1. n > 0 => n \in 1..n /\ ioEnd = s[n]
      BY <1>0 DEF Lay, IoList
    <3> QED BY <3>1 DEF In
  <2> QED BY <2>1, <2>2, <2>3 DEF Held, In
<1>16. Lay(s, n, 0, u, k - 1)'
  BY <1>10, <1>11, <1>12, <1>13, <1>14, <1>15 DEF Lay
<1> QED BY <1>16 DEF u

LEMMA EnqueueSound ==
    ASSUME Sound, Enqueue
    PROVE  Sound'
<1>1. Types'
  BY EnqueueTypes DEF Sound
<1>2. disp.pc = "alloc" /\ UNCHANGED <<freeEnd, ioSeq, ioEnd, wk>>
  BY DEF Enqueue
<1>3. CASE table[freeSeq].next = Nil
  <2>1. disp' = Queued /\ UNCHANGED <<freeSeq, table>>
    BY <1>3 DEF Enqueue
  <2>2. Queued.pc = "alloc" \/ (Queued.pc = "reclaim" /\ Queued.last = Nil)
    BY DEF Queued
  <2>3. Lists'
    BY <1>2, <2>1, <2>2, DispMoves DEF Sound, lists
  <2>4. WorkerAt'
    BY <1>2, <2>1 DEF Sound, WorkerAt, Used
  <2> QED BY <1>1, <2>3, <2>4 DEF Sound
<1>4. CASE table[freeSeq].next # Nil
  <2>1. /\ freeSeq' = table[freeSeq].next
        /\ disp' = [pc |-> "link", q |-> disp.q, id |-> disp.id, wbs |-> disp.wbs,
                    ent |-> freeSeq, at |-> ioEnd]
    BY <1>4 DEF Enqueue
  <2>2. PICK t \in now..MaxTime :
           table' = [table EXCEPT ![freeSeq] =
                      [q |-> disp.q, id |-> disp.id, target |-> t, done |-> FALSE,
                       copied |-> disp.wbs > 0, wb |-> disp.wbs > 0, next |-> Nil, prev |-> Nil]]
    BY <1>4 DEF Enqueue
  <2>3. freeSeq \in Entries /\ disp.q \in Sqs /\ table \in [Entries -> EntryOf]
    BY <1>2 DEF Sound, Types, TableTypes, ThreadTypes, DispTypes
  <2>4. \A e \in Entries : e # freeSeq => table'[e] = table[e]
    BY <2>2, <2>3
  <2>5. table'[freeSeq].q # Nil /\ table'[freeSeq].next = Nil /\ table'[freeSeq].prev = Nil
    BY <2>2, <2>3, EntryFacts
  <2>6. disp'.pc = "link" /\ disp'.ent = freeSeq /\ disp'.at = ioEnd
    BY <2>1
  <2>7. PICK s, n, m, f, k : Lay(s, n, m, f, k)
    BY DEF Lists, Sound
  <2>8. m = 0
    BY <1>2, <2>7 DEF Lay, DispAt
  <2>9. Lay(s, n, 0, f, k)
    BY <2>7, <2>8
  <2>10. Lay(s, n, 0, Drop(f, k, 1), k - 1)'
    BY <1>2, <1>4, <2>1, <2>4, <2>5, <2>6, <2>9, FillLists DEF Sound
  <2>11. Lists'
    BY <2>10 DEF Lists
  <2>12. WorkerAt'
    <3>1. table[freeSeq].q = Nil
      BY <2>9, LayFacts DEF Lay, FreeList
    <3>2. wk.cur \in Links
      BY DEF Sound, Types, ThreadTypes
    <3>3. CASE wk.cur = freeSeq
      <4>1. wk.pc # "mark"
        BY <3>1, <3>3 DEF Sound, WorkerAt
      <4> QED BY <1>2, <2>5, <3>3, <4>1 DEF WorkerAt, Used
    <3>4. CASE wk.cur # freeSeq
      <4>1. wk.cur # Nil => table'[wk.cur] = table[wk.cur]
        BY <2>4, <3>2, <3>4 DEF Links
      <4>2. wk.pc = "mark" => wk.cur # Nil
        BY DEF Sound, Types, ThreadTypes
      <4> QED BY <1>2, <4>1, <4>2 DEF WorkerAt, Used, Sound
    <3> QED BY <3>3, <3>4
  <2> QED BY <1>1, <2>11, <2>12 DEF Sound
<1> QED BY <1>3, <1>4

(* A list with e after its first p entries. *)
Insert(s, n, p, e) == [i \in 1..(n + 1) |-> IF i <= p THEN s[i] ELSE IF i = p + 1 THEN e ELSE s[i - 1]]

Inserted(u, s, n, p, e) ==
    /\ u \in [1..(n + 1) -> Entries] /\ u[p + 1] = e
    /\ \A i \in 1..p : u[i] = s[i]
    /\ \A i \in (p + 1)..n : u[i + 1] = s[i]
    /\ Injective(u, n + 1)

LEMMA InsertFacts ==
    ASSUME NEW n \in Nat, NEW s \in [1..n -> Entries], NEW p \in 0..n, NEW e \in Entries,
           Injective(s, n), ~In(e, s, n)
    PROVE  Inserted(Insert(s, n, p, e), s, n, p, e)
<1> DEFINE u == Insert(s, n, p, e)
<1>1. u = [i \in 1..(n + 1) |-> IF i <= p THEN s[i] ELSE IF i = p + 1 THEN e ELSE s[i - 1]]
  BY DEF Insert
<1> HIDE DEF u
<1>2. \A i \in 1..(n + 1) : u[i] = IF i <= p THEN s[i] ELSE IF i = p + 1 THEN e ELSE s[i - 1]
  BY <1>1
<1>3. ASSUME NEW i \in 1..(n + 1)
      PROVE  /\ i <= p => i \in 1..n
             /\ i > p + 1 => i - 1 \in 1..n
  OBVIOUS
<1>4. \A i \in 1..(n + 1) : u[i] \in Entries
  BY <1>2, <1>3
<1>5. u \in [1..(n + 1) -> Entries]
  BY <1>1, <1>4
<1>6. p + 1 \in 1..(n + 1) /\ u[p + 1] = e
  BY <1>2
<1>7. \A i \in 1..p : u[i] = s[i]
  BY <1>2
<1>8. ASSUME NEW i \in (p + 1)..n PROVE u[i + 1] = s[i]
  <2>1. i + 1 \in 1..(n + 1) /\ ~(i + 1 <= p) /\ i + 1 # p + 1 /\ (i + 1) - 1 = i
    OBVIOUS
  <2>2. u[i + 1] = s[(i + 1) - 1]
    BY <1>2, <2>1
  <2> QED BY <2>1, <2>2
<1>9. ASSUME NEW i \in 1..(n + 1), NEW j \in 1..(n + 1), u[i] = u[j] PROVE i = j
  <2>1. \A x \in 1..n : s[x] # e
    BY DEF In
  <2>2. \A x, y \in 1..n : s[x] = s[y] => x = y
    BY DEF Injective
  <2>3. CASE i <= p
    <3>1. i \in 1..n /\ u[i] = s[i]
      BY <1>2, <2>3
    <3>2. CASE j <= p
      <4>1. j \in 1..n /\ u[j] = s[j]
        BY <1>2, <3>2
      <4> QED BY <1>9, <2>2, <3>1, <4>1
    <3>3. CASE j = p + 1
      BY <1>6, <1>9, <2>1, <3>1, <3>3
    <3>4. CASE j > p + 1
      <4>1. j - 1 \in 1..n /\ u[j] = s[j - 1]
        BY <1>2, <3>4
      <4>2. i = j - 1
        BY <1>9, <2>2, <3>1, <4>1
      <4> QED BY <2>3, <3>4, <4>2
    <3> QED BY <3>2, <3>3, <3>4
  <2>4. CASE i = p + 1
    <3>2. CASE j <= p
      <4>1. j \in 1..n /\ u[j] = s[j]
        BY <1>2, <3>2
      <4> QED BY <1>6, <1>9, <2>1, <2>4, <4>1
    <3>3. CASE j > p + 1
      <4>1. j - 1 \in 1..n /\ u[j] = s[j - 1]
        BY <1>2, <3>3
      <4> QED BY <1>6, <1>9, <2>1, <2>4, <4>1
    <3> QED BY <2>4, <3>2, <3>3
  <2>5. CASE i > p + 1
    <3>1. i - 1 \in 1..n /\ u[i] = s[i - 1]
      BY <1>2, <2>5
    <3>2. CASE j <= p
      <4>1. j \in 1..n /\ u[j] = s[j]
        BY <1>2, <3>2
      <4>2. i - 1 = j
        BY <1>9, <2>2, <3>1, <4>1
      <4> QED BY <2>5, <3>2, <4>2
    <3>3. CASE j = p + 1
      BY <1>6, <1>9, <2>1, <3>1, <3>3
    <3>4. CASE j > p + 1
      <4>1. j - 1 \in 1..n /\ u[j] = s[j - 1]
        BY <1>2, <3>4
      <4>2. i - 1 = j - 1
        BY <1>9, <2>2, <3>1, <4>1
      <4> QED BY <4>2
    <3> QED BY <3>2, <3>3, <3>4
  <2> QED BY <2>3, <2>4, <2>5
<1>10. Inserted(u, s, n, p, e)
  BY <1>5, <1>6, <1>7, <1>8, <1>9 DEF Inserted, Injective
<1> QED BY <1>10 DEF u

(* The links after Link, place by place. *)
LEMMA InsertLinks ==
    ASSUME NEW s, NEW n, Listed(s, n), Split(s, n, 0), NEW p \in 0..n, NEW e \in Entries,
           ~In(e, s, n), NEW lo, NEW hi,
           lo = (IF p = 0 THEN Nil ELSE s[p]), hi = (IF p = n THEN Nil ELSE s[p + 1]),
           Between(e, lo, hi), NEW u, Inserted(u, s, n, p, e)
    PROVE  /\ Listed(u, n + 1)'
           /\ \A j \in 1..(n + 1) : table'[u[j]].prev = IF j = 1 THEN Nil ELSE u[j - 1]
<1>0. n \in Nat /\ s \in [1..n -> Entries] /\ n + 1 \in Nat /\ \A i \in 1..n : s[i] \in Entries /\ s[i] # Nil
  BY EntryFacts DEF Listed
<1>1. \A i \in 1..n : s[i] # e
  BY DEF In
<1>2. \A i, j \in 1..n : s[i] = s[j] => i = j
  BY DEF Listed, Injective
<1>3. \A i \in 1..n : table[s[i]].next = IF i = n THEN Nil ELSE s[i + 1]
  BY DEF Listed
<1>4. \A i \in 1..n : table[s[i]].prev = IF i = 1 THEN Nil ELSE s[i - 1]
  BY DEF Split
<1>5. u \in [1..(n + 1) -> Entries] /\ u[p + 1] = e /\ Injective(u, n + 1)
  BY DEF Inserted
<1>6. \A i \in 1..p : u[i] = s[i]
  BY DEF Inserted
<1>7. \A i \in (p + 1)..n : u[i + 1] = s[i]
  BY DEF Inserted
<1>8. \A x \in Entries :
         /\ table'[x].next = IF x = lo THEN e ELSE IF x = e THEN hi ELSE table[x].next
         /\ table'[x].prev = IF x = e THEN lo ELSE IF x = hi THEN e ELSE table[x].prev
  BY DEF Between
<1>9. e # lo /\ e # Nil /\ e # hi
  <2>1. p # 0 => p \in 1..n
    BY <1>0
  <2>2. p # n => p + 1 \in 1..n
    BY <1>0
  <2> QED BY <1>1, <2>1, <2>2, EntryFacts
<1>10. ASSUME NEW j \in 1..(n + 1)
       PROVE  /\ table'[u[j]].next = IF j = n + 1 THEN Nil ELSE u[j + 1]
              /\ table'[u[j]].prev = IF j = 1 THEN Nil ELSE u[j - 1]
  <2>1. CASE j <= p
    <3>1. j \in 1..n /\ j \in 1..p /\ p \in 1..n /\ u[j] = s[j] /\ lo = s[p] /\ j # n + 1
      BY <1>0, <1>6, <2>1
    <3>2. s[j] # hi
      <4>1. p # n => p + 1 \in 1..n /\ p + 1 # j
        BY <1>0, <2>1
      <4> QED BY <1>0, <1>2, <3>1, <4>1
    <3>3. table'[u[j]].prev = IF j = 1 THEN Nil ELSE u[j - 1]
      <4>1. table'[u[j]].prev = table[s[j]].prev
        BY <1>0, <1>1, <1>8, <3>1, <3>2
      <4>2. j # 1 => j - 1 \in 1..p /\ u[j - 1] = s[j - 1]
        BY <1>0, <1>6, <3>1
      <4> QED BY <1>4, <3>1, <4>1, <4>2
    <3>4. CASE j = p
      <4>1. table'[u[j]].next = e
        BY <1>0, <1>8, <3>1, <3>4
      <4> QED BY <1>5, <3>1, <3>3, <3>4, <4>1
    <3>5. CASE j # p
      <4>1. s[j] # lo /\ j # n /\ j + 1 \in 1..p
        BY <1>0, <1>2, <2>1, <3>1, <3>5
      <4>2. table'[u[j]].next = table[s[j]].next
        BY <1>0, <1>1, <1>8, <3>1, <4>1
      <4>3. u[j + 1] = s[j + 1]
        BY <1>6, <4>1
      <4> QED BY <1>3, <3>1, <3>3, <4>1, <4>2, <4>3
    <3> QED BY <3>4, <3>5
  <2>2. CASE j = p + 1
    <3>1. u[j] = e
      BY <1>5, <2>2
    <3>2. table'[e].next = hi /\ table'[e].prev = lo
      BY <1>8, <1>9
    <3>3. p # n => p + 1 \in (p + 1)..n /\ u[(p + 1) + 1] = s[p + 1]
      BY <1>0, <1>7
    <3>4. p # 0 => p \in 1..p /\ u[p] = s[p]
      BY <1>0, <1>6
    <3>5. table'[u[j]].next = IF j = n + 1 THEN Nil ELSE u[j + 1]
      BY <1>0, <2>2, <3>1, <3>2, <3>3
    <3>6. j - 1 = p /\ (j = 1 <=> p = 0)
      BY <1>0, <2>2
    <3>7. table'[u[j]].prev = IF j = 1 THEN Nil ELSE u[j - 1]
      BY <3>1, <3>2, <3>4, <3>6
    <3> QED BY <3>5, <3>7
  <2>3. CASE j > p + 1
    <3>1. j - 1 \in (p + 1)..n /\ j - 1 \in 1..n /\ (j - 1) + 1 = j /\ j # 1 /\ p # n
      BY <1>0, <2>3
    <3>2. u[j] = s[j - 1] /\ hi = s[p + 1] /\ p + 1 \in 1..n
      BY <1>0, <1>7, <3>1
    <3>3. s[j - 1] # lo
      <4>1. p # 0 => p \in 1..n /\ p # j - 1
        BY <1>0, <2>3
      <4> QED BY <1>0, <1>2, <3>1, <4>1
    <3>4. table'[u[j]].next = IF j = n + 1 THEN Nil ELSE u[j + 1]
      <4>1. table'[u[j]].next = table[s[j - 1]].next
        BY <1>0, <1>1, <1>8, <3>1, <3>2, <3>3
      <4>2. table[s[j - 1]].next = IF j - 1 = n THEN Nil ELSE s[(j - 1) + 1]
        BY <1>3, <3>1
      <4>3. j # n + 1 => j \in (p + 1)..n /\ u[j + 1] = s[j]
        BY <1>0, <1>7, <3>1
      <4>4. j - 1 = n <=> j = n + 1
        BY <1>0
      <4> QED BY <3>1, <4>1, <4>2, <4>3, <4>4
    <3>5. table'[u[j]].prev = u[j - 1]
      <4>1. CASE j - 1 = p + 1
        <5>1. s[j - 1] = hi /\ s[j - 1] # e
          BY <1>1, <3>1, <3>2, <4>1
        <5> QED BY <1>0, <1>5, <1>8, <3>1, <3>2, <4>1, <5>1
      <4>2. CASE j - 1 # p + 1
        <5>1. s[j - 1] # hi
          BY <1>2, <3>1, <3>2, <4>2
        <5>2. table'[u[j]].prev = table[s[j - 1]].prev
          BY <1>0, <1>1, <1>8, <3>1, <3>2, <5>1
        <5>3. j - 1 # 1 /\ j - 2 \in (p + 1)..n /\ (j - 2) + 1 = j - 1 /\ (j - 1) - 1 = j - 2
          BY <1>0, <3>1, <4>2
        <5>4. u[j - 1] = s[j - 2]
          BY <1>7, <5>3
        <5>5. table[s[j - 1]].prev = s[(j - 1) - 1]
          BY <1>4, <3>1, <5>3
        <5> QED BY <5>2, <5>3, <5>4, <5>5
      <4> QED BY <4>1, <4>2
    <3> QED BY <3>1, <3>4, <3>5
  <2> QED BY <2>1, <2>2, <2>3
<1> QED BY <1>0, <1>5, <1>10 DEF Listed

(* Where the search has stopped. *)
LEMMA LinkPlace ==
    ASSUME Types, NEW s, NEW n, NEW f, NEW k, Lay(s, n, 0, f, k), disp.pc = "link"
    PROVE  /\ disp.ent \in Entries /\ table[disp.ent].next = Nil /\ table[disp.ent].prev = Nil
           /\ ioSeq # disp.ent /\ (ioSeq # Nil => disp.at # disp.ent)
           /\ ioSeq # Nil /\ disp.at # Nil =>
                table[disp.at].next # disp.ent /\ table[disp.at].next # disp.at
           /\ \E p \in 0..n : /\ LinkLo = IF p = 0 THEN Nil ELSE s[p]
                              /\ LinkHi = IF p = n THEN Nil ELSE s[p + 1]
<1> DEFINE e == disp.ent
           a == disp.at
<1>0. /\ n \in Nat /\ s \in [1..n -> Entries]
      /\ \A i \in 1..n : s[i] \in Entries /\ s[i] # Nil
  BY LayFacts, EntryFacts
<1>1. e \in Entries /\ e # Nil /\ a \in Links
  BY EntryFacts DEF Types, ThreadTypes, DispTypes
<1>2. table[e].next = Nil /\ table[e].prev = Nil /\ ~In(e, s, n)
      /\ (n > 0 => a = Nil \/ In(a, s, n))
  BY DEF Lay, Held
<1>3. \A i \in 1..n : s[i] # e
  BY <1>2 DEF In
<1>4. ioSeq = IF 0 < n THEN s[0 + 1] ELSE Nil
  BY DEF Lay, Split, Before
<1>5. \A i \in 1..n : table[s[i]].next = IF i = n THEN Nil ELSE s[i + 1]
  BY DEF Lay, IoList, Listed
<1>6. \A i, j \in 1..n : s[i] = s[j] => i = j
  BY DEF Lay, IoList, Listed, Injective
<1>7. CASE n = 0
  <2>1. ioSeq = Nil
    BY <1>4, <1>7
  <2>2. LinkLo = Nil /\ LinkHi = Nil
    BY <2>1 DEF LinkLo, LinkHi
  <2>3. 0 \in 0..n
    BY <1>0
  <2> QED BY <1>1, <1>2, <1>7, <2>1, <2>2, <2>3
<1>8. CASE n # 0 /\ a = Nil
  <2>1. ioSeq = s[1] /\ 1 \in 1..n /\ ioSeq # Nil /\ ioSeq # e
    BY <1>0, <1>3, <1>4, <1>8
  <2>2. LinkLo = Nil /\ LinkHi = s[1]
    BY <1>8, <2>1 DEF LinkLo, LinkHi
  <2>3. 0 \in 0..n /\ s[0 + 1] = s[1]
    BY <1>0
  <2>4. \E p \in 0..n : /\ LinkLo = IF p = 0 THEN Nil ELSE s[p]
                        /\ LinkHi = IF p = n THEN Nil ELSE s[p + 1]
    BY <1>8, <2>2, <2>3
  <2> QED BY <1>1, <1>2, <1>8, <2>1, <2>4
<1>9. CASE n # 0 /\ a # Nil
  <2>1. ioSeq = s[1] /\ 1 \in 1..n /\ ioSeq # Nil /\ ioSeq # e
    BY <1>0, <1>3, <1>4, <1>9
  <2>2. PICK i \in 1..n : s[i] = a
    BY <1>0, <1>2, <1>9 DEF In
  <2>3. i \in 0..n /\ i # 0 /\ (i # n => i + 1 \in 1..n /\ i + 1 # i)
    BY <1>0
  <2>4. table[a].next = IF i = n THEN Nil ELSE s[i + 1]
    BY <1>5, <2>2
  <2>5. a # e
    BY <1>3, <2>2
  <2>6. table[a].next # e
    BY <1>1, <1>3, <2>3, <2>4
  <2>7. table[a].next # a
    BY <1>6, <1>9, <2>2, <2>3, <2>4
  <2>8. LinkLo = a /\ LinkHi = table[a].next
    BY <1>9, <2>1 DEF LinkLo, LinkHi
  <2>9. LinkLo = (IF i = 0 THEN Nil ELSE s[i]) /\ LinkHi = (IF i = n THEN Nil ELSE s[i + 1])
    BY <2>2, <2>3, <2>4, <2>8
  <2>10. \E p \in 0..n : /\ LinkLo = IF p = 0 THEN Nil ELSE s[p]
                         /\ LinkHi = IF p = n THEN Nil ELSE s[p + 1]
    BY <2>3, <2>9
  <2> QED BY <1>1, <1>2, <2>1, <2>5, <2>6, <2>7, <2>10
<1> QED BY <1>7, <1>8, <1>9

LEMMA LinkLists ==
    ASSUME Types, NEW s, NEW n, NEW f, NEW k, Lay(s, n, 0, f, k), disp.pc = "link", Link
    PROVE  Types' /\ Lists' /\ Keeps(table', table)
<1>20. PICK e : e = disp.ent
  OBVIOUS
<1>0. /\ n \in Nat /\ s \in [1..n -> Entries] /\ k \in Nat /\ f \in [1..k -> Entries] /\ n + 1 \in Nat
      /\ \A i \in 1..n : s[i] \in Entries /\ s[i] # Nil
      /\ \A j \in 1..k : f[j] \in Entries
  BY LayFacts, EntryFacts
<1>1. e \in Entries /\ e # Nil /\ ~In(e, s, n) /\ ~In(e, f, k) /\ table[e].q # Nil
  BY <1>20, LinkPlace, EntryFacts DEF Lay, Held
<1>2. PICK p \in 0..n : /\ LinkLo = IF p = 0 THEN Nil ELSE s[p]
                        /\ LinkHi = IF p = n THEN Nil ELSE s[p + 1]
  BY LinkPlace
<1>3. /\ Between(e, LinkLo, LinkHi)
      /\ ioSeq' = (IF LinkLo = Nil THEN e ELSE ioSeq)
      /\ ioEnd' = (IF LinkHi = Nil THEN e ELSE ioEnd)
      /\ disp' = Queued
      /\ UNCHANGED <<queues, buffer, freeSeq, freeEnd, procNsecs, now, wk, cq, host, hist>>
  BY <1>20, LinkPlace, LinkStep
<1>4. Keeps(table', table) /\ table' \in Tables
  BY <1>3 DEF Between
<1>5. Types'
  <2>1. Queued \in [pc : {"alloc"}, q : Sqs, id : Jobs, wbs : Nat] \cup [pc : {"reclaim"}, last : {Nil}]
    BY QueuedType DEF Types
  <2>2. disp' \in DispTypes
    BY <1>3, <2>1 DEF DispTypes, Links
  <2>3. ioSeq' \in Links /\ ioEnd' \in Links
    BY <1>1, <1>3 DEF Types, TableTypes, Links
  <2>4. \A x \in Entries : table'[x].q # Nil => table'[x].id \in Jobs
    BY <1>4 DEF Keeps, Types, TableTypes
  <2>5. TableTypes'
    BY <1>3, <1>4, <2>3, <2>4 DEF Types, TableTypes, Tables
  <2> QED BY <1>3, <2>2, <2>5
        DEF Types, QueueTypes, BufferTypes, ThreadTypes, RingTypes, queues, buffer, hist,
            Completions, Slots, QSize
<1>6. Injective(s, n) /\ Listed(s, n) /\ Split(s, n, 0)
  BY DEF Lay, IoList, Listed, Before
<1>7. PICK u : Inserted(u, s, n, p, e)
  BY <1>0, <1>1, <1>6, InsertFacts
<1>8. /\ Listed(u, n + 1)'
      /\ \A j \in 1..(n + 1) : table'[u[j]].prev = IF j = 1 THEN Nil ELSE u[j - 1]
  <2>1. PICK lo, hi : lo = LinkLo /\ hi = LinkHi
    OBVIOUS
  <2>2. lo = (IF p = 0 THEN Nil ELSE s[p]) /\ hi = (IF p = n THEN Nil ELSE s[p + 1])
        /\ Between(e, lo, hi)
    BY <1>2, <1>3, <2>1
  <2> QED BY <1>1, <1>6, <1>7, <2>2, InsertLinks
<1>9. u[p + 1] = e /\ (\A i \in 1..p : u[i] = s[i]) /\ (\A i \in (p + 1)..n : u[i + 1] = s[i])
  BY <1>7 DEF Inserted
<1>10. ASSUME NEW j \in 1..(n + 1)
       PROVE  u[j] = e \/ \E i \in 1..n : u[j] = s[i]
  <2>1. CASE j <= p
    <3>1. j \in 1..p /\ j \in 1..n
      BY <1>0, <2>1
    <3> QED BY <1>9, <3>1
  <2>2. CASE j = p + 1
    BY <1>9, <2>2
  <2>3. CASE j > p + 1
    <3>1. j - 1 \in (p + 1)..n /\ j - 1 \in 1..n /\ (j - 1) + 1 = j
      BY <1>0, <2>3
    <3>2. u[j] = s[j - 1]
      BY <1>9, <3>1
    <3> QED BY <3>1, <3>2
  <2> QED BY <2>1, <2>2, <2>3
<1>11. In(e, u, n + 1) /\ \A i \in 1..n : In(s[i], u, n + 1)
  <2>1. p + 1 \in 1..(n + 1)
    BY <1>0
  <2>2. ASSUME NEW i \in 1..n PROVE In(s[i], u, n + 1)
    <3>1. CASE i <= p
      <4>1. i \in 1..p /\ i \in 1..(n + 1)
        BY <1>0, <3>1
      <4> QED BY <1>9, <4>1 DEF In
    <3>2. CASE i > p
      <4>1. i \in (p + 1)..n /\ i + 1 \in 1..(n + 1)
        BY <1>0, <3>2
      <4> QED BY <1>9, <4>1 DEF In
    <3> QED BY <1>0, <3>1, <3>2
  <2> QED BY <1>9, <2>1, <2>2 DEF In
<1>12. IoList(u, n + 1, 0)'
  <2>1. \A j \in 1..(n + 1) : table'[u[j]].q # Nil
    <3> SUFFICES ASSUME NEW j \in 1..(n + 1) PROVE table'[u[j]].q # Nil
      OBVIOUS
    <3>1. table'[e].q # Nil
      BY <1>1, <1>4 DEF Keeps
    <3>2. \A i \in 1..n : table'[s[i]].q # Nil
      BY <1>0, <1>4 DEF Keeps, Lay, IoList
    <3> QED BY <1>10, <3>1, <3>2
  <2>2. ioEnd' = u[n + 1]
    <3>1. CASE p = n
      BY <1>2, <1>3, <1>9, <3>1
    <3>2. CASE p # n
      <4>1. p + 1 \in 1..n /\ n \in (p + 1)..n /\ n > 0
        BY <1>0, <3>2
      <4>2. LinkHi # Nil
        BY <1>0, <1>2, <3>2, <4>1
      <4>3. ioEnd = s[n]
        BY <4>1 DEF Lay, IoList
      <4> QED BY <1>3, <1>9, <4>1, <4>2, <4>3
    <3> QED BY <3>1, <3>2
  <2>3. 0 \in 0..(n + 1) /\ \A j \in 1..(n + 1) : ~(j <= 0)
    BY <1>0
  <2> QED BY <1>8, <2>1, <2>2, <2>3 DEF IoList
<1>13. \A j \in 1..k : /\ table'[f[j]].next = table[f[j]].next /\ table'[f[j]].q = table[f[j]].q
                       /\ table'[f[j]].done = table[f[j]].done
  <2> SUFFICES ASSUME NEW j \in 1..k
               PROVE  /\ table'[f[j]].next = table[f[j]].next /\ table'[f[j]].q = table[f[j]].q
                      /\ table'[f[j]].done = table[f[j]].done
    OBVIOUS
  <2>1. f[j] \in Entries /\ f[j] # e /\ f[j] # Nil
    BY <1>0, <1>1, EntryFacts DEF In
  <2>2. f[j] # LinkLo
    <3>1. p # 0 => p \in 1..n
      BY <1>0
    <3> QED BY <1>2, <2>1, <3>1 DEF Lay, Apart
  <2>3. table'[f[j]].next = table[f[j]].next
    BY <1>3, <2>1, <2>2 DEF Between
  <2> QED BY <1>4, <2>1, <2>3 DEF Keeps
<1>14. FreeList(f, k)'
  <2>1. Listed(f, k)'
    BY <1>13, ListedFrame DEF Lay, FreeList
  <2>2. \A j \in 1..(k - 1) : j \in 1..k /\ j + 1 \in 1..k
    BY <1>0
  <2>3. UNCHANGED <<freeSeq, freeEnd>>
    BY <1>3
  <2> QED BY <1>13, <2>1, <2>2, <2>3 DEF Lay, FreeList
<1>15. disp'.pc = "alloc" \/ (disp'.pc = "reclaim" /\ disp'.last = Nil)
  BY <1>3 DEF Queued
<1>16. Split(u, n + 1, Before(0))'
  <2>1. Before(0)' = 0
    BY DEF Before
  <2>2. ioSeq' = u[1]
    <3>1. CASE p = 0
      BY <1>2, <1>3, <1>9, <3>1
    <3>2. CASE p # 0
      <4>1. p \in 1..n /\ 1 \in 1..p /\ 0 < n
        BY <1>0, <3>2
      <4>2. LinkLo # Nil
        BY <1>0, <1>2, <3>2, <4>1
      <4>3. ioSeq = s[1]
        BY <1>6, <4>1 DEF Split
      <4> QED BY <1>3, <1>9, <4>1, <4>2, <4>3
    <3> QED BY <3>1, <3>2
  <2>3. 0 < n + 1
    BY <1>0
  <2> QED BY <1>8, <2>1, <2>2, <2>3 DEF Split
<1>17. Apart(u, n + 1, f, k)'
  BY <1>1, <1>10 DEF Lay, Apart, In
<1>18. Held(u, n + 1, f, k)'
  <2>1. ASSUME NEW x \in Entries PROVE In(x, u, n + 1) \/ In(x, f, k)
    <3>1. In(x, s, n) \/ In(x, f, k) \/ x = e
      BY <1>20 DEF Lay, Held
    <3> QED BY <1>11, <3>1 DEF In
  <2> QED BY <1>15, <2>1 DEF Held, In
<1>19. DispAt(u, 0)'
  BY <1>15 DEF DispAt
<1>21. Lay(u, n + 1, 0, f, k)'
  BY <1>12, <1>14, <1>16, <1>17, <1>18, <1>19 DEF Lay
<1> QED BY <1>4, <1>5, <1>21 DEF Lists

LEMMA LinkSound ==
    ASSUME Sound, Link
    PROVE  Sound' /\ Keeps(table', table)
<1>1. disp.pc = "link" /\ wk' = wk
  BY DEF Link
<1>2. PICK s, n, m, f, k : Lay(s, n, m, f, k)
  BY DEF Lists, Sound
<1>3. m = 0
  BY <1>1, <1>2 DEF Lay, DispAt
<1>4. Types' /\ Lists' /\ Keeps(table', table)
  BY <1>1, <1>2, <1>3, LinkLists DEF Sound
<1>5. WorkerAt'
  <2>1. wk.cur \in Links /\ (wk.pc = "mark" => wk.cur # Nil)
    BY DEF Sound, Types, ThreadTypes
  <2> QED BY <1>1, <1>4, <2>1 DEF WorkerAt, Used, Keeps, Sound, Links
<1> QED BY <1>4, <1>5 DEF Sound

(* What Scan clears. *)
Wipe(t, a) == [t EXCEPT ![a].q = Nil, ![a].id = 0, ![a].target = 0, ![a].wb = FALSE]

WipedOnly(u, t, a) ==
    \A e \in Entries :
        /\ u[e].done = t[e].done /\ u[e].copied = t[e].copied
        /\ u[e].next = t[e].next /\ u[e].prev = t[e].prev
        /\ e = a => u[e].q = Nil /\ u[e].wb = FALSE
        /\ e # a => u[e] = t[e]

LEMMA WipeFacts ==
    ASSUME NEW t \in Tables, NEW a \in Entries
    PROVE  Wipe(t, a) \in Tables /\ WipedOnly(Wipe(t, a), t, a)
<1> DEFINE x1 == [t[a] EXCEPT !.q = Nil]
           x2 == [x1 EXCEPT !.id = 0]
           x3 == [x2 EXCEPT !.target = 0]
           x == [x3 EXCEPT !.wb = FALSE]
<1>1. t[a] \in EntryOf
  BY DEF Tables
<1>2. /\ x1 \in EntryOf /\ x1.q = Nil /\ x1.wb = t[a].wb /\ x1.next = t[a].next /\ x1.prev = t[a].prev
      /\ x1.done = t[a].done /\ x1.copied = t[a].copied
  BY <1>1 DEF EntryOf
<1>3. Wipe(t, a) = [t EXCEPT ![a] = x]
  BY <1>1 DEF Wipe, Tables
<1> HIDE DEF x1
<1>4. /\ x2 \in EntryOf /\ x2.q = Nil /\ x2.next = t[a].next /\ x2.prev = t[a].prev
      /\ x2.done = t[a].done /\ x2.copied = t[a].copied
  BY <1>2, ConstFacts DEF EntryOf
<1> HIDE DEF x2
<1>5. /\ x3 \in EntryOf /\ x3.q = Nil /\ x3.next = t[a].next /\ x3.prev = t[a].prev
      /\ x3.done = t[a].done /\ x3.copied = t[a].copied
  BY <1>4, ConstFacts DEF EntryOf
<1> HIDE DEF x3
<1>6. /\ x \in EntryOf /\ x.q = Nil /\ x.next = t[a].next /\ x.prev = t[a].prev /\ x.wb = FALSE
      /\ x.done = t[a].done /\ x.copied = t[a].copied
  BY <1>5 DEF EntryOf
<1> HIDE DEF x
<1>7. /\ [t EXCEPT ![a] = x] \in Tables
      /\ \A e \in Entries : [t EXCEPT ![a] = x][e] = IF e = a THEN x ELSE t[e]
  BY <1>6 DEF Tables
<1> QED BY <1>3, <1>6, <1>7 DEF WipedOnly

(* The entry looked at next is the one after those that are taken back. *)
LEMMA CandidateIs ==
    ASSUME Types, NEW s, NEW n, NEW m, NEW f, NEW k, Lay(s, n, m, f, k), disp.pc = "reclaim"
    PROVE  Candidate = IF m = n THEN Nil ELSE s[m + 1]
<1>1. n \in Nat /\ m \in 0..n /\ \A i \in 1..n : s[i] # Nil
  BY LayFacts, EntryFacts
<1>2. ioSeq = IF 0 < n THEN s[0 + 1] ELSE Nil
  BY DEF Lay, Split, Before
<1>3. disp.last = IF m = 0 THEN Nil ELSE s[m]
  BY DEF Lay, DispAt
<1>4. CASE m = 0
  BY <1>1, <1>2, <1>3, <1>4 DEF Candidate
<1>5. CASE m # 0
  <2>1. m \in 1..n
    BY <1>1, <1>5
  <2>2. table[s[m]].next = IF m = n THEN Nil ELSE s[m + 1]
    BY <2>1 DEF Lay, IoList, Listed
  <2> QED BY <1>1, <1>3, <1>5, <2>1, <2>2 DEF Candidate
<1> QED BY <1>4, <1>5

LEMMA ScanSound ==
    ASSUME Sound, Scan
    PROVE  Sound' /\ \E c \in Entries : c = Candidate /\ WipedOnly(table', table, c)
<1>1. PICK s, n, m, f, k : Lay(s, n, m, f, k)
  BY DEF Lists, Sound
<1>2. PICK c : c = Candidate
  OBVIOUS
<1>3. /\ disp.pc = "reclaim" /\ c # Nil /\ Reclaimable(c)
      /\ disp' = [disp EXCEPT !.last = c] /\ table' = Wipe(table, c)
      /\ UNCHANGED <<queues, buffer, lists, procNsecs, now, wk, cq, host, hist>>
  BY <1>2 DEF Scan, TakesBack, Wipe
<1>4. /\ n \in Nat /\ m \in 0..n /\ m \in Nat /\ k \in Nat
      /\ \A i \in 1..n : s[i] \in Entries
      /\ \A j \in 1..k : f[j] \in Entries
  BY <1>1, LayFacts
<1>5. c = IF m = n THEN Nil ELSE s[m + 1]
  BY <1>1, <1>2, <1>3, CandidateIs DEF Sound
<1>6. m + 1 \in 1..n /\ c = s[m + 1] /\ c \in Entries /\ table \in Tables
  BY <1>3, <1>4, <1>5 DEF Sound, Types, TableTypes, Tables
<1>7. table' \in Tables /\ WipedOnly(table', table, c)
  <2> DEFINE t == Wipe(table, c)
  <2>1. c \in Entries /\ table \in Tables
    BY <1>6
  <2>2. t \in Tables /\ WipedOnly(t, table, c)
    BY <2>1, WipeFacts
  <2>3. table' = t
    BY <1>3
  <2> HIDE DEF t
  <2> QED BY <2>2, <2>3
<1>8. table[c].done = TRUE
  <2>1. table[c].done \in BOOLEAN /\ table[c].done
    BY <1>3, <1>6, FieldFacts DEF Reclaimable, Sound, Types
  <2> QED BY <2>1
<1>9. disp'.pc = "reclaim" /\ disp'.last = c /\ disp' \in DispTypes
  <2>1. disp \in [pc : {"reclaim"}, last : Links]
    BY <1>3 DEF Sound, Types, ThreadTypes, DispTypes
  <2>2. disp' \in [pc : {"reclaim"}, last : Links] /\ disp'.last = c
    BY <1>3, <1>6, <2>1 DEF Links
  <2> QED BY <2>2 DEF DispTypes
<1>10. Types'
  <2>1. \A e \in Entries : table'[e].q # Nil => table'[e].id \in Jobs
    BY <1>7 DEF WipedOnly, Sound, Types, TableTypes
  <2>2. TableTypes'
    BY <1>3, <1>7, <2>1 DEF Sound, Types, TableTypes, Tables, lists
  <2> QED BY <1>3, <1>9, <2>2
        DEF Sound, Types, QueueTypes, BufferTypes, ThreadTypes, RingTypes, queues, buffer, hist,
            Completions, Slots, QSize
<1>11. UNCHANGED <<freeSeq, freeEnd, ioSeq, ioEnd>>
  BY <1>3 DEF lists
<1>12. \A i \in 1..n : /\ table'[s[i]].next = table[s[i]].next /\ table'[s[i]].prev = table[s[i]].prev
                       /\ table'[s[i]].done = table[s[i]].done
                       /\ (table'[s[i]].q = Nil) <=> (i <= m + 1)
  <2> SUFFICES ASSUME NEW i \in 1..n
               PROVE  /\ table'[s[i]].next = table[s[i]].next /\ table'[s[i]].prev = table[s[i]].prev
                      /\ table'[s[i]].done = table[s[i]].done
                      /\ (table'[s[i]].q = Nil) <=> (i <= m + 1)
    OBVIOUS
  <2>1. s[i] \in Entries
    BY <1>4
  <2>2. (table[s[i]].q = Nil) <=> (i <= m)
    BY <1>1 DEF Lay, IoList
  <2>3. /\ table'[s[i]].next = table[s[i]].next /\ table'[s[i]].prev = table[s[i]].prev
        /\ table'[s[i]].done = table[s[i]].done
    BY <1>7, <2>1 DEF WipedOnly
  <2>4. CASE i = m + 1
    <3>1. table'[s[i]].q = Nil
      BY <1>6, <1>7, <2>1, <2>4 DEF WipedOnly
    <3> QED BY <1>4, <2>3, <2>4, <3>1
  <2>5. CASE i # m + 1
    <3>1. s[i] # c
      BY <1>1, <1>6, <2>5 DEF Lay, IoList, Listed, Injective
    <3>2. table'[s[i]].q = table[s[i]].q
      BY <1>7, <2>1, <3>1 DEF WipedOnly
    <3>3. (i <= m) <=> (i <= m + 1)
      BY <1>4, <2>5
    <3> QED BY <2>2, <2>3, <3>2, <3>3
  <2> QED BY <2>4, <2>5
<1>13. IoList(s, n, m + 1)'
  <2>1. Listed(s, n)'
    BY <1>1, <1>12, ListedFrame DEF Lay, IoList
  <2>2. ASSUME NEW i \in 1..(m + 1) PROVE table'[s[i]].done = TRUE
    <3>1. i \in 1..n
      BY <1>4, <1>6
    <3>2. CASE i = m + 1
      BY <1>6, <1>8, <1>12, <3>2
    <3>3. CASE i # m + 1
      <4>1. i \in 1..m
        BY <1>4, <3>3
      <4> QED BY <1>1, <1>12, <3>1, <4>1 DEF Lay, IoList
    <3> QED BY <3>2, <3>3
  <2>3. m + 1 \in 0..n
    BY <1>6
  <2> QED BY <1>1, <1>11, <1>12, <2>1, <2>2, <2>3 DEF Lay, IoList
<1>14. \A j \in 1..k : table'[f[j]] = table[f[j]]
  <2> SUFFICES ASSUME NEW j \in 1..k PROVE table'[f[j]] = table[f[j]]
    OBVIOUS
  <2>1. f[j] # c /\ f[j] \in Entries
    BY <1>1, <1>4, <1>6 DEF Lay, Apart
  <2> QED BY <1>7, <2>1 DEF WipedOnly
<1>15. FreeList(f, k)'
  <2>1. Listed(f, k)'
    BY <1>1, <1>14, ListedFrame DEF Lay, FreeList
  <2>2. \A j \in 1..(k - 1) : j \in 1..k /\ j + 1 \in 1..k
    BY <1>4
  <2> QED BY <1>1, <1>11, <1>14, <2>1, <2>2 DEF Lay, FreeList
<1>16. Split(s, n, Before(m + 1))'
  <2>1. Before(m) = 0 /\ Before(m + 1)' = 0
    BY <1>3, <1>9 DEF Before
  <2> QED BY <1>1, <1>11, <1>12, <2>1 DEF Lay, Split
<1>17. Apart(s, n, f, k)' /\ Held(s, n, f, k)'
  BY <1>1, <1>3, <1>9 DEF Lay, Apart, Held
<1>18. DispAt(s, m + 1)'
  BY <1>4, <1>6, <1>9 DEF DispAt
<1>19. Lay(s, n, m + 1, f, k)'
  BY <1>13, <1>15, <1>16, <1>17, <1>18 DEF Lay
<1>20. WorkerAt'
  <2>1. wk' = wk /\ wk.cur \in Links /\ (wk.pc = "mark" => wk.cur # Nil)
    BY <1>3 DEF Sound, Types, ThreadTypes
  <2>2. CASE wk.cur = c
    <3>1. wk.pc # "mark"
      BY <1>8, <2>2 DEF Sound, WorkerAt
    <3>2. table'[c].done = TRUE
      BY <1>6, <1>7, <1>8 DEF WipedOnly
    <3> QED BY <2>1, <2>2, <3>1, <3>2 DEF WorkerAt, Used
  <2>3. CASE wk.cur # c
    <3>1. wk.cur # Nil => table'[wk.cur] = table[wk.cur]
      BY <1>7, <2>1, <2>3 DEF WipedOnly, Links
    <3> QED BY <2>1, <3>1 DEF Sound, WorkerAt, Used
  <2> QED BY <2>2, <2>3
<1> QED BY <1>2, <1>6, <1>7, <1>10, <1>19, <1>20 DEF Sound, Lists

LEMMA UnlinkSound ==
    ASSUME Sound, Unlink
    PROVE  Sound' /\ Keeps(table', table)
<1>1. PICK s, n, m, f, k : Lay(s, n, m, f, k)
  BY DEF Lists, Sound
<1>2. disp.pc = "reclaim" /\ UNCHANGED <<queues, buffer, freeSeq, freeEnd, ioEnd, procNsecs, now, wk, cq, host, hist>>
  BY DEF Unlink
<1>3. /\ n \in Nat /\ m \in 0..n /\ m \in Nat /\ k \in Nat
      /\ \A i \in 1..n : s[i] \in Entries /\ s[i] # Nil
      /\ \A j \in 1..k : f[j] \in Entries
  BY <1>1, LayFacts, EntryFacts
<1>4. disp.last = IF m = 0 THEN Nil ELSE s[m]
  BY <1>1, <1>2 DEF Lay, DispAt
<1>5. CASE disp.last = Nil
  <2>1. disp' = Idle /\ UNCHANGED <<ioSeq, table>>
    BY <1>5 DEF Unlink
  <2>2. disp'.pc = "poll" /\ disp' \in DispTypes
    BY <2>1 DEF Idle, DispTypes
  <2>3. Lists'
    BY <1>2, <1>5, <2>1, <2>2, DispMoves DEF Sound, lists
  <2>4. WorkerAt'
    BY <1>2, <2>1 DEF Sound, WorkerAt, Used
  <2>5. Types'
    BY <1>2, <2>1, <2>2
       DEF Sound, Types, QueueTypes, BufferTypes, TableTypes, ThreadTypes, RingTypes, queues, buffer, hist,
           Completions, Slots, QSize
  <2>6. Keeps(table', table)
    BY <2>1 DEF Keeps
  <2> QED BY <2>3, <2>4, <2>5, <2>6 DEF Sound
<1>6. CASE disp.last # Nil
  <2>1. m # 0 /\ m \in 1..n /\ disp.last = s[m] /\ n > 0
    BY <1>3, <1>4, <1>6
  <2>2. PICK b : b = table[disp.last].next
    OBVIOUS
  <2>3. /\ ioSeq' = b /\ disp' = [pc |-> "free", first |-> ioSeq, last |-> disp.last]
        /\ table' = IF b = Nil THEN table ELSE SetPrev(table, b, Nil)
    BY <1>6, <2>2 DEF Unlink, SetPrev
  <2>4. b = IF m = n THEN Nil ELSE s[m + 1]
    BY <1>1, <2>1, <2>2 DEF Lay, IoList, Listed
  <2>5. b \in Links /\ table \in Tables
    BY <1>3, <2>4 DEF Links, Sound, Types, TableTypes, Tables
  <2>6. table' \in Tables /\ Keeps(table', table)
        /\ \A x \in Entries : table'[x].next = table[x].next /\ table'[x].prev = IF x = b THEN Nil ELSE table[x].prev
    <3>1. CASE b = Nil
      <4>1. table' = table
        BY <2>3, <3>1
      <4> QED BY <2>5, <3>1, <4>1, EntryFacts DEF Keeps
    <3>2. CASE b # Nil
      <4> DEFINE z == Nil
                 t == SetPrev(table, b, z)
      <4>1. b \in Entries /\ table \in Tables /\ z \in Links
        BY <2>5, <3>2 DEF Links
      <4>2. table' = t
        BY <2>3, <3>2
      <4> HIDE DEF z
      <4>3. t \in Tables /\ Keeps(t, table)
            /\ \A x \in Entries : t[x].next = table[x].next /\ t[x].prev = IF x = b THEN z ELSE table[x].prev
        BY <4>1, SetFacts
      <4> HIDE DEF t
      <4> QED BY <4>2, <4>3 DEF z
    <3> QED BY <3>1, <3>2
  <2>7. ioSeq = s[1] /\ 1 \in 1..n
    BY <1>1, <1>2, <1>3, <2>1 DEF Lay, Split, Before
  <2>8. disp'.pc = "free" /\ disp'.first = s[1] /\ disp'.last = s[m] /\ disp' \in DispTypes
    BY <1>3, <2>1, <2>3, <2>7 DEF DispTypes, Links
  <2>9. Types'
    <3>1. \A x \in Entries : table'[x].q # Nil => table'[x].id \in Jobs
      BY <2>6 DEF Keeps, Sound, Types, TableTypes
    <3>2. TableTypes'
      BY <1>2, <2>3, <2>5, <2>6, <3>1 DEF Sound, Types, TableTypes, Tables
    <3> QED BY <1>2, <2>8, <3>2
          DEF Sound, Types, QueueTypes, BufferTypes, ThreadTypes, RingTypes, queues, buffer, hist,
              Completions, Slots, QSize
  <2>10. Listed(s, n)' /\ Listed(f, k)'
    BY <1>1, <1>3, <2>6, ListedFrame DEF Lay, IoList, FreeList
  <2>11. IoList(s, n, m)'
    <3>1. \A i \in 1..n : table'[s[i]].q = table[s[i]].q /\ table'[s[i]].done = table[s[i]].done
      BY <1>3, <2>6 DEF Keeps
    <3>2. \A i \in 1..m : i \in 1..n
      BY <1>3
    <3> QED BY <1>1, <1>2, <2>10, <3>1, <3>2 DEF Lay, IoList
  <2>12. FreeList(f, k)'
    <3>1. \A j \in 1..k : table'[f[j]].q = table[f[j]].q /\ table'[f[j]].done = table[f[j]].done
      BY <1>3, <2>6 DEF Keeps
    <3>2. \A j \in 1..(k - 1) : j \in 1..k /\ j + 1 \in 1..k
      BY <1>3
    <3> QED BY <1>1, <1>2, <2>10, <3>1, <3>2 DEF Lay, FreeList
  <2>13. Split(s, n, Before(m))'
    <3>1. Before(m) = 0 /\ Before(m)' = m
      BY <1>2, <2>8 DEF Before
    <3>2. ioSeq' = IF m < n THEN s[m + 1] ELSE Nil
      BY <1>3, <2>3, <2>4
    <3>3. ASSUME NEW i \in 1..n PROVE table'[s[i]].prev = IF i = 1 \/ i = m + 1 THEN Nil ELSE s[i - 1]
      <4>1. table[s[i]].prev = IF i = 1 THEN Nil ELSE s[i - 1]
        BY <1>1, <3>1 DEF Lay, Split
      <4>2. CASE i = m + 1
        <5>1. s[i] = b
          BY <1>3, <2>4, <4>2
        <5> QED BY <1>3, <2>6, <4>2, <5>1
      <4>3. CASE i # m + 1
        <5>1. s[i] # b
          <6>1. m # n => m + 1 \in 1..n
            BY <1>3
          <6> QED BY <1>1, <1>3, <2>4, <4>3, <6>1 DEF Lay, IoList, Listed, Injective
        <5>2. table'[s[i]].prev = table[s[i]].prev
          BY <1>3, <2>6, <5>1
        <5> QED BY <4>1, <4>3, <5>2
      <4> QED BY <4>2, <4>3
    <3> QED BY <3>1, <3>2, <3>3 DEF Split
  <2>14. Apart(s, n, f, k)' /\ Held(s, n, f, k)'
    BY <1>1, <1>2, <2>8 DEF Lay, Apart, Held
  <2>15. DispAt(s, m)'
    BY <1>3, <2>1, <2>8 DEF DispAt
  <2>16. Lay(s, n, m, f, k)'
    BY <2>11, <2>12, <2>13, <2>14, <2>15 DEF Lay
  <2>17. WorkerAt'
    <3>1. wk' = wk /\ wk.cur \in Links /\ (wk.pc = "mark" => wk.cur # Nil)
      BY <1>2 DEF Sound, Types, ThreadTypes
    <3> QED BY <2>6, <3>1 DEF WorkerAt, Used, Keeps, Sound, Links
  <2> QED BY <2>6, <2>9, <2>16, <2>17 DEF Sound, Lists
<1> QED BY <1>5, <1>6

(* The free list with the first m entries of s behind it. *)
Joined(u, f, k, s, m) ==
    /\ u \in [1..(k + m) -> Entries]
    /\ \A j \in 1..k : u[j] = f[j]
    /\ \A i \in 1..m : u[k + i] = s[i]
    /\ Injective(u, k + m)

Joint(f, k, s, m) == [i \in 1..(k + m) |-> IF i <= k THEN f[i] ELSE s[i - k]]

LEMMA JoinFacts ==
    ASSUME NEW k \in Nat, NEW f \in [1..k -> Entries], NEW n \in Nat, NEW s \in [1..n -> Entries],
           NEW m \in 0..n, Injective(f, k), Injective(s, n), Apart(s, n, f, k)
    PROVE  Joined(Joint(f, k, s, m), f, k, s, m)
<1> DEFINE u == Joint(f, k, s, m)
<1>0. m \in Nat
  OBVIOUS
<1>1. u = [i \in 1..(k + m) |-> IF i <= k THEN f[i] ELSE s[i - k]]
  BY DEF Joint
<1> HIDE DEF u
<1>2. ASSUME NEW i \in 1..(k + m)
      PROVE  /\ i <= k => i \in 1..k /\ u[i] = f[i]
             /\ i > k => i - k \in 1..m /\ i - k \in 1..n /\ u[i] = s[i - k]
  <2>1. u[i] = IF i <= k THEN f[i] ELSE s[i - k]
    BY <1>1
  <2>2. i <= k => i \in 1..k
    BY <1>0
  <2>3. i > k => i - k \in 1..m /\ i - k \in 1..n
    BY <1>0
  <2> QED BY <1>0, <2>1, <2>2, <2>3
<1>3. u \in [1..(k + m) -> Entries]
  <2>1. \A i \in 1..(k + m) : u[i] \in Entries
    <3> SUFFICES ASSUME NEW i \in 1..(k + m) PROVE u[i] \in Entries
      OBVIOUS
    <3>1. i <= k \/ i > k
      BY <1>0
    <3> QED BY <1>2, <3>1
  <2> QED BY <1>1, <2>1
<1>4. \A j \in 1..k : u[j] = f[j]
  <2> SUFFICES ASSUME NEW j \in 1..k PROVE u[j] = f[j]
    OBVIOUS
  <2>1. j \in 1..(k + m) /\ j <= k
    BY <1>0
  <2> QED BY <1>2, <2>1
<1>5. \A i \in 1..m : u[k + i] = s[i]
  <2> SUFFICES ASSUME NEW i \in 1..m PROVE u[k + i] = s[i]
    OBVIOUS
  <2>1. k + i \in 1..(k + m) /\ k + i > k /\ (k + i) - k = i
    BY <1>0
  <2>2. u[k + i] = s[(k + i) - k]
    BY <1>2, <2>1
  <2> QED BY <2>1, <2>2
<1>6. ASSUME NEW i \in 1..(k + m), NEW j \in 1..(k + m), u[i] = u[j] PROVE i = j
  <2>1. CASE i <= k /\ j <= k
    <3>1. i \in 1..k /\ j \in 1..k /\ f[i] = f[j]
      BY <1>2, <1>6, <2>1
    <3> QED BY <3>1 DEF Injective
  <2>2. CASE i <= k /\ j > k
    <3>1. i \in 1..k /\ j - k \in 1..n /\ f[i] = s[j - k]
      BY <1>2, <1>6, <2>2
    <3> QED BY <3>1 DEF Apart
  <2>3. CASE i > k /\ j <= k
    <3>1. j \in 1..k /\ i - k \in 1..n /\ f[j] = s[i - k]
      BY <1>2, <1>6, <2>3
    <3> QED BY <3>1 DEF Apart
  <2>4. CASE i > k /\ j > k
    <3>1. i - k \in 1..n /\ j - k \in 1..n /\ s[i - k] = s[j - k]
      BY <1>2, <1>6, <2>4
    <3>2. i - k = j - k
      BY <3>1 DEF Injective
    <3> QED BY <1>0, <3>2
  <2>5. (i <= k \/ i > k) /\ (j <= k \/ j > k)
    BY <1>0
  <2> QED BY <2>1, <2>2, <2>3, <2>4, <2>5
<1>7. Joined(u, f, k, s, m)
  BY <1>3, <1>4, <1>5, <1>6 DEF Joined, Injective
<1> QED BY <1>7 DEF u

(* The three stores of Free. *)
LEMMA FreeStores ==
    ASSUME NEW t \in Tables, NEW l \in Entries, NEW h \in Entries, NEW e \in Entries, l # e, NEW u,
           u = SetNext(SetPrev(SetNext(t, l, Nil), h, e), e, h)
    PROVE  /\ u \in Tables /\ Keeps(u, t)
           /\ \A x \in Entries :
                 /\ u[x].next = IF x = e THEN h ELSE IF x = l THEN Nil ELSE t[x].next
                 /\ u[x].prev = IF x = h THEN e ELSE t[x].prev
<1> DEFINE z == Nil
           t1 == SetNext(t, l, z)
           t2 == SetPrev(t1, h, e)
           t3 == SetNext(t2, e, h)
<1>1. z \in Links /\ h \in Links /\ e \in Links
  BY DEF Links
<1>2. u = t3
  OBVIOUS
<1> HIDE DEF z
<1>3. t1 \in Tables /\ Keeps(t1, t)
      /\ \A x \in Entries : t1[x].prev = t[x].prev /\ t1[x].next = IF x = l THEN z ELSE t[x].next
  BY <1>1, SetFacts
<1> HIDE DEF t1
<1>4. t2 \in Tables /\ Keeps(t2, t1)
      /\ \A x \in Entries : t2[x].next = t1[x].next /\ t2[x].prev = IF x = h THEN e ELSE t1[x].prev
  BY <1>1, <1>3, SetFacts
<1> HIDE DEF t2
<1>5. t3 \in Tables /\ Keeps(t3, t2)
      /\ \A x \in Entries : t3[x].prev = t2[x].prev /\ t3[x].next = IF x = e THEN h ELSE t2[x].next
  BY <1>1, <1>4, SetFacts
<1> HIDE DEF t3
<1>6. Keeps(t3, t)
  BY <1>3, <1>4, <1>5, KeepsTrans
<1> QED BY <1>2, <1>3, <1>4, <1>5, <1>6 DEF z

LEMMA FreeSound ==
    ASSUME Sound, Free
    PROVE  Sound' /\ Keeps(table', table)
<1>1. PICK s, n, m, f, k : Lay(s, n, m, f, k)
  BY DEF Lists, Sound
<1>2. /\ n \in Nat /\ s \in [1..n -> Entries] /\ m \in 0..n /\ m \in Nat
      /\ k \in Nat /\ k >= 1 /\ f \in [1..k -> Entries]
      /\ \A i \in 1..n : s[i] \in Entries
      /\ \A j \in 1..k : f[j] \in Entries
  BY <1>1, LayFacts
<1>3. disp.pc = "free" /\ m > 0 /\ disp.first = s[1] /\ disp.last = s[m] /\ freeEnd = f[k] /\ freeSeq = f[1]
  BY <1>1 DEF Free, Lay, DispAt, FreeList
<1>4. 1 \in 1..n /\ m \in 1..n /\ k \in 1..k /\ 1 \in 1..k
  BY <1>2, <1>3
<1>5. /\ table' = SetNext(SetPrev(SetNext(table, s[m], Nil), s[1], f[k]), f[k], s[1])
      /\ freeEnd' = s[m] /\ disp' = Idle
      /\ UNCHANGED <<queues, buffer, freeSeq, ioSeq, ioEnd, procNsecs, now, wk, cq, host, hist>>
  BY <1>3 DEF Free, SetNext, SetPrev
<1>6. s[m] \in Entries /\ s[1] \in Entries /\ f[k] \in Entries /\ s[m] # f[k] /\ table \in Tables
  BY <1>1, <1>2, <1>4 DEF Lay, Apart, Sound, Types, TableTypes, Tables
<1>7. /\ table' \in Tables /\ Keeps(table', table)
      /\ \A x \in Entries :
            /\ table'[x].next = IF x = f[k] THEN s[1] ELSE IF x = s[m] THEN Nil ELSE table[x].next
            /\ table'[x].prev = IF x = s[1] THEN f[k] ELSE table[x].prev
  <2>1. PICK l, h, e : l = s[m] /\ h = s[1] /\ e = f[k]
    OBVIOUS
  <2> DEFINE t == SetNext(SetPrev(SetNext(table, l, Nil), h, e), e, h)
  <2>2. table' = t
    BY <1>5, <2>1
  <2>3. l \in Entries /\ h \in Entries /\ e \in Entries /\ l # e /\ table \in Tables
    BY <1>6, <2>1
  <2>4. /\ t \in Tables /\ Keeps(t, table)
        /\ \A x \in Entries :
              /\ t[x].next = IF x = e THEN h ELSE IF x = l THEN Nil ELSE table[x].next
              /\ t[x].prev = IF x = h THEN e ELSE table[x].prev
    BY <2>3, FreeStores
  <2> HIDE DEF t
  <2> QED BY <2>1, <2>2, <2>4
<1>8. Types'
  <2>1. \A x \in Entries : table'[x].q # Nil => table'[x].id \in Jobs
    BY <1>7 DEF Keeps, Sound, Types, TableTypes
  <2>2. TableTypes'
    BY <1>5, <1>6, <1>7, <2>1 DEF Sound, Types, TableTypes, Tables
  <2>3. disp' \in DispTypes
    BY <1>5 DEF Idle, DispTypes
  <2> QED BY <1>5, <2>2, <2>3
        DEF Sound, Types, QueueTypes, BufferTypes, ThreadTypes, RingTypes, queues, buffer, hist,
            Completions, Slots, QSize
<1>9. Listed(s, n) /\ Listed(f, k) /\ Injective(s, n) /\ Injective(f, k) /\ Apart(s, n, f, k)
  BY <1>1 DEF Lay, IoList, FreeList, Listed
<1>10. PICK u : Dropped(u, s, n, m)
  BY <1>2, DropFacts
<1>11. PICK v : Joined(v, f, k, s, m)
  BY <1>2, <1>9, JoinFacts
<1>12. /\ n - m \in Nat /\ u \in [1..(n - m) -> Entries]
       /\ \A i \in 1..(n - m) : i + m \in 1..n /\ u[i] = s[i + m]
       /\ \A i \in 1..n : i > m => i - m \in 1..(n - m) /\ u[i - m] = s[i]
  BY <1>10 DEF Dropped
<1>13. /\ v \in [1..(k + m) -> Entries] /\ Injective(v, k + m) /\ k + m \in Nat /\ k + m >= 1
       /\ \A j \in 1..k : v[j] = f[j]
       /\ \A i \in 1..m : v[k + i] = s[i]
  BY <1>2, <1>11 DEF Joined
<1>14. Listed(u, n - m)
  BY <1>2, <1>9, <1>10, DropListed
<1>15. ASSUME NEW i \in 1..(n - m)
       PROVE  u[i] \in Entries /\ u[i] # f[k] /\ u[i] # s[m] /\ u[i] # s[1]
  <2>1. i + m \in 1..n /\ u[i] = s[i + m] /\ i + m # m /\ i + m # 1
    BY <1>2, <1>3, <1>12
  <2> QED BY <1>2, <1>4, <1>9, <2>1 DEF Apart, Injective
<1>16. Listed(u, n - m)'
  <2>1. \A i \in 1..(n - m) : table'[u[i]].next = table[u[i]].next
    BY <1>7, <1>15
  <2> QED BY <1>14, <2>1, ListedFrame
<1>17. IoList(u, n - m, 0)'
  <2>1. \A i \in 1..(n - m) : table'[u[i]].q # Nil
    <3> SUFFICES ASSUME NEW i \in 1..(n - m) PROVE table'[u[i]].q # Nil
      OBVIOUS
    <3>1. i + m \in 1..n /\ u[i] = s[i + m] /\ ~(i + m <= m)
      BY <1>2, <1>12
    <3>2. table[s[i + m]].q # Nil
      BY <1>1, <3>1 DEF Lay, IoList
    <3> QED BY <1>7, <1>15, <3>1, <3>2 DEF Keeps
  <2>2. n - m > 0 => ioEnd = u[n - m]
    <3>1. n - m > 0 => n \in 1..n /\ n > m /\ n > 0
      BY <1>2
    <3> QED BY <1>1, <1>12, <3>1 DEF Lay, IoList
  <2>3. 0 \in 0..(n - m) /\ \A i \in 1..(n - m) : ~(i <= 0)
    BY <1>12
  <2> QED BY <1>5, <1>16, <2>1, <2>2, <2>3 DEF IoList
<1>18. ASSUME NEW j \in 1..(k + m)
       PROVE  \/ j \in 1..k /\ v[j] = f[j]
              \/ j - k \in 1..m /\ j - k \in 1..n /\ v[j] = s[j - k] /\ j > k
  <2>1. CASE j <= k
    <3>1. j \in 1..k
      BY <1>2, <2>1
    <3> QED BY <1>13, <3>1
  <2>2. CASE j > k
    <3>1. j - k \in 1..m /\ j - k \in 1..n /\ k + (j - k) = j
      BY <1>2, <2>2
    <3>2. v[k + (j - k)] = s[j - k]
      BY <1>13, <3>1
    <3> QED BY <2>2, <3>1, <3>2
  <2> QED BY <1>2, <2>1, <2>2
<1>19. ASSUME NEW j \in 1..(k + m)
       PROVE  table'[v[j]].next = IF j = k + m THEN Nil ELSE v[j + 1]
  <2>1. CASE j \in 1..k /\ v[j] = f[j]
    <3>1. f[j] \in Entries /\ f[j] # s[m] /\ j # k + m
      BY <1>2, <1>3, <1>4, <1>9, <2>1 DEF Apart
    <3>2. CASE j = k
      <4>1. 1 \in 1..m /\ v[k + 1] = s[1]
        BY <1>2, <1>3, <1>13
      <4> QED BY <1>7, <2>1, <3>1, <3>2, <4>1
    <3>3. CASE j # k
      <4>1. f[j] # f[k]
        BY <1>4, <1>9, <2>1, <3>3 DEF Injective
      <4>2. table'[f[j]].next = table[f[j]].next
        BY <1>7, <3>1, <4>1
      <4>3. j + 1 \in 1..k /\ table[f[j]].next = f[j + 1]
        BY <1>2, <1>9, <2>1, <3>3 DEF Listed
      <4>4. v[j + 1] = f[j + 1]
        BY <1>13, <4>3
      <4> QED BY <2>1, <3>1, <4>2, <4>3, <4>4
    <3> QED BY <3>2, <3>3
  <2>2. CASE j - k \in 1..m /\ j - k \in 1..n /\ v[j] = s[j - k] /\ j > k
    <3>1. s[j - k] \in Entries /\ s[j - k] # f[k]
      BY <1>2, <1>4, <1>9, <2>2 DEF Apart
    <3>2. CASE j = k + m
      <4>1. j - k = m
        BY <1>2, <3>2
      <4> QED BY <1>7, <2>2, <3>1, <3>2, <4>1
    <3>3. CASE j # k + m
      <4>1. j - k # m /\ (j - k) + 1 \in 1..m /\ (j - k) # n /\ k + ((j - k) + 1) = j + 1
        BY <1>2, <2>2, <3>3
      <4>2. s[j - k] # s[m]
        BY <1>4, <1>9, <2>2, <4>1 DEF Injective
      <4>3. table[s[j - k]].next = s[(j - k) + 1]
        BY <1>9, <2>2, <4>1 DEF Listed
      <4>4. v[k + ((j - k) + 1)] = s[(j - k) + 1]
        BY <1>13, <4>1
      <4>5. v[j + 1] = s[(j - k) + 1]
        BY <4>1, <4>4
      <4>6. table'[v[j]].next = table[s[j - k]].next
        BY <1>7, <2>2, <3>1, <4>2
      <4> QED BY <3>3, <4>3, <4>5, <4>6
    <3> QED BY <3>2, <3>3
  <2> QED BY <1>18, <2>1, <2>2
<1>20. Listed(v, k + m)'
  BY <1>13, <1>19 DEF Listed
<1>21. FreeList(v, k + m)'
  <2>1. \A x \in Entries : table'[x].q = table[x].q /\ table'[x].done = table[x].done
    BY <1>7 DEF Keeps
  <2>2. \A i \in 1..m : i \in 1..n /\ table[s[i]].q = Nil /\ table[s[i]].done = TRUE
    BY <1>1, <1>2 DEF Lay, IoList
  <2>3. \A j \in 1..(k + m) : v[j] \in Entries
    BY <1>13
  <2>4. \A j \in 1..(k + m) : table'[v[j]].q = Nil
    <3> SUFFICES ASSUME NEW j \in 1..(k + m) PROVE table'[v[j]].q = Nil
      OBVIOUS
    <3>1. CASE j \in 1..k /\ v[j] = f[j]
      BY <1>1, <2>1, <2>3, <3>1 DEF Lay, FreeList
    <3>2. CASE j - k \in 1..m /\ v[j] = s[j - k]
      BY <2>1, <2>2, <2>3, <3>2
    <3> QED BY <1>18, <3>1, <3>2
  <2>5. ASSUME NEW j \in 1..((k + m) - 1), table'[v[j]].done = TRUE PROVE table'[v[j + 1]].done = TRUE
    <3>1. j \in 1..(k + m) /\ j + 1 \in 1..(k + m)
      BY <1>2
    <3>2. CASE j + 1 \in 1..k /\ v[j + 1] = f[j + 1]
      <4>1. j \in 1..(k - 1) /\ j \in 1..k
        BY <1>2, <3>1, <3>2
      <4>2. v[j] = f[j]
        BY <1>13, <4>1
      <4>3. table[f[j]].done = TRUE
        BY <2>1, <2>3, <2>5, <3>1, <4>2
      <4>4. table[f[j + 1]].done = TRUE
        BY <1>1, <4>1, <4>3 DEF Lay, FreeList
      <4> QED BY <2>1, <2>3, <3>1, <3>2, <4>4
    <3>3. CASE (j + 1) - k \in 1..m /\ v[j + 1] = s[(j + 1) - k]
      BY <2>1, <2>2, <2>3, <3>1, <3>3
    <3> QED BY <1>18, <3>1, <3>2, <3>3
  <2>6. freeSeq' = v[1] /\ freeEnd' = v[k + m]
    <3>1. v[1] = f[1]
      BY <1>4, <1>13
    <3>2. m \in 1..m /\ v[k + m] = s[m]
      BY <1>2, <1>3, <1>13
    <3> QED BY <1>3, <1>5, <3>1, <3>2
  <2> QED BY <1>13, <1>20, <2>4, <2>5, <2>6 DEF FreeList
<1>22. disp'.pc = "poll"
  BY <1>5 DEF Idle
<1>23. Split(u, n - m, Before(0))'
  <2>1. Before(m) = m /\ Before(0)' = 0
    BY <1>3, <1>22 DEF Before
  <2>2. ioSeq = (IF m < n THEN s[m + 1] ELSE Nil)
        /\ \A i \in 1..n : table[s[i]].prev = IF i = 1 \/ i = m + 1 THEN Nil ELSE s[i - 1]
    BY <1>1, <2>1 DEF Lay, Split
  <2>3. ioSeq = IF 0 < n - m THEN u[1] ELSE Nil
    <3>1. CASE m < n
      <4>1. 1 \in 1..(n - m) /\ 0 < n - m /\ 1 + m = m + 1
        BY <1>2, <3>1
      <4>2. u[1] = s[1 + m]
        BY <1>12, <4>1
      <4> QED BY <2>2, <3>1, <4>1, <4>2
    <3>2. CASE ~(m < n)
      BY <1>2, <2>2, <3>2
    <3> QED BY <3>1, <3>2
  <2>4. ASSUME NEW i \in 1..(n - m) PROVE table'[u[i]].prev = IF i = 1 THEN Nil ELSE u[i - 1]
    <3>1. i + m \in 1..n /\ u[i] = s[i + m] /\ i + m # 1
      BY <1>2, <1>3, <1>12
    <3>2. table'[u[i]].prev = table[u[i]].prev
      BY <1>7, <1>15
    <3>3. table[s[i + m]].prev = IF i + m = m + 1 THEN Nil ELSE s[(i + m) - 1]
      BY <2>2, <3>1
    <3>4. i # 1 => i - 1 \in 1..(n - m) /\ (i - 1) + m = (i + m) - 1
      BY <1>2, <1>12
    <3>5. i # 1 => u[i - 1] = s[(i + m) - 1]
      BY <1>12, <3>4
    <3>6. i = 1 <=> i + m = m + 1
      BY <1>2
    <3> QED BY <3>1, <3>2, <3>3, <3>5, <3>6
  <2> QED BY <1>5, <2>1, <2>3, <2>4 DEF Split
<1>24. Apart(u, n - m, v, k + m)'
  <2> SUFFICES ASSUME NEW i \in 1..(n - m), NEW j \in 1..(k + m) PROVE u[i] # v[j]
    BY DEF Apart
  <2>1. i + m \in 1..n /\ u[i] = s[i + m]
    BY <1>12
  <2>2. CASE j \in 1..k /\ v[j] = f[j]
    BY <1>9, <2>1, <2>2 DEF Apart
  <2>3. CASE j - k \in 1..m /\ j - k \in 1..n /\ v[j] = s[j - k]
    <3>1. i + m # j - k
      BY <1>2, <2>3
    <3> QED BY <1>9, <2>1, <2>3, <3>1 DEF Injective
  <2> QED BY <1>18, <2>2, <2>3
<1>25. Held(u, n - m, v, k + m)'
  <2>1. ASSUME NEW x \in Entries PROVE In(x, u, n - m) \/ In(x, v, k + m)
    <3>1. In(x, s, n) \/ In(x, f, k)
      BY <1>1, <1>3 DEF Lay, Held
    <3>2. ASSUME NEW j \in 1..k, f[j] = x PROVE In(x, v, k + m)
      <4>1. j \in 1..(k + m) /\ v[j] = x
        BY <1>2, <1>13, <3>2
      <4> QED BY <4>1 DEF In
    <3>3. ASSUME NEW i \in 1..n, s[i] = x PROVE In(x, u, n - m) \/ In(x, v, k + m)
      <4>1. CASE i > m
        BY <1>12, <3>3, <4>1 DEF In
      <4>2. CASE ~(i > m)
        <5>1. i \in 1..m /\ k + i \in 1..(k + m)
          BY <1>2, <4>2
        <5>2. v[k + i] = x
          BY <1>13, <3>3, <5>1
        <5> QED BY <5>1, <5>2 DEF In
      <4> QED BY <4>1, <4>2
    <3> QED BY <3>1, <3>2, <3>3 DEF In
  <2> QED BY <1>22, <2>1 DEF Held, In
<1>26. DispAt(u, 0)'
  BY <1>22 DEF DispAt
<1>27. Lay(u, n - m, 0, v, k + m)'
  BY <1>17, <1>21, <1>23, <1>24, <1>25, <1>26 DEF Lay
<1>28. WorkerAt'
  <2>1. wk' = wk /\ wk.cur \in Links /\ (wk.pc = "mark" => wk.cur # Nil)
    BY <1>5 DEF Sound, Types, ThreadTypes
  <2> QED BY <1>7, <2>1 DEF WorkerAt, Used, Keeps, Sound, Links
<1> QED BY <1>7, <1>8, <1>27, <1>28 DEF Sound, Lists

LEMMA SoundStep ==
    ASSUME Sound, [Next]_vars
    PROVE  Sound'
<1>1. CASE Tick
  BY <1>1, TickTypes, QuietStep DEF Tick, Sound
<1>2. ASSUME NEW q \in Sqs, NEW c \in Cmds, Issue(q, c) PROVE Sound'
  BY <1>2, IssueTypes, QuietStep DEF Issue, Sound
<1>3. ASSUME NEW q \in Sqs, Handle(q) PROVE Sound'
  BY <1>3, HandleTypes, QuietStep DEF Handle, Sound
<1>4. CASE Dispatcher
  BY <1>4, ProcIoSqSound, ProcIoDqSound, EnqueueSound, WalkBackSound, LinkSound, ScanSound, UnlinkSound,
     FreeSound DEF Dispatcher
<1>5. CASE Worker
  BY <1>5, StartPassSound, SkipSound, VisitEarlySound, ReleaseSound, CompleteSound, MarkSound, AdvanceSound,
     SignalIrqSound DEF Worker
<1>6. CASE UNCHANGED vars
  <2>1. UNCHANGED <<queues, buffer, table, lists, procNsecs, now, disp, wk, cq, host, hist>>
    BY <1>6 DEF vars
  <2>2. Types'
    BY <2>1 DEF Sound, Types, QueueTypes, BufferTypes, TableTypes, ThreadTypes, RingTypes, queues, buffer,
                lists, hist, Completions, Slots, QSize
  <2> QED BY <2>1, <2>2, QuietStep
<1> QED BY <1>1, <1>2, <1>3, <1>4, <1>5, <1>6 DEF Next

LEMMA SoundTypeOK ==
    ASSUME Types
    PROVE  TypeOK /\ NextOK
<1>1. \A q \in Sqs : fetched[q] \in 0..Len(issued[q])
  <2> SUFFICES ASSUME NEW q \in Sqs PROVE fetched[q] \in 0..Len(issued[q])
    OBVIOUS
  <2>1. fetched[q] \in Nat /\ fetched[q] <= Len(issued[q]) /\ Len(issued[q]) \in Nat
    BY LenProperties DEF Types, QueueTypes
  <2> QED BY <2>1
<1>2. \A q \in Sqs : cq[q].head \in Slots /\ host[q].head \in Slots
  <2>1. \A q \in Sqs : cq[q] \in Completions /\ host[q] \in [head : Slots, phase : {0, 1}, irq : BOOLEAN]
    BY DEF Types, RingTypes
  <2> QED BY <2>1 DEF Completions
<1>3. wk.cur \in Links
  BY DEF Types, ThreadTypes
<1>4. TypeOK
  BY <1>1, <1>2, <1>3 DEF Types, TableTypes, ThreadTypes, BufferTypes, TypeOK, Links
<1>5. NextOK
  BY FieldFacts DEF Types, NextOK, Links
<1> QED BY <1>4, <1>5

(* What Chain returns on the two lists. *)
LEMMA ChainsAre ==
    ASSUME Types, NEW s, NEW n, NEW m, NEW f, NEW k, Lay(s, n, m, f, k),
           NEW u, Dropped(u, s, n, Before(m))
    PROVE  /\ Before(m) \in 0..n /\ n - Before(m) \in Nat
           /\ Chain(ioSeq) \in Seq(Entries) /\ Len(Chain(ioSeq)) = n - Before(m)
           /\ \A i \in 1..(n - Before(m)) : Chain(ioSeq)[i] = u[i]
           /\ Chain(freeSeq) \in Seq(Entries) /\ Len(Chain(freeSeq)) = k
           /\ \A j \in 1..k : Chain(freeSeq)[j] = f[j]
<1> DEFINE c == Before(m)
<1>1. n \in Nat /\ m \in 0..n /\ k \in Nat /\ k >= 1 /\ s \in [1..n -> Entries]
  BY LayFacts
<1>2. c \in 0..n
  BY <1>1 DEF Before
<1>3. NextOK /\ ioSeq \in Entries \cup {Nil} /\ freeSeq \in Entries \cup {Nil}
  BY SoundTypeOK DEF Types, TableTypes, Links
<1>4. Listed(s, n) /\ Listed(f, k) /\ freeSeq = f[1] /\ ioSeq = IF c < n THEN s[c + 1] ELSE Nil
  BY DEF Lay, IoList, FreeList, Split
<1>5. Dropped(u, s, n, c)
  OBVIOUS
<1> HIDE DEF c
<1>6. Listed(u, n - c)
  BY <1>2, <1>4, <1>5, DropListed
<1>7. n - c \in Nat /\ \A i \in 1..(n - c) : i + c \in 1..n /\ u[i] = s[i + c]
  BY <1>5 DEF Dropped
<1>8. ioSeq = IF n - c = 0 THEN Nil ELSE u[1]
  <2>1. CASE c < n
    <3>1. 1 \in 1..(n - c) /\ n - c # 0 /\ 1 + c = c + 1
      BY <1>1, <1>2, <2>1
    <3>2. u[1] = s[1 + c]
      BY <1>7, <3>1
    <3> QED BY <1>4, <2>1, <3>1, <3>2
  <2>2. CASE ~(c < n)
    BY <1>1, <1>2, <1>4, <2>2
  <2> QED BY <2>1, <2>2
<1>9. ListFrom(ioSeq, u, n - c)
  BY <1>6, <1>8 DEF Listed, ListFrom
<1>10. ListFrom(freeSeq, f, k)
  BY <1>1, <1>4 DEF Listed, ListFrom
<1>11. /\ Chain(ioSeq) \in Seq(Entries) /\ Len(Chain(ioSeq)) = n - c
       /\ \A i \in 1..(n - c) : Chain(ioSeq)[i] = u[i]
  <2> DEFINE d == n - c
  <2>1. ListFrom(ioSeq, u, d)
    BY <1>9
  <2> HIDE DEF d
  <2>2. /\ Chain(ioSeq) \in Seq(Entries) /\ Len(Chain(ioSeq)) = d
        /\ \A i \in 1..d : Chain(ioSeq)[i] = u[i]
    BY <1>3, <2>1, ChainIs
  <2> QED BY <2>2 DEF d
<1>12. /\ Chain(freeSeq) \in Seq(Entries) /\ Len(Chain(freeSeq)) = k
       /\ \A j \in 1..k : Chain(freeSeq)[j] = f[j]
  BY <1>3, <1>10, ChainIs
<1> QED BY <1>2, <1>7, <1>11, <1>12 DEF c

LEMMA SeqIn ==
    ASSUME NEW c \in Seq(Entries), NEW n \in Nat, Len(c) = n, NEW s, \A i \in 1..n : c[i] = s[i]
    PROVE  /\ DOMAIN c = 1..n
           /\ \A x : x \in Range(c) <=> In(x, s, n)
           /\ Injective(s, n) => IsInjective(c)
           /\ Last(c) = c[n]
           /\ c = << >> <=> n = 0
<1>1. DOMAIN c = 1..n
  BY LenProperties
<1>2. \A x : x \in Range(c) <=> In(x, s, n)
  BY <1>1 DEF Range, In
<1>3. Injective(s, n) => IsInjective(c)
  BY <1>1 DEF Injective, IsInjective
<1>4. Last(c) = c[n]
  BY DEF Last
<1>5. c = << >> <=> n = 0
  BY EmptySeq
<1> QED BY <1>1, <1>2, <1>3, <1>4, <1>5

LEMMA SoundLists ==
    ASSUME Types, Lists
    PROVE  ListsSound
<1>1. PICK s, n, m, f, k : Lay(s, n, m, f, k)
  BY DEF Lists
<1>2. PICK d : d = Before(m)
  OBVIOUS
<1>3. /\ n \in Nat /\ s \in [1..n -> Entries] /\ m \in 0..n /\ m \in Nat
      /\ k \in Nat /\ k >= 1 /\ f \in [1..k -> Entries] /\ d \in 0..n
  BY <1>1, <1>2, LayFacts DEF Before
<1>4. PICK u : Dropped(u, s, n, d)
  BY <1>3, DropFacts
<1> DEFINE io == Chain(ioSeq)
           fr == Chain(freeSeq)
<1>5. /\ n - d \in Nat
      /\ io \in Seq(Entries) /\ Len(io) = n - d /\ \A i \in 1..(n - d) : io[i] = u[i]
      /\ fr \in Seq(Entries) /\ Len(fr) = k /\ \A j \in 1..k : fr[j] = f[j]
  BY <1>1, <1>2, <1>4, ChainsAre
<1> HIDE DEF io, fr
<1>6. /\ \A i \in 1..(n - d) : i + d \in 1..n /\ u[i] = s[i + d]
      /\ \A i \in 1..n : i > d => i - d \in 1..(n - d) /\ u[i - d] = s[i]
      /\ Injective(u, n - d)
  BY <1>1, <1>4 DEF Dropped, Lay, IoList, Listed
<1>7. /\ DOMAIN io = 1..(n - d) /\ (\A x : x \in Range(io) <=> In(x, u, n - d)) /\ IsInjective(io)
      /\ Last(io) = io[n - d] /\ (io = << >> <=> n - d = 0)
  <2> DEFINE p == n - d
  <2>1. p \in Nat /\ io \in Seq(Entries) /\ Len(io) = p /\ (\A i \in 1..p : io[i] = u[i]) /\ Injective(u, p)
    BY <1>5, <1>6
  <2> HIDE DEF p
  <2>2. /\ DOMAIN io = 1..p /\ (\A x : x \in Range(io) <=> In(x, u, p)) /\ IsInjective(io)
        /\ Last(io) = io[p] /\ (io = << >> <=> p = 0)
    BY <2>1, SeqIn
  <2> QED BY <2>2 DEF p
<1>8. /\ DOMAIN fr = 1..k /\ (\A x : x \in Range(fr) <=> In(x, f, k)) /\ IsInjective(fr) /\ Last(fr) = fr[k]
  <2>1. Injective(f, k)
    BY <1>1 DEF Lay, FreeList, Listed
  <2> QED BY <1>3, <1>5, <2>1, SeqIn
<1>9. Range(io) \cap Range(fr) = {}
  <2> SUFFICES ASSUME NEW x, In(x, u, n - d), In(x, f, k) PROVE FALSE
    BY <1>7, <1>8
  <2> QED BY <1>1, <1>6 DEF Lay, Apart, In
<1>10. Entries \ (Range(io) \cup Range(fr)) \subseteq InHand
  <2> SUFFICES ASSUME NEW x \in Entries, ~In(x, u, n - d), ~In(x, f, k) PROVE x \in InHand
    BY <1>7, <1>8
  <2>1. In(x, s, n) \/ (disp.pc = "link" /\ x = disp.ent)
    BY <1>1 DEF Lay, Held
  <2>2. CASE disp.pc = "link" /\ x = disp.ent
    BY <2>2 DEF InHand
  <2>3. CASE In(x, s, n)
    <3>1. PICK i \in 1..n : s[i] = x
      BY <2>3 DEF In
    <3>2. ~(i > d)
      BY <1>6, <3>1 DEF In
    <3>3. d = m /\ disp.pc = "free" /\ i \in 1..m
      BY <1>2, <1>3, <3>2 DEF Before
    <3>4. table[x].done = TRUE
      BY <1>1, <3>1, <3>3 DEF Lay, IoList
    <3> QED BY <3>3, <3>4 DEF InHand
  <2> QED BY <2>1, <2>2, <2>3
<1>11. Last(fr) = freeEnd
  <2>1. k \in 1..k
    BY <1>3
  <2> QED BY <1>1, <1>5, <1>8, <2>1 DEF Lay, FreeList
<1>12. \A i \in 1..n : table[s[i]].prev = IF i = 1 \/ i = d + 1 THEN Nil ELSE s[i - 1]
  BY <1>1, <1>2 DEF Lay, Split
<1>13. ASSUME NEW i \in 2..Len(io) PROVE table[io[i]].prev = io[i - 1]
  <2>1. i \in 1..(n - d) /\ i - 1 \in 1..(n - d)
    BY <1>5
  <2>2. io[i] = s[i + d] /\ i + d \in 1..n /\ io[i - 1] = s[(i - 1) + d]
    BY <1>5, <1>6, <2>1
  <2>3. i + d # 1 /\ i + d # d + 1 /\ (i - 1) + d = (i + d) - 1
    BY <1>3, <2>1, <1>13
  <2> QED BY <1>12, <2>2, <2>3
<1>14. ASSUME io # << >> PROVE table[io[1]].prev = Nil /\ Last(io) = ioEnd
  <2>1. 1 \in 1..(n - d) /\ n - d \in 1..(n - d) /\ n > 0 /\ 1 + d = d + 1 /\ (n - d) + d = n
    BY <1>3, <1>5, <1>7, <1>14
  <2>2. io[1] = s[1 + d] /\ 1 + d \in 1..n /\ io[n - d] = s[(n - d) + d]
    BY <1>5, <1>6, <2>1
  <2>3. ioEnd = s[n]
    BY <1>1, <2>1 DEF Lay, IoList
  <2>4. table[s[1 + d]].prev = Nil
    BY <1>12, <2>1, <2>2
  <2> QED BY <1>7, <2>1, <2>2, <2>3, <2>4
<1> QED BY <1>7, <1>8, <1>9, <1>10, <1>11, <1>13, <1>14 DEF ListsSound, io, fr

LEMMA SoundGround ==
    ASSUME Sound
    PROVE  WorkerOnSafeGround
<1> DEFINE S == {x \in Entries : Used(x)}
           io == Chain(ioSeq)
           mine == Chain(wk.cur)
<1> SUFFICES ASSUME wk.cur # Nil, NEW e \in Range(mine), e \notin Range(io)
             PROVE  table[e].done \/ (disp.pc = "link" /\ e = disp.ent)
  BY DEF WorkerOnSafeGround
<1>0. Types /\ Lists
  BY DEF Sound
<1>1. NextOK
  BY <1>0, SoundTypeOK
<1>2. S \in SUBSET Entries /\ wk.cur \in S \cup {Nil}
  BY <1>0 DEF Sound, WorkerAt, Types, ThreadTypes, Links
<1>3. \A x \in S : table[x].next \in S \cup {Nil}
  BY <1>0, UsedClosed
<1>4. Range(mine) \subseteq S
  <2> HIDE DEF S
  <2> QED BY <1>1, <1>2, <1>3, ChainWithin
<1>5. e \in Entries /\ Used(e)
  BY <1>4
<1> HIDE DEF mine, S
<1>6. PICK s, n, m, f, k : Lay(s, n, m, f, k)
  BY <1>0 DEF Lists
<1>7. PICK d : d = Before(m)
  OBVIOUS
<1>8. n \in Nat /\ s \in [1..n -> Entries] /\ m \in 0..n /\ d \in 0..n
  BY <1>6, <1>7, LayFacts DEF Before
<1>9. PICK u : Dropped(u, s, n, d)
  BY <1>8, DropFacts
<1>10. n - d \in Nat /\ io \in Seq(Entries) /\ Len(io) = n - d /\ \A i \in 1..(n - d) : io[i] = u[i]
  BY <1>0, <1>6, <1>7, <1>9, ChainsAre
<1> HIDE DEF io
<1>11. \A i \in 1..n : i > d => i - d \in 1..(n - d) /\ u[i - d] = s[i]
  BY <1>9 DEF Dropped
<1>12. \A i \in 1..n : i > d => s[i] \in Range(io)
  <2>1. DOMAIN io = 1..(n - d)
    BY <1>10, LenProperties
  <2> QED BY <1>10, <1>11, <2>1 DEF Range
<1>13. CASE In(e, s, n)
  <2>1. PICK i \in 1..n : s[i] = e
    BY <1>13 DEF In
  <2>2. ~(i > d)
    BY <1>12, <2>1
  <2>3. i \in 1..m
    BY <1>7, <1>8, <2>2 DEF Before
  <2>4. table[e].done = TRUE
    BY <1>6, <2>1, <2>3 DEF Lay, IoList
  <2> QED BY <2>4
<1>14. CASE In(e, f, k)
  <2>1. table[e].q = Nil
    BY <1>6, <1>14 DEF Lay, FreeList, In
  <2>2. table[e].done = TRUE
    BY <1>5, <2>1 DEF Used
  <2> QED BY <2>2
<1> QED BY <1>5, <1>6, <1>13, <1>14 DEF Lay, Held

(* Sound is an invariant of the front end. *)
THEOREM SoundAlways == Spec => []Sound
<1>1. Init => Sound
  BY InitSound
<1>2. Sound /\ [Next]_vars => Sound'
  BY SoundStep
<1> QED BY <1>1, <1>2, PTL DEF Spec

(* Whatever the sizes and however far the worker falls behind, the two     *)
(* lists of the process table stay lists: no entry is lost or on both, and *)
(* what the worker can still reach from an entry that was taken back is    *)
(* finished or about to be linked (io.c, the table is used without a lock).*)
THEOREM NothingEverLost == Spec => []NothingLost
<1>1. Sound => NothingLost
  BY SoundTypeOK, SoundLists, SoundGround DEF Sound, NothingLost
<1> QED BY <1>1, SoundAlways, PTL

-----------------------------------------------------------------------------
(* Once each.                                                              *)

\* e carries command k of queue q itself, not a writeback of it.
Own(e, q, k) == table[e].q = q /\ table[e].id = k /\ table[e].wb = FALSE

AtMark(e) == wk.pc = "mark" /\ wk.cur = e

\* The dispatcher is about to queue it.
Doing(q, k) ==
    /\ disp.pc \in {"alloc", "link"} /\ disp.q = q /\ disp.id = k
    /\ disp.pc = "link" => disp.wbs > 0

Waits(q, k) == \E i \in 1..Len(deferred[q]) : deferred[q][i] = k

Owed(q, k) == k > fetched[q] \/ Waits(q, k) \/ Doing(q, k)

\* Slots the host has still to take.
Win(q, j) ==
    IF cq[q].phase = host[q].phase
    THEN host[q].head <= j /\ j < cq[q].head
    ELSE host[q].head <= j \/ j < cq[q].head

Posted(q, k) == \E j \in Slots : Win(q, j) /\ cq[q].slot[j].id = k

WaitingApart ==
    /\ \A q \in Sqs : Injective(deferred[q], Len(deferred[q]))
    /\ \A q \in Sqs, k \in Jobs : Doing(q, k) => k <= fetched[q] /\ ~Waits(q, k)

OwedUntouched ==
    \A q \in Sqs, k \in Jobs : Owed(q, k) => performed[q][k] = 0 /\ \A e \in Entries : ~Own(e, q, k)

Counts == \A q \in Sqs, k \in Jobs : performed[q][k] <= 1 /\ answered[q][k] <= performed[q][k]

OwnersExact ==
    /\ \A e \in Entries : table[e].wb = TRUE => table[e].copied = TRUE
    /\ \A q \in Sqs, k \in Jobs, e \in Entries : Own(e, q, k) =>
          /\ table[e].copied = TRUE => performed[q][k] = 1
          /\ table[e].copied = FALSE => performed[q][k] = 0
          /\ \A d \in Entries : Own(d, q, k) => d = e
          /\ table[e].done = FALSE /\ ~AtMark(e) => answered[q][k] = 0 /\ ~Posted(q, k)

RingPhases ==
    \A q \in Sqs :
        /\ cq[q].phase = host[q].phase <=> host[q].head <= cq[q].head
        /\ \A j \in Slots : cq[q].slot[j].phase = IF j < cq[q].head THEN cq[q].phase ELSE 1 - cq[q].phase

RingFresh ==
    \A q \in Sqs, j \in Slots : Win(q, j) =>
        /\ cq[q].slot[j].id \in Jobs
        /\ performed[q][cq[q].slot[j].id] = 1 /\ answered[q][cq[q].slot[j].id] = 0
        /\ \A i \in Slots : Win(q, i) /\ cq[q].slot[i].id = cq[q].slot[j].id => i = j

TagsBound == \A q \in Sqs : Len(issued[q]) - Cardinality(Answered(q)) <= QSize - 1

Once == WaitingApart /\ OwedUntouched /\ Counts /\ OwnersExact /\ RingPhases /\ RingFresh /\ TagsBound

LEMMA InitOnce == Init => Once
<1> SUFFICES ASSUME Init PROVE Once
  OBVIOUS
<1>1. Types
  BY InitTypes
<1>2. QSize \in Nat /\ QSize >= 2 /\ Slots = 0..(QSize - 1) /\ Nil \notin Sqs
  BY <1>1, HostFacts, EntryFacts DEF Types
<1>3. /\ \A q \in Sqs : deferred[q] = << >> /\ issued[q] = << >>
      /\ \A q \in Sqs, k \in Jobs : performed[q][k] = 0 /\ answered[q][k] = 0
      /\ disp.pc = "poll"
      /\ \A e \in Entries : table[e].q = Nil /\ table[e].wb = FALSE
  BY DEF Init, Jobs, Idle, FreeEntry
<1>4. \A e \in Entries, q \in Sqs, k \in Jobs : ~Own(e, q, k)
  BY <1>2, <1>3 DEF Own
<1>5. WaitingApart
  <2>1. \A q \in Sqs : Injective(deferred[q], Len(deferred[q]))
    BY <1>3 DEF Injective
  <2> QED BY <1>3, <2>1 DEF WaitingApart, Doing
<1>6. OwedUntouched /\ Counts /\ OwnersExact
  <2>1. OwedUntouched
    BY <1>3, <1>4 DEF OwedUntouched
  <2>2. Counts
    BY <1>3 DEF Counts
  <2>3. OwnersExact
    BY <1>3, <1>4 DEF OwnersExact
  <2> QED BY <2>1, <2>2, <2>3
<1>7. ASSUME NEW q \in Sqs
      PROVE  /\ cq[q].head = 0 /\ cq[q].phase = 1 /\ host[q].head = 0 /\ host[q].phase = 1
             /\ \A j \in Slots : cq[q].slot[j].phase = 0
  BY DEF Init
<1>8. RingPhases
  BY <1>2, <1>7 DEF RingPhases
<1>9. RingFresh
  <2>1. \A q \in Sqs, j \in Slots : ~Win(q, j)
    BY <1>2, <1>7 DEF Win
  <2> QED BY <2>1 DEF RingFresh
<1>10. TagsBound
  <2> SUFFICES ASSUME NEW q \in Sqs PROVE Len(issued[q]) - Cardinality(Answered(q)) <= QSize - 1
    BY DEF TagsBound
  <2>1. Answered(q) = {}
    BY <1>3 DEF Answered, Jobs
  <2>2. Cardinality(Answered(q)) = 0
    BY <2>1, FS_EmptySet
  <2>3. Len(issued[q]) = 0
    BY <1>3
  <2> QED BY <1>2, <2>2, <2>3
<1> QED BY <1>5, <1>6, <1>8, <1>9, <1>10 DEF Once

(* Steps that leave the queues, the rings and the counts alone. *)
RingKept ==
    /\ hc' = hc
    /\ \A q \in Sqs :
          /\ cq'[q].slot = cq[q].slot /\ cq'[q].head = cq[q].head /\ cq'[q].phase = cq[q].phase
          /\ host'[q].head = host[q].head /\ host'[q].phase = host[q].phase

OwnKept ==
    \A e \in Entries :
        /\ table'[e].wb = TRUE => table'[e].copied = TRUE
        /\ \A q \in Sqs, k \in Jobs : Own(e, q, k)' =>
              /\ Own(e, q, k) /\ table'[e].copied = table[e].copied
              /\ table'[e].done = FALSE /\ ~AtMark(e)' => table[e].done = FALSE /\ ~AtMark(e)

DoingKept == \A q \in Sqs, k \in Jobs : Doing(q, k)' => Doing(q, k)

LEMMA RingFrame ==
    ASSUME RingKept
    PROVE  /\ Slots' = Slots /\ QSize' = QSize
           /\ \A q \in Sqs : \A j : Win(q, j)' <=> Win(q, j)
           /\ \A q \in Sqs : \A k : Posted(q, k)' <=> Posted(q, k)
<1>1. Slots' = Slots /\ QSize' = QSize
  BY DEF RingKept, Slots, QSize
<1>2. \A q \in Sqs : \A j : Win(q, j)' <=> Win(q, j)
  BY DEF RingKept, Win
<1>3. \A q \in Sqs : \A k : Posted(q, k)' <=> Posted(q, k)
  BY <1>1, <1>2 DEF RingKept, Posted
<1> QED BY <1>1, <1>2, <1>3

LEMMA RingsFrame ==
    ASSUME RingPhases, RingFresh, RingKept, UNCHANGED <<performed, answered>>
    PROVE  RingPhases' /\ RingFresh'
<1>1. Slots' = Slots /\ \A q \in Sqs : \A j : Win(q, j)' <=> Win(q, j)
  BY RingFrame
<1>2. RingPhases'
  BY <1>1 DEF RingPhases, RingKept
<1>3. RingFresh'
  BY <1>1 DEF RingFresh, RingKept
<1> QED BY <1>2, <1>3

LEMMA OwnersFrame ==
    ASSUME OwnersExact, OwnKept, UNCHANGED <<performed, answered>>,
           \A q \in Sqs, k \in Jobs : Posted(q, k)' => Posted(q, k)
    PROVE  OwnersExact'
<1>1. \A e \in Entries : table'[e].wb = TRUE => table'[e].copied = TRUE
  BY DEF OwnKept
<1>2. ASSUME NEW q \in Sqs, NEW k \in Jobs, NEW e \in Entries, Own(e, q, k)'
      PROVE  /\ table'[e].copied = TRUE => performed'[q][k] = 1
             /\ table'[e].copied = FALSE => performed'[q][k] = 0
             /\ \A d \in Entries : Own(d, q, k)' => d = e
             /\ table'[e].done = FALSE /\ ~AtMark(e)' => answered'[q][k] = 0 /\ ~Posted(q, k)'
  <2>1. /\ Own(e, q, k) /\ table'[e].copied = table[e].copied
        /\ table'[e].done = FALSE /\ ~AtMark(e)' => table[e].done = FALSE /\ ~AtMark(e)
    BY <1>2 DEF OwnKept
  <2>2. \A d \in Entries : Own(d, q, k)' => Own(d, q, k)
    BY DEF OwnKept
  <2>3. /\ table[e].copied = TRUE => performed[q][k] = 1
        /\ table[e].copied = FALSE => performed[q][k] = 0
        /\ \A d \in Entries : Own(d, q, k) => d = e
        /\ table[e].done = FALSE /\ ~AtMark(e) => answered[q][k] = 0 /\ ~Posted(q, k)
    BY <2>1 DEF OwnersExact
  <2> QED BY <2>1, <2>2, <2>3
<1> QED BY <1>1, <1>2 DEF OwnersExact

LEMMA WaitingFrame ==
    ASSUME WaitingApart, UNCHANGED <<fetched, deferred>>, DoingKept
    PROVE  WaitingApart'
BY DEF WaitingApart, Waits, DoingKept

LEMMA OwedFrame ==
    ASSUME OwedUntouched, UNCHANGED <<fetched, deferred, performed>>, DoingKept,
           \A e \in Entries, q \in Sqs, k \in Jobs : Own(e, q, k)' => Own(e, q, k)
    PROVE  OwedUntouched'
<1> SUFFICES ASSUME NEW q \in Sqs, NEW k \in Jobs, Owed(q, k)'
             PROVE  performed'[q][k] = 0 /\ \A e \in Entries : ~Own(e, q, k)'
  BY DEF OwedUntouched
<1>1. Owed(q, k)
  BY DEF Owed, Waits, DoingKept
<1> QED BY <1>1 DEF OwedUntouched

LEMMA OnceFrame ==
    ASSUME Once, UNCHANGED <<issued, fetched, deferred, performed, answered>>,
           RingKept, OwnKept, DoingKept
    PROVE  Once'
<1>1. WaitingApart'
  BY WaitingFrame DEF Once
<1>2. OwedUntouched'
  BY OwedFrame DEF Once, OwnKept
<1>3. Counts'
  BY DEF Once, Counts
<1>4. OwnersExact'
  BY RingFrame, OwnersFrame DEF Once
<1>5. RingPhases' /\ RingFresh'
  BY RingsFrame DEF Once
<1>6. TagsBound'
  BY RingFrame DEF Once, TagsBound, Answered
<1> QED BY <1>1, <1>2, <1>3, <1>4, <1>5, <1>6 DEF Once

LEMMA QueuedDoing ==
    ASSUME ThreadTypes, disp.pc \in {"alloc", "link"}, disp' = Queued
    PROVE  DoingKept
<1> SUFFICES ASSUME NEW q \in Sqs, NEW k \in Jobs, Doing(q, k)' PROVE Doing(q, k)
  BY DEF DoingKept
<1>1. disp.wbs > 0 /\ disp' = [pc |-> "alloc", q |-> disp.q, id |-> disp.id, wbs |-> disp.wbs - 1]
  BY DEF Doing, Queued
<1>2. disp.q = q /\ disp.id = k
  BY <1>1 DEF Doing
<1> QED BY <1>1, <1>2 DEF Doing

LEMMA KeepsOwn ==
    ASSUME OwnersExact, Keeps(table', table), wk' = wk
    PROVE  OwnKept
<1> SUFFICES ASSUME NEW e \in Entries
             PROVE  /\ table'[e].wb = TRUE => table'[e].copied = TRUE
                    /\ \A q \in Sqs, k \in Jobs : Own(e, q, k)' =>
                          /\ Own(e, q, k) /\ table'[e].copied = table[e].copied
                          /\ table'[e].done = FALSE /\ ~AtMark(e)' => table[e].done = FALSE /\ ~AtMark(e)
  BY DEF OwnKept
<1>1. /\ table'[e].q = table[e].q /\ table'[e].id = table[e].id /\ table'[e].done = table[e].done
      /\ table'[e].copied = table[e].copied /\ table'[e].wb = table[e].wb
  BY DEF Keeps
<1>2. AtMark(e)' = AtMark(e)
  BY DEF AtMark
<1>3. table[e].wb = TRUE => table[e].copied = TRUE
  BY DEF OwnersExact
<1> QED BY <1>1, <1>2, <1>3 DEF Own

LEMMA WipedOwn ==
    ASSUME OwnersExact, NEW c \in Entries, WipedOnly(table', table, c), wk' = wk
    PROVE  OwnKept
<1> SUFFICES ASSUME NEW e \in Entries
             PROVE  /\ table'[e].wb = TRUE => table'[e].copied = TRUE
                    /\ \A q \in Sqs, k \in Jobs : Own(e, q, k)' =>
                          /\ Own(e, q, k) /\ table'[e].copied = table[e].copied
                          /\ table'[e].done = FALSE /\ ~AtMark(e)' => table[e].done = FALSE /\ ~AtMark(e)
  BY DEF OwnKept
<1>1. CASE e = c
  <2>1. table'[e].q = Nil /\ table'[e].wb = FALSE
    BY <1>1 DEF WipedOnly
  <2> QED BY <2>1, EntryFacts DEF Own
<1>2. CASE e # c
  <2>1. table'[e] = table[e]
    BY <1>2 DEF WipedOnly
  <2>2. AtMark(e)' = AtMark(e)
    BY DEF AtMark
  <2>3. table[e].wb = TRUE => table[e].copied = TRUE
    BY DEF OwnersExact
  <2> QED BY <2>1, <2>2, <2>3 DEF Own
<1> QED BY <1>1, <1>2

(* A step that keeps the rings and the queues. *)
LEMMA StillRing ==
    ASSUME UNCHANGED <<queues, hist, cq, host>>
    PROVE  RingKept /\ UNCHANGED <<issued, fetched, deferred, performed, answered>>
BY DEF RingKept, queues, hist

LEMMA DispatcherOnce ==
    ASSUME Sound, Once, WalkBack \/ Link \/ Scan \/ Unlink \/ Free
    PROVE  Once'
<1>1. UNCHANGED <<queues, hist, cq, host, wk>>
  BY DEF WalkBack, Link, Scan, Unlink, Free
<1>2. RingKept /\ UNCHANGED <<issued, fetched, deferred, performed, answered>>
  BY <1>1, StillRing
<1>3. DoingKept
  <2>1. CASE WalkBack
    <3>1. disp \in [pc : {"link"}, q : Sqs, id : Jobs, wbs : Nat, ent : Entries, at : Links]
      BY <2>1 DEF WalkBack, Sound, Types, ThreadTypes, DispTypes
    <3>2. disp' = [disp EXCEPT !.at = table[disp.at].prev]
      BY <2>1 DEF WalkBack
    <3>3. disp'.pc = disp.pc /\ disp'.q = disp.q /\ disp'.id = disp.id /\ disp'.wbs = disp.wbs
      BY <3>1, <3>2
    <3> QED BY <3>3 DEF DoingKept, Doing
  <2>2. CASE Link
    BY <2>2, QueuedDoing DEF Link, Sound, Types
  <2>3. CASE Scan
    <3>1. disp \in [pc : {"reclaim"}, last : Links] /\ disp' = [disp EXCEPT !.last = Candidate]
      BY <2>3 DEF Scan, Sound, Types, ThreadTypes, DispTypes
    <3>2. disp'.pc = "reclaim"
      BY <3>1
    <3> QED BY <3>2 DEF DoingKept, Doing
  <2>4. CASE Unlink
    <3>1. disp'.pc \in {"poll", "free"}
      BY <2>4 DEF Unlink, Idle
    <3> QED BY <3>1 DEF DoingKept, Doing
  <2>5. CASE Free
    <3>1. disp'.pc = "poll"
      BY <2>5 DEF Free, Idle
    <3> QED BY <3>1 DEF DoingKept, Doing
  <2> QED BY <2>1, <2>2, <2>3, <2>4, <2>5
<1>4. OwnKept
  <2>1. CASE WalkBack
    <3>1. Keeps(table', table)
      BY <2>1 DEF WalkBack, Keeps
    <3> QED BY <1>1, <3>1, KeepsOwn DEF Once
  <2>2. CASE Link \/ Unlink \/ Free
    <3>1. Keeps(table', table)
      BY <2>2, LinkSound, UnlinkSound, FreeSound
    <3> QED BY <1>1, <3>1, KeepsOwn DEF Once
  <2>3. CASE Scan
    <3>1. PICK c \in Entries : WipedOnly(table', table, c)
      BY <2>3, ScanSound
    <3> QED BY <1>1, <3>1, WipedOwn DEF Once
  <2> QED BY <2>1, <2>2, <2>3
<1> QED BY <1>2, <1>3, <1>4, OnceFrame

(* The worker on its way. *)
LEMMA WorkerOnce ==
    ASSUME Sound, Once, StartPass \/ Skip \/ Release \/ Advance \/ SignalIrq
    PROVE  Once'
<1>1. UNCHANGED <<queues, hist, table, disp>>
  BY DEF StartPass, Skip, Release, Advance, SignalIrq
<1>2. RingKept
  <2>1. CASE SignalIrq
    <3>1. hc' = hc
      BY <1>1 DEF queues
    <3>2. ASSUME NEW q \in Sqs
          PROVE  /\ cq'[q].slot = cq[q].slot /\ cq'[q].head = cq[q].head /\ cq'[q].phase = cq[q].phase
                 /\ host'[q].head = host[q].head /\ host'[q].phase = host[q].phase
      <4>1. cq[q] \in Completions /\ host[q] \in [head : Slots, phase : {0, 1}, irq : BOOLEAN]
        BY DEF Sound, Types, RingTypes
      <4>2. cq'[q] = [cq[q] EXCEPT !.ready = FALSE]
        BY <2>1 DEF SignalIrq
      <4>3. host'[q] = [host[q] EXCEPT !.irq = host[q].irq \/ cq[q].ready]
        BY <2>1 DEF SignalIrq
      <4>4. cq'[q].slot = cq[q].slot /\ cq'[q].head = cq[q].head /\ cq'[q].phase = cq[q].phase
        BY <4>1, <4>2 DEF Completions
      <4>5. host'[q].head = host[q].head /\ host'[q].phase = host[q].phase
        <5>1. PICK b : b = (host[q].irq \/ cq[q].ready)
          OBVIOUS
        <5>2. host'[q] = [host[q] EXCEPT !.irq = b]
          BY <4>3, <5>1
        <5> QED BY <4>1, <5>2
      <4> QED BY <4>4, <4>5
    <3> QED BY <3>1, <3>2 DEF RingKept
  <2>2. CASE UNCHANGED <<cq, host>>
    BY <1>1, <2>2 DEF RingKept, queues
  <2> QED BY <2>1, <2>2 DEF StartPass, Skip, Release, Advance
<1>3. DoingKept
  BY <1>1 DEF DoingKept, Doing
<1>4. OwnKept
  <2>1. wk.pc # "mark"
    BY DEF StartPass, Skip, Release, Advance, SignalIrq
  <2>2. \A e : ~AtMark(e)
    BY <2>1 DEF AtMark
  <2>3. \A e \in Entries : table[e].wb = TRUE => table[e].copied = TRUE
    BY DEF Once, OwnersExact
  <2> QED BY <1>1, <2>2, <2>3 DEF OwnKept, Own
<1> QED BY <1>1, <1>2, <1>3, <1>4, OnceFrame DEF queues, hist

LEMMA MarkOnce ==
    ASSUME Sound, Once, Mark
    PROVE  Once'
<1>1. UNCHANGED <<queues, hist, cq, host, disp>> /\ wk' = [wk EXCEPT !.pc = "next"] /\ wk.pc = "mark"
      /\ table' = SetDone(table, wk.cur)
  BY DEF Mark, SetDone
<1>2. RingKept /\ UNCHANGED <<issued, fetched, deferred, performed, answered>>
  BY <1>1, StillRing
<1>3. DoingKept
  BY <1>1 DEF DoingKept, Doing
<1>4. wk.cur \in Entries /\ table \in Tables
  BY <1>1, HereFacts DEF Sound, Types, TableTypes, Tables
<1>5. \A e \in Entries :
         /\ table'[e].q = table[e].q /\ table'[e].id = table[e].id
         /\ table'[e].copied = table[e].copied /\ table'[e].wb = table[e].wb
         /\ (e = wk.cur => table'[e].done = TRUE) /\ (e # wk.cur => table'[e].done = table[e].done)
  <2> DEFINE a == wk.cur
             t == SetDone(table, a)
  <2>1. table \in Tables /\ a \in Entries
    BY <1>4
  <2>2. table' = t
    BY <1>1
  <2> HIDE DEF a
  <2>3. \A e \in Entries :
           /\ t[e].q = table[e].q /\ t[e].id = table[e].id
           /\ t[e].copied = table[e].copied /\ t[e].wb = table[e].wb
           /\ (e = a => t[e].done = TRUE) /\ (e # a => t[e].done = table[e].done)
    BY <2>1, DoneFacts
  <2> HIDE DEF t
  <2> QED BY <2>2, <2>3 DEF a
<1>6. OwnKept
  <2> SUFFICES ASSUME NEW e \in Entries
               PROVE  /\ table'[e].wb = TRUE => table'[e].copied = TRUE
                      /\ \A q \in Sqs, k \in Jobs : Own(e, q, k)' =>
                            /\ Own(e, q, k) /\ table'[e].copied = table[e].copied
                            /\ table'[e].done = FALSE /\ ~AtMark(e)' => table[e].done = FALSE /\ ~AtMark(e)
    BY DEF OwnKept
  <2>1. /\ table'[e].q = table[e].q /\ table'[e].id = table[e].id
        /\ table'[e].copied = table[e].copied /\ table'[e].wb = table[e].wb
    BY <1>5
  <2>2. table'[e].done = FALSE => table[e].done = FALSE /\ ~AtMark(e)
    BY <1>5 DEF AtMark
  <2>3. table[e].wb = TRUE => table[e].copied = TRUE
    BY DEF Once, OwnersExact
  <2> QED BY <2>1, <2>2, <2>3 DEF Own
<1> QED BY <1>2, <1>3, <1>6, OnceFrame

LEMMA AnsweredFinite ==
    ASSUME NEW q \in Sqs
    PROVE  IsFiniteSet(Answered(q)) /\ Cardinality(Answered(q)) \in Nat /\ Answered(q) \subseteq Jobs
<1>1. Answered(q) \subseteq Jobs
  BY DEF Answered, Jobs
<1>2. IsFiniteSet(Jobs)
  BY ConstFacts, FS_Interval DEF Jobs
<1> QED BY <1>1, <1>2, FS_Subset, FS_CardinalityType

(* Queues: what is owed after the step was owed before. *)
LEMMA OnceQueues ==
    ASSUME Once, UNCHANGED <<hc, issued, table, wk, cq, host, hist>>, WaitingApart',
           \A q \in Sqs, k \in Jobs : Owed(q, k)' => Owed(q, k)
    PROVE  Once'
<1>1. RingKept /\ UNCHANGED <<performed, answered>>
  BY DEF RingKept, hist
<1>2. \A e : \A q \in Sqs, k \in Jobs : Own(e, q, k)' = Own(e, q, k)
  BY DEF Own
<1>3. OwedUntouched'
  BY <1>1, <1>2 DEF Once, OwedUntouched
<1>4. Counts'
  BY <1>1 DEF Once, Counts
<1>5. OwnersExact'
  <2>1. Keeps(table', table)
    BY DEF Keeps
  <2>2. OwnKept
    BY <2>1, KeepsOwn DEF Once
  <2> QED BY <1>1, <2>2, RingFrame, OwnersFrame DEF Once
<1>6. RingPhases' /\ RingFresh'
  BY <1>1, RingsFrame DEF Once
<1>7. TagsBound'
  BY <1>1, RingFrame DEF Once, TagsBound, Answered
<1> QED BY <1>3, <1>4, <1>5, <1>6, <1>7 DEF Once

LEMMA IssueOnce ==
    ASSUME Sound, Once, NEW q \in Sqs, NEW c \in Cmds, Issue(q, c)
    PROVE  Once'
<1>1. UNCHANGED <<hc, fetched, deferred, table, disp, wk, cq, host, hist>>
  BY DEF Issue
<1>2. RingKept /\ UNCHANGED <<performed, answered>>
  BY <1>1 DEF RingKept, hist
<1>3. DoingKept
  BY <1>1 DEF DoingKept, Doing
<1>4. OwnKept
  <2>1. Keeps(table', table)
    BY <1>1 DEF Keeps
  <2> QED BY <1>1, <2>1, KeepsOwn DEF Once
<1>5. WaitingApart'
  BY <1>1, <1>3, WaitingFrame DEF Once
<1>6. OwedUntouched'
  BY <1>1, <1>2, <1>3, <1>4, OwedFrame DEF Once, OwnKept
<1>7. Counts'
  BY <1>2 DEF Once, Counts
<1>8. OwnersExact'
  BY <1>2, <1>4, RingFrame, OwnersFrame DEF Once
<1>9. RingPhases' /\ RingFresh'
  BY <1>2, RingsFrame DEF Once
<1>10. TagsBound'
  <2> SUFFICES ASSUME NEW p \in Sqs PROVE Len(issued'[p]) - Cardinality(Answered(p)) <= QSize - 1
    BY <1>2, RingFrame DEF TagsBound, Answered
  <2>1. issued' = [issued EXCEPT ![q] = Append(issued[q], c)]
    BY DEF Issue
  <2>2. issued \in [Sqs -> Seq(Reads \cup Writes)] /\ QSize \in Nat /\ c \in Reads \cup Writes
    BY HostFacts DEF Sound, Types, QueueTypes, Cmds
  <2>3. CASE p = q
    <3>1. issued'[p] = Append(issued[q], c) /\ issued[q] \in Seq(Reads \cup Writes)
      BY <2>1, <2>2, <2>3
    <3>2. Len(issued'[p]) = Len(issued[q]) + 1 /\ Len(issued[q]) \in Nat
      BY <2>2, <3>1
    <3>3. Len(issued[q]) - Cardinality(Answered(q)) < QSize - 1 /\ Cardinality(Answered(q)) \in Nat
      BY AnsweredFinite DEF Issue
    <3> QED BY <2>2, <2>3, <3>2, <3>3
  <2>4. CASE p # q
    <3>1. issued'[p] = issued[p]
      BY <2>1, <2>2, <2>4
    <3> QED BY <3>1 DEF Once, TagsBound
  <2> QED BY <2>3, <2>4
<1> QED BY <1>5, <1>6, <1>7, <1>8, <1>9, <1>10 DEF Once

LEMMA ProcIoSqOnce ==
    ASSUME Sound, Once, NEW q \in Sqs, ProcIoSq(q)
    PROVE  Once'
<1>1. PICK x : x = fetched[q] + 1
  OBVIOUS
<1>2. /\ UNCHANGED <<hc, issued, table, wk, cq, host, hist>> /\ disp.pc = "poll"
      /\ fetched' = [fetched EXCEPT ![q] = x]
      /\ \/ /\ deferred' = deferred /\ disp'.pc = "alloc" /\ disp'.q = q /\ disp'.id = x
         \/ /\ deferred' = [deferred EXCEPT ![q] = Append(deferred[q], x)] /\ disp' = disp
  BY <1>1 DEF ProcIoSq, Accept
<1>3. /\ fetched \in [Sqs -> Nat] /\ fetched[q] \in Nat /\ x \in Nat /\ x > fetched[q]
      /\ deferred \in [Sqs -> Seq(Nat)]
      /\ \A p \in Sqs : /\ deferred[p] \in Seq(Nat) /\ Len(deferred[p]) \in Nat
                        /\ \A i \in 1..Len(deferred[p]) : deferred[p][i] \in 1..fetched[p]
  BY <1>1 DEF Sound, Types, QueueTypes
<1>4. \A p \in Sqs : /\ fetched'[p] = IF p = q THEN x ELSE fetched[p]
                     /\ fetched[p] \in Nat /\ fetched[p] <= fetched'[p]
  BY <1>2, <1>3
<1>5. \A p \in Sqs, k \in Jobs : Doing(p, k)' => p = q /\ k = x /\ deferred' = deferred
  BY <1>2 DEF Doing
<1>6. ~Waits(q, x)
  <2> SUFFICES ASSUME NEW i \in 1..Len(deferred[q]), deferred[q][i] = x PROVE FALSE
    BY DEF Waits
  <2>1. x \in 1..fetched[q]
    BY <1>3
  <2> QED BY <1>3, <2>1
<1>7. ASSUME NEW p \in Sqs
      PROVE  /\ Injective(deferred'[p], Len(deferred'[p]))
             /\ \A k : Waits(p, k)' => Waits(p, k) \/ (p = q /\ k = x)
  <2>1. CASE deferred'[p] = deferred[p]
    BY <2>1 DEF Once, WaitingApart, Waits
  <2>2. CASE deferred'[p] # deferred[p]
    <3>1. p = q /\ deferred'[p] = Append(deferred[q], x)
      BY <1>2, <1>3, <2>2
    <3>2. PICK d, l : d = deferred[q] /\ l = Len(d)
      OBVIOUS
    <3>3. d \in Seq(Nat) /\ l \in Nat /\ Injective(d, l) /\ deferred'[p] = Append(d, x) /\ l = Len(d)
      BY <1>3, <3>1, <3>2 DEF Once, WaitingApart
    <3>4. Len(Append(d, x)) = l + 1 /\ (\A i \in 1..l : Append(d, x)[i] = d[i]) /\ Append(d, x)[l + 1] = x
      BY <1>3, <3>3
    <3>5. \A i \in 1..l : d[i] # x
      BY <1>6, <3>2 DEF Waits
    <3>6. Injective(Append(d, x), l + 1)
      <4> SUFFICES ASSUME NEW i \in 1..(l + 1), NEW j \in 1..(l + 1), Append(d, x)[i] = Append(d, x)[j]
                   PROVE  i = j
        BY DEF Injective
      <4>1. (i \in 1..l \/ i = l + 1) /\ (j \in 1..l \/ j = l + 1)
        BY <3>3
      <4> QED BY <3>3, <3>4, <3>5, <4>1 DEF Injective
    <3>7. ASSUME NEW k, Waits(p, k)' PROVE Waits(p, k) \/ k = x
      <4>1. PICK i \in 1..(l + 1) : Append(d, x)[i] = k
        BY <3>3, <3>4, <3>7 DEF Waits
      <4>2. i \in 1..l \/ i = l + 1
        BY <3>3
      <4> QED BY <3>1, <3>2, <3>4, <4>1, <4>2 DEF Waits
    <3> QED BY <3>1, <3>3, <3>4, <3>6, <3>7
  <2> QED BY <2>1, <2>2
<1>8. WaitingApart'
  <2>1. ASSUME NEW p \in Sqs, NEW k \in Jobs, Doing(p, k)' PROVE k <= fetched'[p] /\ ~Waits(p, k)'
    <3>1. p = q /\ k = x /\ deferred' = deferred
      BY <1>5, <2>1
    <3>2. Waits(p, k)' = Waits(p, k)
      BY <3>1 DEF Waits
    <3> QED BY <1>3, <1>4, <1>6, <3>1, <3>2
  <2> QED BY <1>7, <2>1 DEF WaitingApart
<1>9. ASSUME NEW p \in Sqs, NEW k \in Jobs, Owed(p, k)' PROVE Owed(p, k)
  <2>0. k \in Nat
    BY ConstFacts DEF Jobs
  <2>1. CASE k > fetched'[p]
    <3>1. fetched'[p] \in Nat /\ fetched[p] \in Nat /\ fetched[p] <= fetched'[p]
      BY <1>3, <1>4
    <3>2. k > fetched[p]
      BY <2>0, <2>1, <3>1
    <3> QED BY <3>2 DEF Owed
  <2>2. CASE Waits(p, k)' \/ Doing(p, k)'
    <3>1. Waits(p, k) \/ (p = q /\ k = x)
      BY <1>5, <1>7, <2>2
    <3> QED BY <1>3, <3>1 DEF Owed
  <2> QED BY <1>9, <2>1, <2>2 DEF Owed
<1> QED BY <1>2, <1>8, <1>9, OnceQueues

LEMMA ProcIoDqOnce ==
    ASSUME Sound, Once, NEW q \in Sqs, ProcIoDq(q)
    PROVE  Once'
<1>1. PICK d, l, x : d = deferred[q] /\ l = Len(d) /\ x = Head(d)
  OBVIOUS
<1>2. /\ UNCHANGED <<hc, issued, fetched, table, wk, cq, host, hist>> /\ disp.pc = "poll" /\ d # << >>
      /\ deferred' = [deferred EXCEPT ![q] = Tail(d)]
      /\ disp'.pc = "alloc" /\ disp'.q = q /\ disp'.id = x
  BY <1>1 DEF ProcIoDq, Accept
<1>3. /\ deferred \in [Sqs -> Seq(Nat)] /\ d \in Seq(Nat) /\ l \in Nat /\ l = Len(d)
      /\ Injective(d, l) /\ \A i \in 1..l : d[i] \in 1..fetched[q]
  BY <1>1 DEF Sound, Types, QueueTypes, Once, WaitingApart
<1>4. x = d[1] /\ 1 \in 1..l /\ l - 1 \in Nat
  BY <1>1, <1>2, <1>3
<1>5. /\ Tail(d) \in Seq(Nat) /\ Len(Tail(d)) = l - 1
      /\ \A i \in 1..(l - 1) : Tail(d)[i] = d[i + 1] /\ i + 1 \in 1..l
  BY <1>2, <1>3, HeadTailProperties
<1>6. Waits(q, x) /\ x <= fetched[q]
  BY <1>1, <1>3, <1>4 DEF Waits
<1>7. ASSUME NEW p \in Sqs
      PROVE  /\ Injective(deferred'[p], Len(deferred'[p]))
             /\ \A k : Waits(p, k)' => Waits(p, k) /\ ~(p = q /\ k = x)
  <2>1. CASE p # q
    <3>1. deferred'[p] = deferred[p]
      BY <1>2, <1>3, <2>1
    <3> QED BY <2>1, <3>1 DEF Once, WaitingApart, Waits
  <2>2. CASE p = q
    <3>1. deferred'[p] = Tail(d)
      BY <1>2, <1>3, <2>2
    <3>2. Injective(Tail(d), l - 1)
      <4> SUFFICES ASSUME NEW i \in 1..(l - 1), NEW j \in 1..(l - 1), Tail(d)[i] = Tail(d)[j]
                   PROVE  i = j
        BY DEF Injective
      <4>1. i + 1 = j + 1
        BY <1>3, <1>5 DEF Injective
      <4> QED BY <4>1
    <3>3. ASSUME NEW k, Waits(p, k)' PROVE Waits(p, k) /\ k # x
      <4>1. PICK i \in 1..(l - 1) : Tail(d)[i] = k
        BY <1>5, <3>1, <3>3 DEF Waits
      <4>2. d[i + 1] = k /\ i + 1 \in 1..l /\ i + 1 # 1
        BY <1>5, <4>1
      <4>3. k # x
        BY <1>3, <1>4, <4>2 DEF Injective
      <4> QED BY <1>1, <2>2, <4>2, <4>3 DEF Waits
    <3> QED BY <1>5, <2>2, <3>1, <3>2, <3>3
  <2> QED BY <2>1, <2>2
<1>8. \A p \in Sqs, k \in Jobs : Doing(p, k)' => p = q /\ k = x
  BY <1>2 DEF Doing
<1>9. WaitingApart'
  <2>1. fetched' = fetched
    BY <1>2
  <2> QED BY <1>6, <1>7, <1>8, <2>1 DEF WaitingApart
<1>10. ASSUME NEW p \in Sqs, NEW k \in Jobs, Owed(p, k)' PROVE Owed(p, k)
  <2>1. CASE k > fetched'[p]
    BY <1>2, <2>1 DEF Owed
  <2>2. CASE Waits(p, k)'
    BY <1>7, <2>2 DEF Owed
  <2>3. CASE Doing(p, k)'
    BY <1>6, <1>8, <2>3 DEF Owed
  <2> QED BY <1>10, <2>1, <2>2, <2>3 DEF Owed
<1> QED BY <1>2, <1>9, <1>10, OnceQueues

(* Filling an entry. *)
LEMMA FillFacts ==
    ASSUME Sound, Enqueue, table[freeSeq].next # Nil
    PROVE  /\ freeSeq \in Entries /\ disp.q \in Sqs /\ disp.id \in Jobs /\ disp.wbs \in Nat
           /\ disp'.pc = "link" /\ disp'.q = disp.q /\ disp'.id = disp.id /\ disp'.wbs = disp.wbs
           /\ \A e \in Entries : e # freeSeq => table'[e] = table[e]
           /\ table'[freeSeq].q = disp.q /\ table'[freeSeq].id = disp.id /\ table'[freeSeq].done = FALSE
           /\ disp.wbs > 0 => table'[freeSeq].copied = TRUE /\ table'[freeSeq].wb = TRUE
           /\ ~(disp.wbs > 0) => table'[freeSeq].copied = FALSE /\ table'[freeSeq].wb = FALSE
<1>1. disp.pc = "alloc" /\ disp.q \in Sqs /\ disp.id \in Jobs /\ disp.wbs \in Nat
  BY DEF Enqueue, Sound, Types, ThreadTypes, DispTypes
<1>2. freeSeq \in Entries /\ table \in [Entries -> EntryOf]
  BY DEF Sound, Types, TableTypes
<1>3. disp' = [pc |-> "link", q |-> disp.q, id |-> disp.id, wbs |-> disp.wbs, ent |-> freeSeq, at |-> ioEnd]
  BY DEF Enqueue
<1>4. PICK b \in BOOLEAN : (b = TRUE <=> disp.wbs > 0) /\ b = (disp.wbs > 0)
  <2>1. CASE disp.wbs > 0
    <3>1. (disp.wbs > 0) = TRUE
      BY <2>1
    <3> QED BY <2>1, <3>1
  <2>2. CASE ~(disp.wbs > 0)
    <3>1. (disp.wbs > 0) = FALSE
      BY <1>1, <2>2
    <3> QED BY <2>2, <3>1
  <2> QED BY <2>1, <2>2
<1>5. PICK t \in now..MaxTime :
         table' = [table EXCEPT ![freeSeq] =
                  [q |-> disp.q, id |-> disp.id, target |-> t, done |-> FALSE,
                   copied |-> b, wb |-> b, next |-> Nil, prev |-> Nil]]
  BY <1>4 DEF Enqueue
<1> DEFINE x == [q |-> disp.q, id |-> disp.id, target |-> t, done |-> FALSE,
                 copied |-> b, wb |-> b, next |-> Nil, prev |-> Nil]
<1>6. x.q = disp.q /\ x.id = disp.id /\ x.done = FALSE /\ x.copied = b /\ x.wb = b
  OBVIOUS
<1>7. table' = [table EXCEPT ![freeSeq] = x]
  BY <1>5
<1> HIDE DEF x
<1>8. table'[freeSeq] = x /\ \A e \in Entries : e # freeSeq => table'[e] = table[e]
  BY <1>2, <1>7
<1>9. disp'.pc = "link" /\ disp'.q = disp.q /\ disp'.id = disp.id /\ disp'.wbs = disp.wbs
  BY <1>3
<1>10. table'[freeSeq].q = disp.q /\ table'[freeSeq].id = disp.id /\ table'[freeSeq].done = FALSE
       /\ table'[freeSeq].copied = b /\ table'[freeSeq].wb = b
  BY <1>6, <1>8
<1>11. disp.wbs > 0 => b = TRUE
  BY <1>4
<1>12. ~(disp.wbs > 0) => b = FALSE
  BY <1>4
<1> QED BY <1>1, <1>2, <1>8, <1>9, <1>10, <1>11, <1>12

LEMMA EnqueueOnce ==
    ASSUME Sound, Once, Enqueue
    PROVE  Once'
<1>1. UNCHANGED <<queues, hist, cq, host, wk>> /\ disp.pc = "alloc"
  BY DEF Enqueue
<1>2. RingKept /\ UNCHANGED <<issued, fetched, deferred, performed, answered>>
  BY <1>1, StillRing
<1>3. CASE table[freeSeq].next = Nil
  <2>1. disp' = Queued /\ table' = table
    BY <1>3 DEF Enqueue
  <2>2. DoingKept
    BY <1>1, <2>1, QueuedDoing DEF Sound, Types
  <2>3. Keeps(table', table)
    BY <2>1 DEF Keeps
  <2>4. OwnKept
    BY <1>1, <2>3, KeepsOwn DEF Once
  <2> QED BY <1>2, <2>2, <2>4, OnceFrame
<1>4. CASE table[freeSeq].next # Nil
  <2>1. PICK x, p, i, w : x = freeSeq /\ p = disp.q /\ i = disp.id /\ w = disp.wbs
    OBVIOUS
  <2>2. /\ x \in Entries /\ p \in Sqs /\ i \in Jobs /\ w \in Nat
        /\ disp'.pc = "link" /\ disp'.q = p /\ disp'.id = i /\ disp'.wbs = w
        /\ \A e \in Entries : e # x => table'[e] = table[e]
        /\ table'[x].q = p /\ table'[x].id = i
        /\ w > 0 => table'[x].copied = TRUE /\ table'[x].wb = TRUE
        /\ ~(w > 0) => table'[x].copied = FALSE /\ table'[x].wb = FALSE
    BY <1>4, <2>1, FillFacts
  <2>3. \A e : AtMark(e)' = AtMark(e)
    BY <1>1 DEF AtMark
  <2>4. \A e \in Entries : table[e].wb = TRUE => table[e].copied = TRUE
    BY DEF Once, OwnersExact
  <2>5. DoingKept
    BY <1>1, <2>1, <2>2 DEF DoingKept, Doing
  <2>6. \A e \in Entries, q \in Sqs, k \in Jobs : e # x => Own(e, q, k)' = Own(e, q, k)
    BY <2>2 DEF Own
  <2>7. CASE w > 0
    <3>1. \A q \in Sqs, k \in Jobs : ~Own(x, q, k)'
      BY <2>2, <2>7 DEF Own
    <3>2. OwnKept
      <4> SUFFICES ASSUME NEW e \in Entries
                   PROVE  /\ table'[e].wb = TRUE => table'[e].copied = TRUE
                          /\ \A q \in Sqs, k \in Jobs : Own(e, q, k)' =>
                                /\ Own(e, q, k) /\ table'[e].copied = table[e].copied
                                /\ table'[e].done = FALSE /\ ~AtMark(e)' => table[e].done = FALSE /\ ~AtMark(e)
        BY DEF OwnKept
      <4>1. CASE e = x
        BY <2>2, <2>7, <3>1, <4>1
      <4>2. CASE e # x
        BY <2>2, <2>3, <2>4, <2>6, <4>2
      <4> QED BY <4>1, <4>2
    <3> QED BY <1>2, <2>5, <3>2, OnceFrame
  <2>8. CASE ~(w > 0)
    <3>1. \A q \in Sqs, k \in Jobs : ~Doing(q, k)'
      BY <2>2, <2>8 DEF Doing
    <3>2. Doing(p, i)
      BY <1>1, <2>1 DEF Doing
    <3>3. /\ performed[p][i] = 0 /\ (\A e \in Entries : ~Own(e, p, i))
          /\ i <= fetched[p] /\ ~Waits(p, i)
      <4>1. Owed(p, i)
        BY <3>2 DEF Owed
      <4> QED BY <2>2, <3>2, <4>1 DEF Once, OwedUntouched, WaitingApart
    <3>4. answered[p][i] = 0 /\ ~Posted(p, i)
      <4>1. answered[p][i] \in Nat /\ answered[p][i] <= performed[p][i]
        BY <2>2 DEF Once, Counts, Sound, Types, RingTypes
      <4>2. ~Posted(p, i)
        BY <2>2, <3>3 DEF Posted, Once, RingFresh
      <4> QED BY <3>3, <4>1, <4>2
    <3>5. \A q \in Sqs, k \in Jobs : Own(x, q, k)' => q = p /\ k = i
      BY <2>2 DEF Own
    <3>6. WaitingApart'
      BY <1>2, <2>5, WaitingFrame DEF Once
    <3>7. OwedUntouched'
      <4> SUFFICES ASSUME NEW q \in Sqs, NEW k \in Jobs, Owed(q, k)'
                   PROVE  performed'[q][k] = 0 /\ \A e \in Entries : ~Own(e, q, k)'
        BY DEF OwedUntouched
      <4>1. k > fetched[q] \/ Waits(q, k)
        BY <1>2, <3>1 DEF Owed, Waits
      <4>2. Owed(q, k)
        BY <4>1 DEF Owed
      <4>3. ~(q = p /\ k = i)
        <5>1. k \in Nat /\ fetched[q] \in Nat
          BY ConstFacts DEF Sound, Types, QueueTypes, Jobs
        <5> QED BY <3>3, <4>1, <5>1
      <4>4. performed[q][k] = 0 /\ \A e \in Entries : ~Own(e, q, k)
        BY <4>2 DEF Once, OwedUntouched
      <4> QED BY <1>2, <2>6, <3>5, <4>3, <4>4
    <3>8. Counts'
      BY <1>2 DEF Once, Counts
    <3>9. \A q \in Sqs, k \in Jobs : Posted(q, k)' <=> Posted(q, k)
      BY <1>2, RingFrame
    <3>10. OwnersExact'
      <4>1. \A e \in Entries : table'[e].wb = TRUE => table'[e].copied = TRUE
        BY <2>2, <2>4, <2>8
      <4>2. ASSUME NEW q \in Sqs, NEW k \in Jobs, NEW e \in Entries, Own(e, q, k)'
            PROVE  /\ table'[e].copied = TRUE => performed'[q][k] = 1
                   /\ table'[e].copied = FALSE => performed'[q][k] = 0
                   /\ \A d \in Entries : Own(d, q, k)' => d = e
                   /\ table'[e].done = FALSE /\ ~AtMark(e)' => answered'[q][k] = 0 /\ ~Posted(q, k)'
        <5>1. CASE e = x
          <6>1. q = p /\ k = i
            BY <3>5, <4>2, <5>1
          <6>2. \A d \in Entries : Own(d, q, k)' => d = e
            BY <2>6, <3>3, <5>1, <6>1
          <6>3. table'[e].copied = FALSE
            BY <2>2, <2>8, <5>1
          <6> QED BY <1>2, <3>3, <3>4, <3>9, <6>1, <6>2, <6>3
        <5>2. CASE e # x
          <6>1. Own(e, q, k) /\ table'[e] = table[e]
            BY <2>2, <2>6, <4>2, <5>2
          <6>2. ~(q = p /\ k = i)
            BY <3>3, <6>1
          <6>3. /\ table[e].copied = TRUE => performed[q][k] = 1
                /\ table[e].copied = FALSE => performed[q][k] = 0
                /\ \A d \in Entries : Own(d, q, k) => d = e
                /\ table[e].done = FALSE /\ ~AtMark(e) => answered[q][k] = 0 /\ ~Posted(q, k)
            BY <6>1 DEF Once, OwnersExact
          <6>4. \A d \in Entries : Own(d, q, k)' => d = e
            BY <2>6, <3>5, <6>2, <6>3
          <6> QED BY <1>2, <2>3, <3>9, <6>1, <6>3, <6>4
        <5> QED BY <5>1, <5>2
      <4> QED BY <4>1, <4>2 DEF OwnersExact
    <3>11. RingPhases' /\ RingFresh'
      BY <1>2, RingsFrame DEF Once
    <3>12. TagsBound'
      BY <1>2, RingFrame DEF Once, TagsBound, Answered
    <3> QED BY <3>6, <3>7, <3>8, <3>10, <3>11, <3>12 DEF Once
  <2> QED BY <2>7, <2>8
<1> QED BY <1>3, <1>4

(* The worker moves the data of command i of queue p, which e carries. *)
Moved(e, p, i) ==
    /\ e \in Entries /\ p \in Sqs /\ i \in Jobs /\ Own(e, p, i) /\ table[e].done = FALSE
    /\ \A d \in Entries :
          /\ table'[d].q = table[d].q /\ table'[d].id = table[d].id
          /\ table'[d].wb = table[d].wb /\ table'[d].done = table[d].done
          /\ d # e => table'[d].copied = table[d].copied
    /\ table'[e].copied = TRUE
    /\ performed'[p][i] = 1
    /\ \A q \in Sqs, k \in Jobs : (q # p \/ k # i) => performed'[q][k] = performed[q][k]

LEMMA PerformMoves ==
    ASSUME Sound, Once, wk.pc = "visit", ~Here.done, Perform, UNCHANGED <<lists, disp>>, Here.wb = FALSE
    PROVE  Moved(wk.cur, Here.q, Here.id)
<1>1. PICK e, p, i : e = wk.cur /\ p = Here.q /\ i = Here.id
  OBVIOUS
<1>2. /\ e \in Entries /\ Here = table[e] /\ p \in Sqs /\ i \in Jobs /\ table[e].done = FALSE
      /\ \A d \in Entries :
            /\ table'[d].q = table[d].q /\ table'[d].id = table[d].id /\ table'[d].wb = table[d].wb
            /\ table'[d].done = table[d].done
            /\ (d = e => table'[d].copied = TRUE) /\ (d # e => table'[d].copied = table[d].copied)
  BY <1>1, PerformStep
<1>3. Own(e, p, i)
  BY <1>1, <1>2 DEF Own
<1>4. /\ table[e].copied = TRUE => performed[p][i] = 1
      /\ table[e].copied = FALSE => performed[p][i] = 0
  BY <1>2, <1>3 DEF Once, OwnersExact
<1>5. table[e].copied \in BOOLEAN /\ performed \in [Sqs -> [Jobs -> Nat]]
  BY <1>2, FieldFacts DEF Sound, Types, RingTypes
<1>6. CASE table[e].copied = TRUE
  <2>1. performed' = performed
    BY <1>2, <1>6 DEF Perform
  <2> QED BY <1>1, <1>2, <1>3, <1>4, <1>6, <2>1 DEF Moved
<1>7. CASE table[e].copied = FALSE
  <2>1. performed' = [performed EXCEPT ![p][i] = performed[p][i] + 1]
    BY <1>1, <1>2, <1>7 DEF Perform
  <2>2. performed'[p][i] = performed[p][i] + 1
        /\ \A q \in Sqs, k \in Jobs : (q # p \/ k # i) => performed'[q][k] = performed[q][k]
    BY <1>2, <1>5, <2>1
  <2>3. performed'[p][i] = 1
    BY <1>4, <1>7, <2>2
  <2> QED BY <1>1, <1>2, <1>3, <2>2, <2>3 DEF Moved
<1> QED BY <1>5, <1>6, <1>7

(* A command whose entry is not done has not been answered or posted. *)
LEMMA OwnerFresh ==
    ASSUME Once, NEW e \in Entries, NEW p \in Sqs, NEW i \in Jobs, Own(e, p, i),
           table[e].done = FALSE, wk.pc # "mark"
    PROVE  /\ answered[p][i] = 0 /\ ~Posted(p, i) /\ ~Owed(p, i)
           /\ \A d \in Entries : Own(d, p, i) => d = e
<1>1. ~AtMark(e)
  BY DEF AtMark
<1>2. ~Owed(p, i)
  BY DEF Once, OwedUntouched
<1> QED BY <1>1, <1>2 DEF Once, OwnersExact

LEMMA MovedOnce ==
    ASSUME Sound, Once, NEW e, NEW p, NEW i, Moved(e, p, i), wk.pc # "mark",
           UNCHANGED <<fetched, deferred, disp, answered>>,
           \A q \in Sqs, k \in Jobs : Posted(q, k)' /\ (q # p \/ k # i) => Posted(q, k),
           AtMark(e)' \/ ~Posted(p, i)'
    PROVE  WaitingApart' /\ OwedUntouched' /\ Counts' /\ OwnersExact'
<1>1. /\ e \in Entries /\ p \in Sqs /\ i \in Jobs /\ Own(e, p, i) /\ table[e].done = FALSE
      /\ performed'[p][i] = 1 /\ table'[e].copied = TRUE
      /\ \A q \in Sqs, k \in Jobs : (q # p \/ k # i) => performed'[q][k] = performed[q][k]
  BY DEF Moved
<1>2. \A d \in Entries : /\ table'[d].wb = table[d].wb /\ table'[d].done = table[d].done
                         /\ d # e => table'[d].copied = table[d].copied
  BY DEF Moved
<1>3. \A d \in Entries : \A q \in Sqs, k \in Jobs : Own(d, q, k)' <=> Own(d, q, k)
  BY DEF Moved, Own
<1>4. answered[p][i] = 0 /\ ~Posted(p, i) /\ ~Owed(p, i) /\ \A d \in Entries : Own(d, p, i) => d = e
  BY <1>1, OwnerFresh
<1>5. DoingKept
  BY DEF DoingKept, Doing
<1>6. WaitingApart'
  BY <1>5, WaitingFrame DEF Once
<1>7. OwedUntouched'
  <2> SUFFICES ASSUME NEW q \in Sqs, NEW k \in Jobs, Owed(q, k)'
               PROVE  performed'[q][k] = 0 /\ \A d \in Entries : ~Own(d, q, k)'
    BY DEF OwedUntouched
  <2>1. Owed(q, k)
    BY <1>5 DEF Owed, Waits, DoingKept
  <2>2. q # p \/ k # i
    BY <1>4, <2>1
  <2>3. performed[q][k] = 0 /\ \A d \in Entries : ~Own(d, q, k)
    BY <2>1 DEF Once, OwedUntouched
  <2> QED BY <1>1, <1>3, <2>2, <2>3
<1>8. Counts'
  <2> SUFFICES ASSUME NEW q \in Sqs, NEW k \in Jobs
               PROVE  performed'[q][k] <= 1 /\ answered[q][k] <= performed'[q][k]
    BY DEF Counts
  <2>1. CASE q = p /\ k = i
    BY <1>1, <1>4, <2>1
  <2>2. CASE q # p \/ k # i
    BY <1>1, <2>2 DEF Once, Counts
  <2> QED BY <2>1, <2>2
<1>9. OwnersExact'
  <2>1. ASSUME NEW d \in Entries PROVE table'[d].wb = TRUE => table'[d].copied = TRUE
    BY <1>1, <1>2 DEF Once, OwnersExact
  <2>2. ASSUME NEW q \in Sqs, NEW k \in Jobs, NEW d \in Entries, Own(d, q, k)'
        PROVE  /\ table'[d].copied = TRUE => performed'[q][k] = 1
               /\ table'[d].copied = FALSE => performed'[q][k] = 0
               /\ \A c \in Entries : Own(c, q, k)' => c = d
               /\ table'[d].done = FALSE /\ ~AtMark(d)' => answered'[q][k] = 0 /\ ~Posted(q, k)'
    <3>0. Own(d, q, k)
      BY <1>3, <2>2
    <3>1. CASE d = e
      <4>1. q = p /\ k = i
        BY <1>1, <3>0, <3>1 DEF Own
      <4> QED BY <1>1, <1>3, <1>4, <3>1, <4>1
    <3>2. CASE d # e
      <4>1. q # p \/ k # i
        BY <1>4, <3>0, <3>2
      <4>2. /\ table[d].copied = TRUE => performed[q][k] = 1
            /\ table[d].copied = FALSE => performed[q][k] = 0
            /\ \A c \in Entries : Own(c, q, k) => c = d
            /\ table[d].done = FALSE /\ ~AtMark(d) => answered[q][k] = 0 /\ ~Posted(q, k)
        BY <3>0 DEF Once, OwnersExact
      <4>3. ~AtMark(d)
        BY DEF AtMark
      <4>4. table'[d].copied = table[d].copied /\ table'[d].done = table[d].done
            /\ performed'[q][k] = performed[q][k]
        BY <1>1, <1>2, <3>2, <4>1
      <4>5. Posted(q, k)' => Posted(q, k)
        BY <4>1
      <4>6. \A c \in Entries : Own(c, q, k)' => c = d
        BY <1>3, <4>2
      <4> QED BY <4>2, <4>3, <4>4, <4>5, <4>6
    <3> QED BY <3>1, <3>2
  <2> QED BY <2>1, <2>2 DEF OwnersExact
<1> QED BY <1>6, <1>7, <1>8, <1>9

LEMMA VisitEarlyOnce ==
    ASSUME Sound, Once, VisitEarly
    PROVE  Once'
<1>1. /\ wk' = [wk EXCEPT !.pc = "next"] /\ wk.pc = "visit" /\ ~Here.done /\ Perform
      /\ UNCHANGED <<queues, lists, disp, cq, host, answered>>
  BY DEF VisitEarly
<1>2. RingKept /\ UNCHANGED <<issued, fetched, deferred>>
  BY <1>1 DEF RingKept, queues
<1>3. /\ wk.cur \in Entries /\ Here = table[wk.cur]
      /\ \A e \in Entries :
            /\ table'[e].q = table[e].q /\ table'[e].id = table[e].id /\ table'[e].wb = table[e].wb
            /\ table'[e].done = table[e].done
            /\ (e = wk.cur => table'[e].copied = TRUE) /\ (e # wk.cur => table'[e].copied = table[e].copied)
  BY <1>1, PerformStep
<1>4. Here.wb \in BOOLEAN
  BY <1>3, FieldFacts DEF Sound, Types
<1>5. \A e : ~AtMark(e)
  BY <1>1 DEF AtMark
<1>6. CASE Here.wb = TRUE
  <2>1. table[wk.cur].copied = TRUE
    BY <1>3, <1>6 DEF Once, OwnersExact
  <2>2. performed' = performed
    BY <1>1, <1>3, <2>1 DEF Perform
  <2>3. \A e \in Entries : table'[e].copied = table[e].copied
    BY <1>3, <2>1
  <2>4. OwnKept
    <3> SUFFICES ASSUME NEW e \in Entries
                 PROVE  /\ table'[e].wb = TRUE => table'[e].copied = TRUE
                        /\ \A q \in Sqs, k \in Jobs : Own(e, q, k)' =>
                              /\ Own(e, q, k) /\ table'[e].copied = table[e].copied
                              /\ table'[e].done = FALSE /\ ~AtMark(e)' => table[e].done = FALSE /\ ~AtMark(e)
      BY DEF OwnKept
    <3>1. table[e].wb = TRUE => table[e].copied = TRUE
      BY DEF Once, OwnersExact
    <3>2. /\ table'[e].q = table[e].q /\ table'[e].id = table[e].id /\ table'[e].wb = table[e].wb
          /\ table'[e].done = table[e].done
      BY <1>3
    <3> QED BY <1>5, <2>3, <3>1, <3>2 DEF Own
  <2>5. DoingKept
    BY <1>1 DEF DoingKept, Doing
  <2> QED BY <1>1, <1>2, <2>2, <2>4, <2>5, OnceFrame
<1>7. CASE Here.wb = FALSE
  <2>1. PICK e, p, i : e = wk.cur /\ p = Here.q /\ i = Here.id
    OBVIOUS
  <2>2. Moved(e, p, i)
    BY <1>1, <1>7, <2>1, PerformMoves
  <2>3. \A q \in Sqs : \A k : Posted(q, k)' <=> Posted(q, k)
    BY <1>2, RingFrame
  <2>4. e \in Entries /\ p \in Sqs /\ i \in Jobs /\ Own(e, p, i) /\ table[e].done = FALSE
    BY <2>2 DEF Moved
  <2>5. ~Posted(p, i)
    BY <1>1, <2>4, OwnerFresh
  <2>6. WaitingApart' /\ OwedUntouched' /\ Counts' /\ OwnersExact'
    BY <1>1, <1>2, <2>2, <2>3, <2>4, <2>5, MovedOnce
  <2>7. \A q \in Sqs, k \in Jobs : performed[q][k] = 1 => performed'[q][k] = 1
    BY <2>2 DEF Moved
  <2>8. Slots' = Slots /\ QSize' = QSize /\ \A q \in Sqs : \A j : Win(q, j)' <=> Win(q, j)
    BY <1>2, RingFrame
  <2>9. RingPhases'
    BY <1>2, <2>8 DEF Once, RingPhases, RingKept
  <2>10. RingFresh'
    BY <1>1, <2>7, <2>8 DEF Once, RingFresh
  <2>11. TagsBound'
    BY <1>1, <1>2, <2>8 DEF Once, TagsBound, Answered
  <2> QED BY <2>6, <2>9, <2>10, <2>11 DEF Once
<1> QED BY <1>4, <1>6, <1>7

(* A function that tells the members of S apart counts them. *)
LEMMA ApartFits ==
    ASSUME NEW S, NEW T, IsFiniteSet(T), NEW f \in [S -> T],
           \A a, b \in S : f[a] = f[b] => a = b
    PROVE  Cardinality(S) <= Cardinality(T)
<1>1. IsInjective(f)
  BY DEF IsInjective
<1>2. f \in Injection(S, T)
  BY <1>1 DEF Injection
<1> QED BY <1>2, FS_Injection

(* What has been carried out was fetched before; so there are as many      *)
(* commands open as were put in the queue and not answered.                *)
LEMMA OpenCommands ==
    ASSUME Sound, Once, NEW p \in Sqs, NEW T, T = (1..Len(issued[p])) \ Answered(p)
    PROVE  /\ IsFiniteSet(T) /\ Cardinality(T) \in Nat /\ Cardinality(T) <= QSize - 1
           /\ \A k \in Jobs : ~Owed(p, k) /\ answered[p][k] = 0 => k \in T
<1>1. PICK l : l = Len(issued[p])
  OBVIOUS
<1>2. l \in Nat /\ fetched[p] \in Nat /\ fetched[p] <= l /\ l - Cardinality(Answered(p)) <= QSize - 1
      /\ QSize \in Nat /\ MaxCmds \in Nat /\ T = (1..l) \ Answered(p)
  BY <1>1, HostFacts, ConstFacts DEF Sound, Types, QueueTypes, Once, TagsBound
<1>3. \A k \in Jobs : ~Owed(p, k) => k \in 1..l
  BY <1>2 DEF Owed, Jobs
<1>4. Answered(p) \subseteq 1..l
  <2> SUFFICES ASSUME NEW k \in Answered(p) PROVE k \in 1..l
    OBVIOUS
  <2>1. k \in Jobs /\ answered[p][k] > 0
    BY DEF Answered, Jobs
  <2>2. performed[p][k] # 0
    <3>1. answered[p][k] \in Nat /\ performed[p][k] \in Nat /\ answered[p][k] <= performed[p][k]
      BY <2>1 DEF Sound, Types, RingTypes, Once, Counts
    <3> QED BY <2>1, <3>1
  <2>3. ~Owed(p, k)
    BY <2>1, <2>2 DEF Once, OwedUntouched
  <2> QED BY <1>3, <2>1, <2>3
<1>5. IsFiniteSet(1..l) /\ Cardinality(1..l) = l
  <2>1. IsFiniteSet(1..l) /\ Cardinality(1..l) = IF 1 > l THEN 0 ELSE l - 1 + 1
    BY <1>2, FS_Interval
  <2> QED BY <1>2, <2>1
<1>6. IsFiniteSet(T) /\ Cardinality(T) = l - Cardinality(Answered(p))
  <2>1. (1..l) \cap Answered(p) = Answered(p)
    BY <1>4
  <2>2. /\ IsFiniteSet((1..l) \ Answered(p))
        /\ Cardinality((1..l) \ Answered(p)) = Cardinality(1..l) - Cardinality((1..l) \cap Answered(p))
    BY <1>5, FS_Difference
  <2> QED BY <1>2, <1>5, <2>1, <2>2
<1>7. Cardinality(T) \in Nat
  BY <1>6, FS_CardinalityType
<1>8. ASSUME NEW k \in Jobs, ~Owed(p, k), answered[p][k] = 0 PROVE k \in T
  <2>1. k \notin Answered(p)
    BY <1>8 DEF Answered
  <2> QED BY <1>2, <1>3, <1>8, <2>1
<1> QED BY <1>2, <1>6, <1>7, <1>8

(* The completion queue has room for one more than the slot it is put in. *)
LEMMA RoomForOne ==
    ASSUME Sound, Once, NEW p \in Sqs, NEW i \in Jobs,
           ~Owed(p, i), answered[p][i] = 0, ~Posted(p, i)
    PROVE  \E j \in Slots : j # cq[p].head /\ ~Win(p, j)
<1> SUFFICES ASSUME \A j \in Slots : j # cq[p].head => Win(p, j) PROVE FALSE
  OBVIOUS
<1>1. PICK h, T : h = cq[p].head /\ T = (1..Len(issued[p])) \ Answered(p)
  OBVIOUS
<1>2. /\ IsFiniteSet(T) /\ Cardinality(T) \in Nat /\ Cardinality(T) <= QSize - 1
      /\ \A k \in Jobs : ~Owed(p, k) /\ answered[p][k] = 0 => k \in T
  BY <1>1, OpenCommands
<1>3. QSize \in Nat /\ QSize >= 2 /\ Slots = 0..(QSize - 1)
  BY HostFacts DEF Sound, Types
<1>4. ASSUME NEW j \in Slots, j # h
      PROVE  /\ cq[p].slot[j].id \in T /\ cq[p].slot[j].id # i
             /\ \A b \in Slots : b # h /\ cq[p].slot[b].id = cq[p].slot[j].id => b = j
  <2>1. Win(p, j) /\ \A b \in Slots : b # h => Win(p, b)
    BY <1>1, <1>4
  <2>2. /\ cq[p].slot[j].id \in Jobs
        /\ performed[p][cq[p].slot[j].id] = 1 /\ answered[p][cq[p].slot[j].id] = 0
        /\ \A b \in Slots : Win(p, b) /\ cq[p].slot[b].id = cq[p].slot[j].id => b = j
    BY <2>1 DEF Once, RingFresh
  <2>3. ~Owed(p, cq[p].slot[j].id)
    BY <2>2 DEF Once, OwedUntouched
  <2>4. cq[p].slot[j].id # i
    BY <2>1 DEF Posted
  <2> QED BY <1>2, <2>1, <2>2, <2>3, <2>4
<1>5. PICK f : f = [j \in Slots |-> IF j = h THEN i ELSE cq[p].slot[j].id]
  OBVIOUS
<1>6. i \in T
  BY <1>2
<1>7. \A j \in Slots : f[j] = IF j = h THEN i ELSE cq[p].slot[j].id
  BY <1>5
<1>8. f \in [Slots -> T]
  BY <1>4, <1>5, <1>6
<1>9. \A a, b \in Slots : f[a] = f[b] => a = b
  BY <1>4, <1>7
<1>10. Cardinality(Slots) <= Cardinality(T)
  BY <1>2, <1>8, <1>9, ApartFits
<1>11. Cardinality(Slots) = QSize
  <2>1. PICK z : z = QSize - 1
    OBVIOUS
  <2>2. z \in Int /\ 0 \in Int /\ z = QSize - 1
    BY <1>3, <2>1
  <2>3. Cardinality(0..z) = IF 0 > z THEN 0 ELSE z - 0 + 1
    BY <2>2, FS_Interval
  <2> QED BY <1>3, <2>2, <2>3
<1> QED BY <1>2, <1>3, <1>10, <1>11

(* The ring after one more completion. *)
LEMMA PostRing ==
    ASSUME Sound, Once, NEW p \in Sqs, NEW i \in Jobs, NEW j0 \in Slots, j0 # cq[p].head, ~Win(p, j0),
           cq' = [cq EXCEPT ![p] = Post(cq[p], i)], UNCHANGED <<hc, host>>
    PROVE  /\ Slots' = Slots /\ QSize' = QSize /\ RingPhases'
           /\ cq[p].head \in Slots /\ ~Win(p, cq[p].head)
           /\ \A q \in Sqs : q # p => cq'[q] = cq[q] /\ \A j \in Slots : Win(q, j)' <=> Win(q, j)
           /\ \A j \in Slots : Win(p, j)' <=> Win(p, j) \/ j = cq[p].head
           /\ \A j \in Slots : cq'[p].slot[j].id = IF j = cq[p].head THEN i ELSE cq[p].slot[j].id
<1>1. QSize \in Nat /\ QSize >= 2 /\ Slots = 0..(QSize - 1) /\ Slots' = Slots /\ QSize' = QSize
  BY HostFacts DEF Sound, Types, Slots, QSize
<1>2. PICK c, d : c = cq[p] /\ d = Post(c, i)
  OBVIOUS
<1>3. c \in Completions /\ i \in Nat /\ hc \in Hosts /\ cq \in [Sqs -> Completions]
  BY <1>2, ConstFacts DEF Sound, Types, RingTypes, Jobs
<1>4. /\ d.slot = [c.slot EXCEPT ![c.head] = [id |-> i, phase |-> c.phase]]
      /\ d.head = IF c.head = QSize - 1 THEN 0 ELSE c.head + 1
      /\ d.phase = IF c.head = QSize - 1 THEN 1 - c.phase ELSE c.phase
  BY <1>2, <1>3, PostFacts
<1>5. cq'[p] = d /\ \A q \in Sqs : q # p => cq'[q] = cq[q]
  BY <1>2, <1>3
<1>6. c.head \in Slots /\ c.phase \in {0, 1} /\ c.slot \in [Slots -> [id : Nat, phase : {0, 1}]]
  BY <1>3 DEF Completions
<1>7. PICK h, f, g, y : h = c.head /\ f = c.phase /\ g = host[p].phase /\ y = host[p].head
  OBVIOUS
<1>8. h \in Nat /\ h <= QSize - 1 /\ h \in Slots /\ f \in {0, 1} /\ g \in {0, 1} /\ y \in Nat /\ y <= QSize - 1
  BY <1>1, <1>6, <1>7 DEF Sound, Types, RingTypes
<1>9. \A j \in Slots : /\ j # h => d.slot[j] = c.slot[j]
                       /\ j = h => d.slot[j].id = i /\ d.slot[j].phase = f
  BY <1>4, <1>6, <1>7
<1>10. /\ (f = g) <=> (y <= h)
       /\ \A j \in Slots : c.slot[j].phase = IF j < h THEN f ELSE 1 - f
  BY <1>2, <1>7 DEF Once, RingPhases
<1>11. \A j \in Slots : Win(p, j) <=> IF f = g THEN y <= j /\ j < h ELSE y <= j \/ j < h
  BY <1>2, <1>7 DEF Win
<1>12. PICK u, v : u = d.head /\ v = d.phase
  OBVIOUS
<1>13. u = (IF h = QSize - 1 THEN 0 ELSE h + 1) /\ v = (IF h = QSize - 1 THEN 1 - f ELSE f)
  BY <1>4, <1>7, <1>12
<1>14. \A j \in Slots : Win(p, j)' <=> IF v = g THEN y <= j /\ j < u ELSE y <= j \/ j < u
  BY <1>5, <1>7, <1>12 DEF Win
<1>15. j0 \in Nat /\ j0 <= QSize - 1 /\ j0 # h /\ ~(IF f = g THEN y <= j0 /\ j0 < h ELSE y <= j0 \/ j0 < h)
  BY <1>1, <1>2, <1>7, <1>11
<1>16. (v = g) <=> (y <= u)
  BY <1>1, <1>8, <1>10, <1>13, <1>15
<1>17. ASSUME NEW j \in Slots
       PROVE  /\ Win(p, j)' <=> Win(p, j) \/ j = h
              /\ d.slot[j].phase = IF j < u THEN v ELSE 1 - v
  <2>1. j \in Nat /\ j <= QSize - 1
    BY <1>1
  <2>2. (IF v = g THEN y <= j /\ j < u ELSE y <= j \/ j < u)
           <=> ((IF f = g THEN y <= j /\ j < h ELSE y <= j \/ j < h) \/ j = h)
    BY <1>1, <1>8, <1>10, <1>13, <1>15, <2>1
  <2>3. Win(p, j)' <=> Win(p, j) \/ j = h
    BY <1>11, <1>14, <2>2
  <2>4. CASE j = h
    BY <1>1, <1>8, <1>9, <1>13, <2>1, <2>3, <2>4
  <2>5. CASE j # h
    <3>1. d.slot[j].phase = IF j < h THEN f ELSE 1 - f
      BY <1>9, <1>10, <2>5
    <3> QED BY <1>1, <1>8, <1>13, <2>1, <2>3, <2>5, <3>1
  <2> QED BY <2>3, <2>4, <2>5
<1>18. ~Win(p, h)
  BY <1>8, <1>10, <1>11
<1>19. \A q \in Sqs : q # p => \A j \in Slots : Win(q, j)' <=> Win(q, j)
  BY <1>5 DEF Win
<1>20. RingPhases'
  <2> SUFFICES ASSUME NEW q \in Sqs
               PROVE  /\ cq'[q].phase = host[q].phase <=> host[q].head <= cq'[q].head
                      /\ \A j \in Slots : cq'[q].slot[j].phase = IF j < cq'[q].head THEN cq'[q].phase ELSE 1 - cq'[q].phase
    BY <1>1 DEF RingPhases
  <2>1. CASE q = p
    <3>1. cq'[q].phase = v /\ cq'[q].head = u /\ cq'[q].slot = d.slot /\ host[q].phase = g /\ host[q].head = y
      BY <1>5, <1>7, <1>12, <2>1
    <3> QED BY <1>16, <1>17, <3>1
  <2>2. CASE q # p
    <3>1. cq'[q] = cq[q]
      BY <1>5, <2>2
    <3> QED BY <3>1 DEF Once, RingPhases
  <2> QED BY <2>1, <2>2
<1>21. \A j \in Slots : cq'[p].slot[j].id = IF j = h THEN i ELSE cq[p].slot[j].id
  BY <1>2, <1>5, <1>9
<1> QED BY <1>1, <1>2, <1>5, <1>7, <1>8, <1>17, <1>18, <1>19, <1>20, <1>21

LEMMA CompleteOnce ==
    ASSUME Sound, Once, Complete
    PROVE  Once'
<1>1. PICK e, p, i : e = wk.cur /\ p = Here.q /\ i = Here.id
  OBVIOUS
<1>2. /\ wk' = [wk EXCEPT !.pc = "mark"] /\ wk.pc = "visit" /\ ~Here.done /\ Perform
      /\ cq' = [cq EXCEPT ![p] = Post(cq[p], i)] /\ ~Here.wb
      /\ UNCHANGED <<queues, lists, disp, host, answered>>
  BY <1>1 DEF Complete
<1>3. UNCHANGED <<hc, issued, fetched, deferred>>
  BY <1>2 DEF queues
<1>4. Here.wb = FALSE
  <2>1. wk.cur \in Entries /\ Here = table[wk.cur]
    BY <1>2, PerformStep
  <2>2. Here.wb \in BOOLEAN
    BY <2>1, FieldFacts DEF Sound, Types
  <2> QED BY <1>2, <2>2
<1>5. Moved(e, p, i)
  BY <1>1, <1>2, <1>4, PerformMoves
<1>6. e \in Entries /\ p \in Sqs /\ i \in Jobs /\ Own(e, p, i) /\ table[e].done = FALSE
  BY <1>5 DEF Moved
<1>7. answered[p][i] = 0 /\ ~Posted(p, i) /\ ~Owed(p, i)
  BY <1>2, <1>6, OwnerFresh
<1>8. PICK j0 \in Slots : j0 # cq[p].head /\ ~Win(p, j0)
  BY <1>6, <1>7, RoomForOne
<1>9. PICK h : h = cq[p].head
  OBVIOUS
<1>10. /\ Slots' = Slots /\ QSize' = QSize /\ RingPhases' /\ h \in Slots /\ ~Win(p, h)
       /\ \A q \in Sqs : q # p => cq'[q] = cq[q] /\ \A j \in Slots : Win(q, j)' <=> Win(q, j)
       /\ \A j \in Slots : Win(p, j)' <=> Win(p, j) \/ j = h
       /\ \A j \in Slots : cq'[p].slot[j].id = IF j = h THEN i ELSE cq[p].slot[j].id
  <2>1. /\ p \in Sqs /\ i \in Jobs /\ j0 \in Slots /\ j0 # cq[p].head /\ ~Win(p, j0)
        /\ cq' = [cq EXCEPT ![p] = Post(cq[p], i)] /\ UNCHANGED <<hc, host>>
    BY <1>2, <1>3, <1>6, <1>8
  <2>2. /\ Slots' = Slots /\ QSize' = QSize /\ RingPhases' /\ cq[p].head \in Slots /\ ~Win(p, cq[p].head)
        /\ \A q \in Sqs : q # p => cq'[q] = cq[q] /\ \A j \in Slots : Win(q, j)' <=> Win(q, j)
        /\ \A j \in Slots : Win(p, j)' <=> Win(p, j) \/ j = cq[p].head
        /\ \A j \in Slots : cq'[p].slot[j].id = IF j = cq[p].head THEN i ELSE cq[p].slot[j].id
    BY <2>1, PostRing
  <2> QED BY <1>9, <2>2
<1>11. \A q \in Sqs, k \in Jobs : Posted(q, k)' /\ (q # p \/ k # i) => Posted(q, k)
  <2> SUFFICES ASSUME NEW q \in Sqs, NEW k \in Jobs, Posted(q, k)', q # p \/ k # i PROVE Posted(q, k)
    OBVIOUS
  <2>1. PICK j \in Slots : Win(q, j)' /\ cq'[q].slot[j].id = k
    BY <1>10 DEF Posted
  <2>2. Win(q, j) /\ cq[q].slot[j].id = k
    BY <1>10, <2>1
  <2> QED BY <2>2 DEF Posted
<1>12. AtMark(e)'
  <2>1. wk \in [pc : Places, cur : Links]
    BY DEF Sound, Types, ThreadTypes, Places
  <2>2. wk'.pc = "mark" /\ wk'.cur = e
    BY <1>1, <1>2, <2>1
  <2> QED BY <2>2 DEF AtMark
<1>13. WaitingApart' /\ OwedUntouched' /\ Counts' /\ OwnersExact'
  <2>1. wk.pc # "mark" /\ UNCHANGED <<fetched, deferred, disp, answered>>
    BY <1>2, <1>3
  <2> QED BY <1>5, <1>11, <1>12, <2>1, MovedOnce
<1>14. performed'[p][i] = 1 /\ \A q \in Sqs, k \in Jobs : performed[q][k] = 1 => performed'[q][k] = 1
  BY <1>5 DEF Moved
<1>15. RingFresh'
  <2> SUFFICES ASSUME NEW q \in Sqs, NEW j \in Slots, Win(q, j)'
               PROVE  /\ cq'[q].slot[j].id \in Jobs
                      /\ performed'[q][cq'[q].slot[j].id] = 1 /\ answered[q][cq'[q].slot[j].id] = 0
                      /\ \A b \in Slots : Win(q, b)' /\ cq'[q].slot[b].id = cq'[q].slot[j].id => b = j
    BY <1>2, <1>10 DEF RingFresh
  <2>1. \A b \in Slots : Win(q, b) => cq[q].slot[b].id \in Jobs
           /\ performed[q][cq[q].slot[b].id] = 1 /\ answered[q][cq[q].slot[b].id] = 0
    BY DEF Once, RingFresh
  <2>2. \A a, b \in Slots : Win(q, a) /\ Win(q, b) /\ cq[q].slot[b].id = cq[q].slot[a].id => b = a
    BY DEF Once, RingFresh
  <2>3. CASE q # p
    <3>1. cq'[q] = cq[q] /\ \A b \in Slots : Win(q, b)' <=> Win(q, b)
      BY <1>10, <2>3
    <3>2. Win(q, j)
      BY <3>1
    <3>3. \A b \in Slots : Win(q, b)' /\ cq[q].slot[b].id = cq[q].slot[j].id => b = j
      BY <2>2, <3>1, <3>2
    <3>4. cq[q].slot[j].id \in Jobs /\ performed'[q][cq[q].slot[j].id] = 1 /\ answered[q][cq[q].slot[j].id] = 0
      BY <1>14, <2>1, <3>2
    <3> QED BY <3>1, <3>3, <3>4
  <2>4. CASE q = p
    <3>1. \A b \in Slots : Win(p, b) => cq[p].slot[b].id # i
      BY <1>7 DEF Posted
    <3>2. CASE j = h
      <4>1. cq'[q].slot[j].id = i
        BY <1>10, <2>4, <3>2
      <4>2. \A b \in Slots : Win(q, b)' /\ cq'[q].slot[b].id = i => b = j
        BY <1>10, <2>4, <3>1, <3>2
      <4> QED BY <1>6, <1>7, <1>14, <2>4, <4>1, <4>2
    <3>3. CASE j # h
      <4>1. Win(q, j) /\ cq'[q].slot[j].id = cq[q].slot[j].id
        BY <1>10, <2>4, <3>3
      <4>2. cq[q].slot[j].id # i
        BY <2>4, <3>1, <4>1
      <4>3. \A b \in Slots : Win(q, b)' /\ cq'[q].slot[b].id = cq[q].slot[j].id => b = j
        BY <1>10, <2>2, <2>4, <4>1, <4>2
      <4>4. cq[q].slot[j].id \in Jobs /\ performed'[q][cq[q].slot[j].id] = 1 /\ answered[q][cq[q].slot[j].id] = 0
        BY <1>14, <2>1, <4>1
      <4> QED BY <4>1, <4>3, <4>4
    <3> QED BY <3>2, <3>3
  <2> QED BY <2>3, <2>4
<1>16. TagsBound'
  BY <1>2, <1>3, <1>10 DEF Once, TagsBound, Answered
<1> QED BY <1>10, <1>13, <1>15, <1>16 DEF Once

(* The host's side of the ring after it took a completion. *)
LEMMA TakeRing ==
    ASSUME Sound, Once, NEW q \in Sqs, UNCHANGED <<hc, cq>>,
           NEW y, y = host[q].head, cq[q].slot[y].phase = host[q].phase,
           host' = [host EXCEPT ![q].head = (host[q].head + 1) % QSize,
                                ![q].phase = IF host[q].head = QSize - 1 THEN 1 - host[q].phase
                                                                         ELSE host[q].phase]
    PROVE  /\ Slots' = Slots /\ QSize' = QSize /\ RingPhases' /\ y \in Slots /\ Win(q, y)
           /\ \A p \in Sqs : p # q => \A j \in Slots : Win(p, j)' <=> Win(p, j)
           /\ \A j \in Slots : Win(q, j)' <=> Win(q, j) /\ j # y
<1>1. QSize \in Nat /\ QSize >= 2 /\ Slots = 0..(QSize - 1) /\ Slots' = Slots /\ QSize' = QSize
  BY HostFacts DEF Sound, Types, Slots, QSize
<1>2. PICK h, f, g : h = cq[q].head /\ f = cq[q].phase /\ g = host[q].phase
  OBVIOUS
<1>3. host \in [Sqs -> [head : Slots, phase : {0, 1}, irq : BOOLEAN]]
  BY DEF Sound, Types, RingTypes
<1>4. cq[q] \in Completions
  BY DEF Sound, Types, RingTypes
<1>5. /\ h \in Nat /\ h <= QSize - 1 /\ f \in {0, 1} /\ g \in {0, 1}
      /\ y \in Nat /\ y <= QSize - 1 /\ y \in Slots
  BY <1>1, <1>2, <1>3, <1>4 DEF Completions
<1>6. PICK u, v : u = (y + 1) % QSize /\ v = IF y = QSize - 1 THEN 1 - g ELSE g
  OBVIOUS
<1>7. u = IF y = QSize - 1 THEN 0 ELSE y + 1
  <2>1. CASE y = QSize - 1
    <3>1. y + 1 = QSize /\ QSize % QSize = 0
      BY <1>1, <2>1
    <3> QED BY <1>6, <2>1, <3>1
  <2>2. CASE y # QSize - 1
    <3>1. y + 1 \in 0..(QSize - 1)
      BY <1>1, <1>5, <2>2
    <3>2. (y + 1) % QSize = y + 1
      BY <1>1, <3>1
    <3> QED BY <1>6, <2>2, <3>2
  <2> QED BY <2>1, <2>2
<1>8. host' = [host EXCEPT ![q].head = u, ![q].phase = v]
  BY <1>2, <1>6
<1>9. host'[q].head = u /\ host'[q].phase = v /\ \A p \in Sqs : p # q => host'[p] = host[p]
  BY <1>3, <1>8
<1>10. /\ (f = g) <=> (y <= h)
       /\ \A j \in Slots : cq[q].slot[j].phase = IF j < h THEN f ELSE 1 - f
  BY <1>2 DEF Once, RingPhases
<1>11. \A j \in Slots : Win(q, j) <=> IF f = g THEN y <= j /\ j < h ELSE y <= j \/ j < h
  BY <1>2 DEF Win
<1>12. \A j \in Slots : Win(q, j)' <=> IF f = v THEN u <= j /\ j < h ELSE u <= j \/ j < h
  BY <1>2, <1>9 DEF Win
<1>13. g = IF y < h THEN f ELSE 1 - f
  BY <1>2, <1>5, <1>10
<1>14. Win(q, y)
  BY <1>5, <1>10, <1>11, <1>13
<1>15. (f = v) <=> (u <= h)
  BY <1>1, <1>5, <1>6, <1>7, <1>10, <1>13
<1>16. ASSUME NEW j \in Slots PROVE Win(q, j)' <=> Win(q, j) /\ j # y
  <2>1. j \in Nat /\ j <= QSize - 1
    BY <1>1
  <2>2. v = (IF y = QSize - 1 THEN 1 - g ELSE g) /\ ((f = g) <=> (y <= h))
    BY <1>6, <1>10
  <2>3. (IF f = v THEN u <= j /\ j < h ELSE u <= j \/ j < h)
           <=> ((IF f = g THEN y <= j /\ j < h ELSE y <= j \/ j < h) /\ j # y)
    <3>1. CASE y = QSize - 1
      BY <1>1, <1>5, <1>7, <1>13, <2>1, <2>2, <3>1
    <3>2. CASE y # QSize - 1
      BY <1>1, <1>5, <1>7, <1>13, <2>1, <2>2, <3>2
    <3> QED BY <3>1, <3>2
  <2> QED BY <1>11, <1>12, <2>3
<1>17. \A p \in Sqs : p # q => \A j \in Slots : Win(p, j)' <=> Win(p, j)
  BY <1>9 DEF Win
<1>18. RingPhases'
  <2> SUFFICES ASSUME NEW p \in Sqs
               PROVE  /\ cq[p].phase = host'[p].phase <=> host'[p].head <= cq[p].head
                      /\ \A j \in Slots : cq[p].slot[j].phase = IF j < cq[p].head THEN cq[p].phase ELSE 1 - cq[p].phase
    BY <1>1 DEF RingPhases
  <2>1. \A j \in Slots : cq[p].slot[j].phase = IF j < cq[p].head THEN cq[p].phase ELSE 1 - cq[p].phase
    BY DEF Once, RingPhases
  <2>2. cq[p].phase = host'[p].phase <=> host'[p].head <= cq[p].head
    <3>1. CASE p = q
      BY <1>2, <1>9, <1>15, <3>1
    <3>2. CASE p # q
      BY <1>9, <3>2 DEF Once, RingPhases
    <3> QED BY <3>1, <3>2
  <2> QED BY <2>1, <2>2
<1> QED BY <1>1, <1>5, <1>14, <1>16, <1>17, <1>18

LEMMA HandleOnce ==
    ASSUME Sound, Once, NEW q \in Sqs, Handle(q)
    PROVE  Once'
<1>1. UNCHANGED <<queues, table, disp, wk, cq, performed>>
  BY DEF Handle
<1>2. UNCHANGED <<hc, issued, fetched, deferred>>
  BY <1>1 DEF queues
<1>3. DoingKept
  BY <1>1 DEF DoingKept, Doing
<1>4. OwnKept
  <2>1. Keeps(table', table)
    BY <1>1 DEF Keeps
  <2> QED BY <1>1, <2>1, KeepsOwn DEF Once
<1>5. host \in [Sqs -> [head : Slots, phase : {0, 1}, irq : BOOLEAN]]
  BY DEF Sound, Types, RingTypes
<1>6. PICK y : y = host[q].head
  OBVIOUS
<1>7. CASE cq[q].slot[y].phase # host[q].phase
  <2>1. host' = [host EXCEPT ![q].irq = FALSE] /\ answered' = answered
    BY <1>6, <1>7 DEF Handle
  <2>2. \A p \in Sqs : host'[p].head = host[p].head /\ host'[p].phase = host[p].phase
    BY <1>5, <2>1
  <2>3. RingKept
    BY <1>1, <1>2, <2>2 DEF RingKept
  <2> QED BY <1>1, <1>2, <1>3, <1>4, <2>1, <2>3, OnceFrame
<1>8. CASE cq[q].slot[y].phase = host[q].phase
  <2>1. PICK i : i = cq[q].slot[y].id
    OBVIOUS
  <2>2. answered' = [answered EXCEPT ![q][i] = answered[q][i] + 1]
    BY <1>6, <1>8, <2>1 DEF Handle
  <2>3. host' = [host EXCEPT ![q].head = (host[q].head + 1) % QSize,
                             ![q].phase = IF host[q].head = QSize - 1 THEN 1 - host[q].phase
                                                                      ELSE host[q].phase]
    BY <1>6, <1>8 DEF Handle
  <2>4. /\ Slots' = Slots /\ QSize' = QSize /\ RingPhases' /\ y \in Slots /\ Win(q, y)
        /\ \A p \in Sqs : p # q => \A j \in Slots : Win(p, j)' <=> Win(p, j)
        /\ \A j \in Slots : Win(q, j)' <=> Win(q, j) /\ j # y
    BY <1>1, <1>2, <1>6, <1>8, <2>3, TakeRing
  <2>5. /\ i \in Jobs /\ performed[q][i] = 1 /\ answered[q][i] = 0
        /\ \A j \in Slots : Win(q, j) /\ cq[q].slot[j].id = i => j = y
    BY <2>1, <2>4 DEF Once, RingFresh
  <2>6. answered'[q][i] = 1 /\ \A p \in Sqs, k \in Jobs : (p # q \/ k # i) => answered'[p][k] = answered[p][k]
    <3>1. answered \in [Sqs -> [Jobs -> Nat]]
      BY DEF Sound, Types, RingTypes
    <3>2. answered' = [answered EXCEPT ![q][i] = 1]
      BY <2>2, <2>5
    <3> QED BY <2>5, <3>1, <3>2
  <2>7. \A p \in Sqs, j \in Slots : Win(p, j)' => Win(p, j) /\ (p = q => j # y)
    BY <2>4
  <2>8. \A p \in Sqs, k \in Jobs : Posted(p, k)' => Posted(p, k)
    BY <1>1, <2>4, <2>7 DEF Posted
  <2>9. WaitingApart'
    BY <1>2, <1>3, WaitingFrame DEF Once
  <2>10. OwedUntouched'
    BY <1>1, <1>2, <1>3, <1>4, OwedFrame DEF Once, OwnKept
  <2>11. Counts'
    <3> SUFFICES ASSUME NEW p \in Sqs, NEW k \in Jobs
                 PROVE  performed[p][k] <= 1 /\ answered'[p][k] <= performed[p][k]
      BY <1>1 DEF Counts
    <3>1. CASE p = q /\ k = i
      BY <2>5, <2>6, <3>1
    <3>2. CASE p # q \/ k # i
      BY <2>6, <3>2 DEF Once, Counts
    <3> QED BY <3>1, <3>2
  <2>12. OwnersExact'
    <3>1. \A e \in Entries : table'[e].wb = TRUE => table'[e].copied = TRUE
      BY <1>4 DEF OwnKept
    <3>2. ASSUME NEW p \in Sqs, NEW k \in Jobs, NEW e \in Entries, Own(e, p, k)'
          PROVE  /\ table'[e].copied = TRUE => performed'[p][k] = 1
                 /\ table'[e].copied = FALSE => performed'[p][k] = 0
                 /\ \A d \in Entries : Own(d, p, k)' => d = e
                 /\ table'[e].done = FALSE /\ ~AtMark(e)' => answered'[p][k] = 0 /\ ~Posted(p, k)'
      <4>1. \A d \in Entries : Own(d, p, k)' <=> Own(d, p, k)
        BY <1>1 DEF Own
      <4>2. /\ table[e].copied = TRUE => performed[p][k] = 1
            /\ table[e].copied = FALSE => performed[p][k] = 0
            /\ \A d \in Entries : Own(d, p, k) => d = e
            /\ table[e].done = FALSE /\ ~AtMark(e) => answered[p][k] = 0 /\ ~Posted(p, k)
        BY <3>2, <4>1 DEF Once, OwnersExact
      <4>3. AtMark(e)' <=> AtMark(e)
        BY <1>1 DEF AtMark
      <4>4. ASSUME table'[e].done = FALSE, ~AtMark(e)' PROVE answered'[p][k] = 0 /\ ~Posted(p, k)'
        <5>1. answered[p][k] = 0 /\ ~Posted(p, k)
          BY <1>1, <4>2, <4>3, <4>4
        <5>2. Posted(q, i)
          BY <2>1, <2>4 DEF Posted
        <5>3. p # q \/ k # i
          BY <5>1, <5>2
        <5> QED BY <2>6, <2>8, <5>1, <5>3
      <4>5. \A d \in Entries : Own(d, p, k)' => d = e
        BY <4>1, <4>2
      <4> QED BY <1>1, <4>2, <4>4, <4>5
    <3> QED BY <3>1, <3>2 DEF OwnersExact
  <2>13. RingFresh'
    <3> SUFFICES ASSUME NEW p \in Sqs, NEW j \in Slots, Win(p, j)'
                 PROVE  /\ cq[p].slot[j].id \in Jobs
                        /\ performed[p][cq[p].slot[j].id] = 1 /\ answered'[p][cq[p].slot[j].id] = 0
                        /\ \A b \in Slots : Win(p, b)' /\ cq[p].slot[b].id = cq[p].slot[j].id => b = j
      BY <1>1, <2>4 DEF RingFresh
    <3>1. Win(p, j) /\ (p = q => j # y)
      BY <2>7
    <3>2. /\ cq[p].slot[j].id \in Jobs
          /\ performed[p][cq[p].slot[j].id] = 1 /\ answered[p][cq[p].slot[j].id] = 0
          /\ \A b \in Slots : Win(p, b) /\ cq[p].slot[b].id = cq[p].slot[j].id => b = j
      BY <3>1 DEF Once, RingFresh
    <3>3. p # q \/ cq[p].slot[j].id # i
      BY <2>5, <3>1
    <3>4. answered'[p][cq[p].slot[j].id] = 0
      BY <2>6, <3>2, <3>3
    <3> QED BY <2>7, <3>2, <3>4
  <2>14. TagsBound'
    <3> SUFFICES ASSUME NEW p \in Sqs PROVE Len(issued[p]) - Cardinality(Answered(p)') <= QSize - 1
      BY <1>2, <2>4 DEF TagsBound
    <3>1. QSize \in Nat /\ Len(issued[p]) \in Nat /\ Len(issued[p]) - Cardinality(Answered(p)) <= QSize - 1
      BY HostFacts DEF Sound, Types, QueueTypes, Once, TagsBound
    <3>2. CASE p = q
      <4>1. Answered(p)' = Answered(p) \cup {i}
        BY <2>5, <2>6, <3>2 DEF Answered, Jobs
      <4>2. i \notin Answered(p)
        BY <2>5, <3>2 DEF Answered
      <4>3. IsFiniteSet(Answered(p)) /\ Cardinality(Answered(p)) \in Nat
        BY AnsweredFinite
      <4>4. Cardinality(Answered(p) \cup {i}) = Cardinality(Answered(p)) + 1
        BY <4>2, <4>3, FS_AddElement
      <4> QED BY <3>1, <4>1, <4>3, <4>4
    <3>3. CASE p # q
      <4>1. Answered(p)' = Answered(p)
        BY <2>6, <3>3 DEF Answered, Jobs
      <4> QED BY <3>1, <4>1
    <3> QED BY <3>2, <3>3
  <2> QED BY <2>4, <2>9, <2>10, <2>11, <2>12, <2>13, <2>14 DEF Once
<1> QED BY <1>7, <1>8

LEMMA OnceStep ==
    ASSUME Sound, Once, [Next]_vars
    PROVE  Once'
<1>1. CASE Tick \/ UNCHANGED vars
  <2>1. UNCHANGED <<queues, hist, cq, host, wk, table, disp>>
    BY <1>1 DEF Tick, vars
  <2>2. RingKept /\ UNCHANGED <<issued, fetched, deferred, performed, answered>>
    BY <2>1, StillRing
  <2>3. DoingKept
    BY <2>1 DEF DoingKept, Doing
  <2>4. Keeps(table', table)
    BY <2>1 DEF Keeps
  <2>5. OwnKept
    BY <2>1, <2>4, KeepsOwn DEF Once
  <2> QED BY <2>2, <2>3, <2>5, OnceFrame
<1>2. CASE \E q \in Sqs, c \in Cmds : Issue(q, c)
  BY <1>2, IssueOnce
<1>3. CASE \E q \in Sqs : Handle(q)
  BY <1>3, HandleOnce
<1>4. CASE Dispatcher
  BY <1>4, ProcIoSqOnce, ProcIoDqOnce, EnqueueOnce, DispatcherOnce DEF Dispatcher
<1>5. CASE Worker
  BY <1>5, WorkerOnce, VisitEarlyOnce, CompleteOnce, MarkOnce DEF Worker
<1> QED BY <1>1, <1>2, <1>3, <1>4, <1>5 DEF Next

(* Whatever the sizes and the order of the threads' steps, a command's     *)
(* data is moved at most once and its completion is seen at most once, and *)
(* never before the data; the tags that the host has keep the worker from  *)
(* overwriting a completion that it has not taken (io.c, __do_perform_io   *)
(* and __fill_cq_result).                                                  *)
THEOREM OnceEachAlways == Spec => []OnceEach
<1>1. Init => Sound /\ Once
  BY InitSound, InitOnce
<1>2. (Sound /\ Once) /\ [Next]_vars => (Sound /\ Once)'
  BY SoundStep, OnceStep
<1>3. Sound /\ Once => OnceEach
  BY DEF Once, Counts, OnceEach, Jobs
<1> QED BY <1>1, <1>2, <1>3, PTL DEF Spec

-----------------------------------------------------------------------------
(* The write buffer.                                                       *)

\* Only an entry that is filled can be a writeback.
FreshEntries == \A e \in Entries : table[e].q = Nil => table[e].wb = FALSE

\* No writeback is dropped for want of an entry (__enqueue_io_req finds the
\* last entry of the free list and returns).
RoomForWritebacks == disp.pc = "alloc" /\ disp.wbs > 0 => table[freeSeq].next # Nil

Debts == {e \in Entries : Owing(e)}

LEMMA SameCardinality == ASSUME NEW S PROVE WB!Cardinality(S) = Cardinality(S)
BY DEF WB!Cardinality, Cardinality

LEMMA OwingFacts == IsFiniteSet(Debts) /\ Cardinality(Debts) \in Nat
<1>1. Debts \subseteq Entries
  BY DEF Debts
<1> QED BY <1>1, EntryFacts, FS_Subset, FS_CardinalityType

LEMMA ComingFacts ==
    ASSUME ThreadTypes
    PROVE  /\ Coming \in Nat /\ Writebacks \in Nat
           /\ disp.pc = "alloc" => Coming = disp.wbs /\ disp.wbs \in Nat
           /\ disp.pc = "link" => Coming = (IF disp.wbs > 0 THEN disp.wbs - 1 ELSE 0) /\ disp.wbs \in Nat
           /\ disp.pc \notin {"alloc", "link"} => Coming = 0
<1>1. disp.pc \in {"alloc", "link"} => disp.wbs \in Nat
  BY DEF ThreadTypes, DispTypes
<1>2. disp.pc = "alloc" => Coming = disp.wbs
  BY DEF Coming
<1>3. disp.pc = "link" => Coming = IF disp.wbs > 0 THEN disp.wbs - 1 ELSE 0
  BY DEF Coming
<1>4. disp.pc \notin {"alloc", "link"} => Coming = 0
  BY DEF Coming
<1>5. Coming \in Nat
  BY <1>1, <1>2, <1>3, <1>4
<1> QED BY <1>1, <1>2, <1>3, <1>4, <1>5, OwingFacts DEF Writebacks, Debts

(* What the queues and the table say to the buffer. *)
Buffered == <<Total, Unseen, Postponed, remaining, open, Writebacks, unpaid>>

LEMMA StutterIs == UNCHANGED Buffered => UNCHANGED WB!vars
BY DEF Buffered, WB!vars

LEMMA QueuesSame ==
    ASSUME UNCHANGED <<issued, fetched, deferred>>
    PROVE  Total' = Total /\ Unseen' = Unseen /\ Postponed' = Postponed
BY DEF Total, Unseen, Postponed

LEMMA ReleaseIs ==
    ASSUME Sound, Release
    PROVE  WB!Release
<1>1. /\ wk.pc = "visit" /\ ~Here.done /\ Here.wb
      /\ remaining' = remaining + Oneshot * SecsPerPg
      /\ wk' = [wk EXCEPT !.pc = "mark"]
      /\ UNCHANGED <<queues, open, unpaid, table, disp>>
  BY DEF Release
<1>2. wk.cur \in Entries /\ Here = table[wk.cur]
  BY <1>1, HereFacts
<1>3. wk'.pc = "mark" /\ wk'.cur = wk.cur
  BY <1>1 DEF Sound, Types, ThreadTypes
<1>4. Owing(wk.cur) /\ \A e \in Entries : Owing(e)' <=> (Owing(e) /\ e # wk.cur)
  BY <1>1, <1>2, <1>3 DEF Owing
<1>5. wk.cur \in Debts /\ Debts' = Debts \ {wk.cur}
  BY <1>2, <1>4 DEF Debts
<1>6. Cardinality(Debts') = Cardinality(Debts) - 1
  BY <1>5, OwingFacts, FS_RemoveElement
<1>7. Coming' = Coming /\ Coming \in Nat
  BY <1>1, ComingFacts DEF Coming, Sound, Types
<1>8. Cardinality(Debts) > 0
  BY <1>5, OwingFacts, FS_EmptySet
<1>9. Writebacks > 0 /\ Writebacks' = Writebacks - 1
  BY <1>6, <1>7, <1>8, OwingFacts DEF Writebacks, Debts
<1>10. Total' = Total /\ Unseen' = Unseen /\ Postponed' = Postponed
  BY <1>1, QueuesSame DEF queues
<1> QED BY <1>1, <1>9, <1>10 DEF WB!Release, WB!WordlineSecs

LEMMA FreshStep ==
    ASSUME Sound, FreshEntries, [Next]_vars
    PROVE  FreshEntries'
<1>1. CASE Keeps(table', table)
  BY <1>1 DEF FreshEntries, Keeps
<1>2. CASE Enqueue
  <2>1. CASE table[freeSeq].next = Nil
    BY <1>2, <2>1 DEF Enqueue, FreshEntries
  <2>2. CASE table[freeSeq].next # Nil
    <3>1. /\ freeSeq \in Entries /\ disp.q \in Sqs /\ table'[freeSeq].q = disp.q
          /\ \A e \in Entries : e # freeSeq => table'[e] = table[e]
      BY <1>2, <2>2, FillFacts
    <3> QED BY <3>1, EntryFacts DEF FreshEntries
  <2> QED BY <2>1, <2>2
<1>3. CASE Scan
  <2>1. PICK c \in Entries : WipedOnly(table', table, c)
    BY <1>3, ScanSound
  <2> QED BY <2>1 DEF WipedOnly, FreshEntries
<1>4. CASE VisitEarly \/ Complete
  <2>1. \A e \in Entries : table'[e].q = table[e].q /\ table'[e].wb = table[e].wb
    BY <1>4, PerformStep DEF VisitEarly, Complete
  <2> QED BY <2>1 DEF FreshEntries
<1>5. CASE Mark
  <2>1. wk.cur \in Entries /\ table \in Tables /\ table' = SetDone(table, wk.cur)
    BY <1>5, HereFacts DEF Mark, SetDone, Sound, Types, TableTypes, Tables
  <2>2. \A e \in Entries : table'[e].q = table[e].q /\ table'[e].wb = table[e].wb
    BY <2>1, DoneFacts
  <2> QED BY <2>2 DEF FreshEntries
<1>6. CASE Link \/ Unlink \/ Free
  BY <1>1, <1>6, LinkSound, UnlinkSound, FreeSound
<1>7. CASE table' = table
  BY <1>7 DEF FreshEntries
<1>8. CASE Worker
  BY <1>4, <1>5, <1>7, <1>8 DEF Worker, StartPass, Skip, Release, Advance, SignalIrq
<1>9. CASE Dispatcher
  BY <1>2, <1>3, <1>6, <1>7, <1>9 DEF Dispatcher, ProcIoSq, ProcIoDq, WalkBack
<1> QED BY <1>7, <1>8, <1>9 DEF Next, Tick, Issue, Handle, vars

(* A step after which the same entries owe sectors. *)
LEMMA SameDebts ==
    ASSUME \A e \in Entries : Owing(e)' <=> Owing(e)
    PROVE  Debts' = Debts
BY DEF Debts

LEMMA Unnoticed ==
    ASSUME UNCHANGED <<issued, fetched, deferred, buffer>>, Writebacks' = Writebacks
    PROVE  UNCHANGED Buffered
BY QueuesSame DEF Buffered, buffer

LEMMA SameWritebacks ==
    ASSUME \A e \in Entries : Owing(e)' <=> Owing(e), Coming' = Coming
    PROVE  Writebacks' = Writebacks
BY SameDebts DEF Writebacks, Debts

(* The worker's steps other than Release. *)
LEMMA WorkerUnnoticed ==
    ASSUME Sound, Worker, ~Release
    PROVE  UNCHANGED Buffered
<1>1. UNCHANGED <<queues, buffer, disp>>
  BY DEF Worker, StartPass, Skip, VisitEarly, Complete, Mark, Advance, SignalIrq
<1>2. wk \in [pc : Places, cur : Links]
  BY DEF Sound, Types, ThreadTypes, Places
<1>3. ASSUME NEW e \in Entries PROVE Owing(e)' <=> Owing(e)
  <2>1. CASE StartPass \/ Advance \/ SignalIrq \/ Skip
    <3>1. wk.pc # "mark" /\ wk'.pc # "mark" /\ table' = table
      BY <1>2, <2>1 DEF StartPass, Advance, SignalIrq, Skip
    <3> QED BY <3>1 DEF Owing
  <2>2. CASE VisitEarly
    <3>1. wk.pc # "mark" /\ wk'.pc # "mark"
      BY <1>2, <2>2 DEF VisitEarly
    <3>2. table'[e].wb = table[e].wb /\ table'[e].done = table[e].done
      BY <2>2, PerformStep DEF VisitEarly
    <3> QED BY <3>1, <3>2 DEF Owing
  <2>3. CASE Complete
    <3>1. wk.pc # "mark" /\ wk' = [wk EXCEPT !.pc = "mark"] /\ ~Here.wb
      BY <2>3 DEF Complete
    <3>2. table'[e].wb = table[e].wb /\ table'[e].done = table[e].done /\ Here = table[wk.cur]
      BY <2>3, PerformStep DEF Complete
    <3>3. wk'.cur = wk.cur
      BY <1>2, <3>1
    <3> QED BY <3>1, <3>2, <3>3 DEF Owing
  <2>4. CASE Mark
    <3>1. wk.cur \in Entries /\ table \in Tables /\ table' = SetDone(table, wk.cur)
          /\ wk.pc = "mark" /\ wk' = [wk EXCEPT !.pc = "next"]
      BY <2>4, HereFacts DEF Mark, SetDone, Sound, Types, TableTypes, Tables
    <3>2. /\ table'[e].wb = table[e].wb
          /\ (e = wk.cur => table'[e].done = TRUE) /\ (e # wk.cur => table'[e].done = table[e].done)
      BY <3>1, DoneFacts
    <3>3. wk'.pc = "next"
      BY <1>2, <3>1
    <3> QED BY <3>1, <3>2, <3>3 DEF Owing
  <2> QED BY <2>1, <2>2, <2>3, <2>4 DEF Worker
<1>4. Coming' = Coming
  BY <1>1 DEF Coming
<1>5. Writebacks' = Writebacks
  BY <1>3, <1>4, SameWritebacks
<1> QED BY <1>1, <1>5, Unnoticed DEF queues

LEMMA QueuedComing ==
    ASSUME Types, disp.pc \in {"alloc", "link"}, disp' = Queued, ThreadTypes'
    PROVE  Coming' = IF disp.wbs > 0 THEN disp.wbs - 1 ELSE 0
<1>1. disp.wbs \in Nat
  BY ComingFacts DEF Types
<1>2. CASE disp.wbs > 0
  <2>1. disp'.pc = "alloc" /\ disp'.wbs = disp.wbs - 1
    BY <1>2 DEF Queued
  <2> QED BY <1>1, <1>2, <2>1 DEF Coming
<1>3. CASE ~(disp.wbs > 0)
  <2>1. disp'.pc = "reclaim"
    BY <1>3 DEF Queued
  <2> QED BY <1>1, <1>3, <2>1 DEF Coming
<1> QED BY <1>2, <1>3

(* The dispatcher's steps on links. *)
LEMMA LinksUnnoticed ==
    ASSUME Sound, WalkBack \/ Link \/ Scan \/ Unlink \/ Free
    PROVE  UNCHANGED Buffered
<1>1. UNCHANGED <<queues, buffer, wk>>
  BY DEF WalkBack, Link, Scan, Unlink, Free
<1>2. Sound'
  BY WalkBackSound, LinkSound, ScanSound, UnlinkSound, FreeSound
<1>3. ASSUME NEW e \in Entries PROVE Owing(e)' <=> Owing(e)
  <2>1. CASE WalkBack
    BY <1>1, <2>1 DEF WalkBack, Owing
  <2>2. CASE Link \/ Unlink \/ Free
    <3>1. Keeps(table', table)
      BY <2>2, LinkSound, UnlinkSound, FreeSound
    <3> QED BY <1>1, <3>1 DEF Keeps, Owing
  <2>3. CASE Scan
    <3>1. PICK c \in Entries : c = Candidate /\ WipedOnly(table', table, c)
      BY <2>3, ScanSound
    <3>2. table[c].done
      BY <2>3, <3>1 DEF Scan, TakesBack, Reclaimable
    <3>3. CASE e = c
      BY <3>1, <3>2, <3>3 DEF WipedOnly, Owing
    <3>4. CASE e # c
      BY <1>1, <3>1, <3>4 DEF WipedOnly, Owing
    <3> QED BY <3>3, <3>4
  <2> QED BY <2>1, <2>2, <2>3
<1>4. Coming' = Coming
  <2>0. ThreadTypes /\ ThreadTypes'
    BY <1>2 DEF Sound, Types
  <2>1. CASE WalkBack
    <3>1. disp \in [pc : {"link"}, q : Sqs, id : Jobs, wbs : Nat, ent : Entries, at : Links]
      BY <2>1 DEF WalkBack, Sound, Types, ThreadTypes, DispTypes
    <3>2. disp' = [disp EXCEPT !.at = table[disp.at].prev]
      BY <2>1 DEF WalkBack
    <3>3. disp'.pc = disp.pc /\ disp'.wbs = disp.wbs
      BY <3>1, <3>2
    <3> QED BY <3>3 DEF Coming
  <2>2. CASE Link
    BY <2>0, <2>2, QueuedComing, ComingFacts DEF Link, Sound, Types
  <2>3. CASE Scan
    <3>1. disp \in [pc : {"reclaim"}, last : Links] /\ disp' = [disp EXCEPT !.last = Candidate]
      BY <2>3 DEF Scan, Sound, Types, ThreadTypes, DispTypes
    <3>2. disp.pc = "reclaim" /\ disp'.pc = "reclaim"
      BY <3>1
    <3> QED BY <3>2 DEF Coming
  <2>4. CASE Unlink \/ Free
    <3>1. disp.pc \in {"reclaim", "free"} /\ disp'.pc \in {"poll", "free"}
      BY <2>4 DEF Unlink, Free, Idle
    <3> QED BY <3>1 DEF Coming
  <2> QED BY <2>1, <2>2, <2>3, <2>4
<1>5. Writebacks' = Writebacks
  BY <1>3, <1>4, SameWritebacks
<1> QED BY <1>1, <1>5, Unnoticed DEF queues

(* Filling an entry: what was still to come is now in the table. *)
LEMMA EnqueueUnnoticed ==
    ASSUME Sound, FreshEntries, Enqueue, RoomForWritebacks
    PROVE  UNCHANGED Buffered
<1>1. UNCHANGED <<queues, buffer, wk>> /\ disp.pc = "alloc"
  BY DEF Enqueue
<1>2. Sound'
  BY EnqueueSound
<1>3. ThreadTypes /\ ThreadTypes' /\ disp.wbs \in Nat /\ Coming = disp.wbs
  BY <1>1, <1>2, ComingFacts DEF Sound, Types
<1>4. Cardinality(Debts) \in Nat /\ IsFiniteSet(Debts)
  BY OwingFacts
<1>5. CASE table[freeSeq].next = Nil
  <2>1. disp' = Queued /\ table' = table
    BY <1>5 DEF Enqueue
  <2>2. disp.wbs = 0
    BY <1>1, <1>3, <1>5 DEF RoomForWritebacks
  <2>3. Coming' = Coming
    BY <1>1, <1>3, <2>1, <2>2, QueuedComing DEF Sound
  <2>4. \A e \in Entries : Owing(e)' <=> Owing(e)
    BY <1>1, <2>1 DEF Owing
  <2> QED BY <1>1, <2>3, <2>4, SameWritebacks, Unnoticed DEF queues
<1>6. CASE table[freeSeq].next # Nil
  <2>1. PICK x : x = freeSeq
    OBVIOUS
  <2>2. /\ x \in Entries /\ disp'.pc = "link" /\ disp'.wbs = disp.wbs
        /\ \A e \in Entries : e # x => table'[e] = table[e]
        /\ disp.wbs > 0 => table'[x].wb = TRUE
        /\ ~(disp.wbs > 0) => table'[x].wb = FALSE
    BY <1>6, <2>1, FillFacts
  <2>3. table'[x].done = FALSE
    BY <1>6, <2>1, FillFacts
  <2>4. table[x].q = Nil
    <3>1. PICK s, n, m, f, k : Lay(s, n, m, f, k)
      BY DEF Lists, Sound
    <3>2. k \in Nat /\ k >= 1 /\ freeSeq = f[1] /\ \A j \in 1..k : table[f[j]].q = Nil
      BY <3>1, LayFacts DEF Lay, FreeList
    <3>3. 1 \in 1..k
      BY <3>2
    <3> QED BY <2>1, <3>2, <3>3
  <2>5. ~Owing(x) /\ ~(wk.cur = x /\ wk.pc = "mark")
    BY <2>2, <2>4 DEF FreshEntries, Owing, Sound, WorkerAt
  <2>6. Owing(x)' <=> disp.wbs > 0
    BY <1>1, <2>2, <2>3, <2>5 DEF Owing
  <2>7. \A e \in Entries : e # x => (Owing(e)' <=> Owing(e))
    BY <1>1, <2>2 DEF Owing
  <2>8. Coming' = IF disp.wbs > 0 THEN disp.wbs - 1 ELSE 0
    BY <1>3, <2>2, ComingFacts DEF Coming
  <2>9. CASE disp.wbs > 0
    <3>1. Debts' = Debts \cup {x} /\ x \notin Debts
      BY <2>2, <2>5, <2>6, <2>7, <2>9 DEF Debts
    <3>2. Cardinality(Debts') = Cardinality(Debts) + 1
      BY <1>4, <3>1, FS_AddElement
    <3>3. Writebacks' = Writebacks
      BY <1>3, <1>4, <2>8, <2>9, <3>2 DEF Writebacks, Debts
    <3> QED BY <1>1, <3>3, Unnoticed DEF queues
  <2>10. CASE ~(disp.wbs > 0)
    <3>1. \A e \in Entries : Owing(e)' <=> Owing(e)
      BY <2>5, <2>6, <2>7, <2>10
    <3>2. Coming' = Coming
      BY <1>3, <2>8, <2>10
    <3> QED BY <1>1, <3>1, <3>2, SameWritebacks, Unnoticed DEF queues
  <2> QED BY <2>9, <2>10
<1> QED BY <1>5, <1>6

(* Issue. *)
LEMMA TotalGrows ==
    ASSUME Types, NEW q \in Sqs, NEW c, issued' = [issued EXCEPT ![q] = Append(issued[q], c)]
    PROVE  Total' = Total + 1
<1> DEFINE F(p) == {p} \X (1..Len(issued[p]))
           S == UNION {F(p) : p \in Sqs}
           x == <<q, Len(issued[q]) + 1>>
<1>1. IsFiniteSet(S)
  BY TotalFinite DEF Types
<1>2. Total = Cardinality(S)
  BY DEF Total
<1>3. ASSUME NEW p \in Sqs
      PROVE  {p} \X (1..Len(issued'[p])) = IF p = q THEN F(p) \cup {x} ELSE F(p)
  <2>1. CASE p = q
    <3>1. issued[q] \in Seq(Reads \cup Writes) /\ Len(issued[q]) \in Nat /\ issued'[p] = Append(issued[q], c)
      BY <2>1 DEF Types, QueueTypes
    <3>2. Len(issued'[p]) = Len(issued[q]) + 1
      BY <3>1
    <3>3. 1..(Len(issued[q]) + 1) = (1..Len(issued[q])) \cup {Len(issued[q]) + 1}
      BY <3>1
    <3> QED BY <2>1, <3>2, <3>3
  <2>2. CASE p # q
    BY <2>2 DEF Types, QueueTypes
  <2> QED BY <2>1, <2>2
<1>4. Total' = Cardinality(UNION {{p} \X (1..Len(issued'[p])) : p \in Sqs})
  BY DEF Total
<1>5. UNION {{p} \X (1..Len(issued'[p])) : p \in Sqs} = S \cup {x}
  <2>1. \A y : y \in UNION {{p} \X (1..Len(issued'[p])) : p \in Sqs}
                  <=> \E p \in Sqs : y \in {p} \X (1..Len(issued'[p]))
    OBVIOUS
  <2>2. \A y : y \in S <=> \E p \in Sqs : y \in F(p)
    OBVIOUS
  <2> HIDE DEF F, S, x
  <2> QED BY <1>3, <2>1, <2>2
<1>6. x \notin S
  <2>1. Len(issued[q]) \in Nat
    BY DEF Types, QueueTypes
  <2> QED BY <2>1
<1> HIDE DEF S, x
<1>7. Cardinality(S \cup {x}) = Cardinality(S) + 1
  BY <1>1, <1>6, FS_AddElement
<1> QED BY <1>2, <1>4, <1>5, <1>7

(* The rest of a queue, when a command is put in and when one is taken. *)
LEMMA RestGrows ==
    ASSUME NEW S, NEW s \in Seq(S), NEW c \in S, NEW m \in 0..Len(s)
    PROVE  SubSeq(Append(s, c), m + 1, Len(Append(s, c))) = Append(SubSeq(s, m + 1, Len(s)), c)
<1>1. /\ Append(s, c) \in Seq(S) /\ Len(Append(s, c)) = Len(s) + 1 /\ Len(s) \in Nat
      /\ \A i \in 1..Len(s) : Append(s, c)[i] = s[i]
      /\ Append(s, c)[Len(s) + 1] = c
  BY AppendProperties, LenProperties
<1> DEFINE t == Append(s, c)
           u == SubSeq(t, m + 1, Len(s))
<1>2. m + 1 \in 1..Len(t) /\ Len(s) + 1 \in (m + 1)..Len(t) /\ (Len(s) + 1) - 1 = Len(s) /\ t \in Seq(S)
      /\ t[Len(s) + 1] = c
  BY <1>1
<1> HIDE DEF t
<1>3. SubSeq(t, m + 1, Len(s) + 1) = u \o <<c>>
  <2>1. SubSeq(t, m + 1, Len(s) + 1) = SubSeq(t, m + 1, (Len(s) + 1) - 1) \o <<t[Len(s) + 1]>>
    BY <1>2, SubSeqRecursiveSecond
  <2> QED BY <1>2, <2>1
<1>4. u = SubSeq(s, m + 1, Len(s)) /\ u \in Seq(S)
  <2>1. \A i \in (m + 1)..Len(s) : t[i] \in S /\ s[i] \in S /\ t[i] = s[i]
    BY <1>1 DEF t
  <2>2. m + 1 \in Int /\ Len(s) \in Int
    BY <1>1
  <2> DEFINE a == m + 1
             b == Len(s)
             v == SubSeq(s, a, b)
  <2>3. \A i \in a..b : t[i] \in S /\ s[i] \in S /\ t[i] = s[i]
    BY <2>1
  <2>4. a \in Int /\ b \in Int
    BY <2>2
  <2> HIDE DEF a, b
  <2>5. /\ SubSeq(t, a, b) \in Seq(S) /\ Len(SubSeq(t, a, b)) = IF a <= b THEN b - a + 1 ELSE 0
        /\ \A i \in 1..(b - a + 1) : SubSeq(t, a, b)[i] = t[a + i - 1]
    BY <2>3, <2>4, SubSeqProperties
  <2>6. /\ v \in Seq(S) /\ Len(v) = IF a <= b THEN b - a + 1 ELSE 0
        /\ \A i \in 1..(b - a + 1) : v[i] = s[a + i - 1]
    BY <2>3, <2>4, SubSeqProperties
  <2>7. ASSUME NEW i \in 1..Len(v) PROVE SubSeq(t, a, b)[i] = v[i]
    <3> HIDE DEF v
    <3>1. a <= b /\ i \in 1..(b - a + 1) /\ a + i - 1 \in a..b
      BY <2>4, <2>6
    <3> QED BY <2>3, <2>5, <2>6, <3>1 DEF v
  <2>8. SubSeq(t, a, b) = v
    <3> HIDE DEF v
    <3> QED BY <2>5, <2>6, <2>7, SeqEqual
  <2> QED BY <2>5, <2>8 DEF a, b
<1>5. u \o <<c>> = Append(u, c)
  BY <1>4, AppendIsConcat
<1> QED BY <1>1, <1>3, <1>4, <1>5 DEF t

LEMMA RestShrinks ==
    ASSUME NEW S, NEW s \in Seq(S), NEW m \in Nat, m < Len(s)
    PROVE  /\ SubSeq(s, m + 1, Len(s)) # << >>
           /\ Head(SubSeq(s, m + 1, Len(s))) = s[m + 1]
           /\ Tail(SubSeq(s, m + 1, Len(s))) = SubSeq(s, (m + 1) + 1, Len(s))
<1>1. Len(s) \in Nat /\ m + 1 \in 1..Len(s) /\ Len(s) \in (m + 1)..Len(s)
  BY LenProperties
<1>2. Len(SubSeq(s, m + 1, Len(s))) = Len(s) - (m + 1) + 1
  <2> DEFINE a == m + 1
             b == Len(s)
  <2>1. a \in Int /\ b \in Int /\ a <= b /\ \A i \in a..b : s[i] \in S
    BY <1>1
  <2> HIDE DEF a, b
  <2>2. Len(SubSeq(s, a, b)) = b - a + 1
    BY <2>1, SubSeqProperties
  <2> QED BY <2>2 DEF a, b
<1>3. SubSeq(s, m + 1, Len(s)) # << >>
  <2> DEFINE x == SubSeq(s, m + 1, Len(s))
  <2>1. Len(x) > 0
    BY <1>1, <1>2
  <2> HIDE DEF x
  <2>2. x # << >>
    BY <2>1, EmptySeq
  <2> QED BY <2>2 DEF x
<1> QED BY <1>1, <1>3, HeadTailOfSubSeq

(* Commands named by their places. *)
Named(s, d) == [i \in DOMAIN d |-> s[d[i]]]

LEMMA NamedGrows ==
    ASSUME NEW S, NEW s, NEW d \in Seq(Nat), \A i \in 1..Len(d) : s[d[i]] \in S, NEW j \in Nat, s[j] \in S
    PROVE  Named(s, Append(d, j)) = Append(Named(s, d), s[j])
<1> DEFINE e == Append(d, j)
           n == Named(s, d)
           x == s[j]
           v == Append(n, x)
           w == Named(s, e)
<1>1. /\ e \in Seq(Nat) /\ Len(e) = Len(d) + 1 /\ Len(d) \in Nat
      /\ \A i \in 1..Len(d) : e[i] = d[i]
      /\ e[Len(d) + 1] = j
  BY AppendProperties, LenProperties
<1>2. n \in Seq(S) /\ Len(n) = Len(d) /\ \A i \in 1..Len(d) : n[i] = s[d[i]]
  <2>1. Len(d) \in Nat /\ DOMAIN d = 1..Len(d)
    BY LenProperties
  <2>2. n = [i \in 1..Len(d) |-> s[d[i]]]
    BY <2>1 DEF Named
  <2> QED BY <2>1, <2>2
<1> HIDE DEF e, n
<1>3. ASSUME NEW i \in 1..Len(e) PROVE s[e[i]] \in S /\ s[e[i]] = (IF i <= Len(d) THEN s[d[i]] ELSE x)
  <2>1. CASE i <= Len(d)
    BY <1>1, <2>1
  <2>2. CASE ~(i <= Len(d))
    BY <1>1, <2>2
  <2> QED BY <2>1, <2>2
<1>4. w \in Seq(S) /\ Len(w) = Len(e) /\ \A i \in 1..Len(e) : w[i] = s[e[i]]
  <2>1. e \in Seq(Nat) /\ \A i \in 1..Len(e) : s[e[i]] \in S
    BY <1>1, <1>3
  <2>2. Len(e) \in Nat /\ DOMAIN e = 1..Len(e)
    BY <2>1, LenProperties
  <2>3. w = [i \in 1..Len(e) |-> s[e[i]]]
    BY <2>2 DEF Named
  <2> QED BY <2>1, <2>2, <2>3
<1> HIDE DEF w
<1>5. x \in S
  OBVIOUS
<1> HIDE DEF x
<1>6. /\ v \in Seq(S) /\ Len(v) = Len(n) + 1
      /\ \A i \in 1..Len(n) : v[i] = n[i]
      /\ v[Len(n) + 1] = x
  BY <1>2, <1>5, AppendProperties
<1> HIDE DEF v
<1>7. ASSUME NEW i \in 1..Len(w) PROVE w[i] = v[i]
  <2>1. i \in 1..Len(e) /\ w[i] = (IF i <= Len(d) THEN s[d[i]] ELSE x)
    BY <1>3, <1>4
  <2>2. CASE i <= Len(d)
    <3>1. i \in 1..Len(d)
      BY <1>1, <2>1, <2>2
    <3> QED BY <1>2, <1>6, <2>1, <2>2, <3>1
  <2>3. CASE ~(i <= Len(d))
    <3>1. i = Len(n) + 1
      BY <1>1, <1>2, <2>1, <2>3
    <3> QED BY <1>6, <2>1, <2>3, <3>1
  <2> QED BY <2>2, <2>3
<1>8. w = v
  BY <1>1, <1>2, <1>4, <1>6, <1>7, SeqEqual
<1> QED BY <1>8 DEF w, v, n, e, x

LEMMA NamedShrinks ==
    ASSUME NEW S, NEW s, NEW d \in Seq(Nat), \A i \in 1..Len(d) : s[d[i]] \in S, d # << >>
    PROVE  Named(s, d) # << >> /\ Head(Named(s, d)) = s[Head(d)] /\ Tail(Named(s, d)) = Named(s, Tail(d))
<1> DEFINE e == Tail(d)
           n == Named(s, d)
           v == Tail(n)
           w == Named(s, e)
<1>1. /\ e \in Seq(Nat) /\ Len(e) = Len(d) - 1 /\ Len(d) \in Nat \ {0}
      /\ \A i \in 1..Len(e) : e[i] = d[i + 1]
      /\ Head(d) = d[1] /\ 1 \in 1..Len(d)
  BY HeadTailProperties, LenProperties, EmptySeq
<1>2. n \in Seq(S) /\ Len(n) = Len(d) /\ \A i \in 1..Len(d) : n[i] = s[d[i]]
  <2>1. Len(d) \in Nat /\ DOMAIN d = 1..Len(d)
    BY LenProperties
  <2>2. n = [i \in 1..Len(d) |-> s[d[i]]]
    BY <2>1 DEF Named
  <2> QED BY <2>1, <2>2
<1> HIDE DEF e, n
<1>3. n # << >> /\ Head(n) = s[Head(d)]
  BY <1>1, <1>2
<1>4. v \in Seq(S) /\ Len(v) = Len(n) - 1 /\ \A i \in 1..Len(v) : v[i] = n[i + 1]
  BY <1>2, <1>3, HeadTailProperties
<1>5. ASSUME NEW i \in 1..Len(e) PROVE i + 1 \in 1..Len(d) /\ s[e[i]] \in S /\ s[e[i]] = s[d[i + 1]]
  BY <1>1
<1>6. w \in Seq(S) /\ Len(w) = Len(e) /\ \A i \in 1..Len(e) : w[i] = s[e[i]]
  <2>1. e \in Seq(Nat) /\ \A i \in 1..Len(e) : s[e[i]] \in S
    BY <1>1, <1>5
  <2>2. Len(e) \in Nat /\ DOMAIN e = 1..Len(e)
    BY <2>1, LenProperties
  <2>3. w = [i \in 1..Len(e) |-> s[e[i]]]
    BY <2>2 DEF Named
  <2> QED BY <2>1, <2>2, <2>3
<1> HIDE DEF v, w
<1>7. ASSUME NEW i \in 1..Len(v) PROVE v[i] = w[i]
  <2>1. i \in 1..Len(e) /\ i + 1 \in 1..Len(d)
    BY <1>1, <1>2, <1>4
  <2>2. v[i] = n[i + 1] /\ n[i + 1] = s[d[i + 1]]
    BY <1>2, <1>4, <2>1
  <2> QED BY <1>5, <1>6, <2>1, <2>2
<1>8. v = w
  BY <1>1, <1>2, <1>4, <1>6, <1>7, SeqEqual
<1> QED BY <1>3, <1>8 DEF v, w, n, e

(* A command of a queue. *)
LEMMA CommandFacts ==
    ASSUME Types, NEW q \in Sqs, NEW j \in 1..Len(issued[q])
    PROVE  issued[q][j] \in Reads \cup Writes
BY ElementOfSeq DEF Types, QueueTypes

LEMMA QueueFacts ==
    ASSUME Types, NEW q \in Sqs
    PROVE  /\ issued[q] \in Seq(Reads \cup Writes) /\ Len(issued[q]) \in Nat
           /\ fetched[q] \in Nat /\ fetched[q] <= Len(issued[q])
           /\ deferred[q] \in Seq(Nat)
           /\ \A i \in 1..Len(deferred[q]) :
                 deferred[q][i] \in 1..Len(issued[q]) /\ issued[q][deferred[q][i]] \in Reads \cup Writes
<1>1. /\ issued[q] \in Seq(Reads \cup Writes) /\ Len(issued[q]) \in Nat
      /\ fetched[q] \in Nat /\ fetched[q] <= Len(issued[q])
      /\ deferred[q] \in Seq(Nat)
  BY LenProperties DEF Types, QueueTypes
<1>2. ASSUME NEW i \in 1..Len(deferred[q])
      PROVE  deferred[q][i] \in 1..Len(issued[q]) /\ issued[q][deferred[q][i]] \in Reads \cup Writes
  <2>1. deferred[q][i] \in 1..fetched[q]
    BY DEF Types, QueueTypes
  <2>2. deferred[q][i] \in 1..Len(issued[q])
    BY <1>1, <2>1
  <2> QED BY <2>2, CommandFacts
<1> QED BY <1>1, <1>2

LEMMA IssueIs ==
    ASSUME Types, NEW q \in Sqs, NEW c \in Cmds, Issue(q, c)
    PROVE  c \in Reads \cup Writes /\ WB!Issue(q, c)
<1>1. c \in Reads \cup Writes
  BY DEF Cmds
<1>2. /\ issued' = [issued EXCEPT ![q] = Append(issued[q], c)]
      /\ UNCHANGED <<fetched, deferred, buffer, table, disp, wk>>
  BY DEF Issue
<1>3. Total \in Nat /\ Total < MaxCmds /\ Total' = Total + 1
  <2>1. Total < hc.budget /\ hc.budget \in 0..MaxCmds
    BY HostFacts DEF Types, Issue
  <2>2. Total \in Nat
    BY TotalCovers DEF Types
  <2>3. Total' = Total + 1
    BY <1>2, TotalGrows
  <2> QED BY <2>1, <2>2, <2>3, ConstFacts
<1>4. Writebacks' = Writebacks
  <2>1. \A e \in Entries : Owing(e)' <=> Owing(e)
    BY <1>2 DEF Owing
  <2>2. Coming' = Coming
    BY <1>2 DEF Coming
  <2> QED BY <2>1, <2>2, SameWritebacks
<1>5. ASSUME NEW p \in Sqs
      PROVE  issued'[p] = IF p = q THEN Append(issued[q], c) ELSE issued[p]
  BY <1>2 DEF Types, QueueTypes
<1>6. Unseen' = [Unseen EXCEPT ![q] = Append(Unseen[q], c)]
  <2>1. /\ issued[q] \in Seq(Reads \cup Writes) /\ fetched[q] \in 0..Len(issued[q])
        /\ Unseen[q] = SubSeq(issued[q], fetched[q] + 1, Len(issued[q]))
    BY QueueFacts DEF Unseen
  <2>2. SubSeq(Append(issued[q], c), fetched[q] + 1, Len(Append(issued[q], c))) = Append(Unseen[q], c)
    BY <1>1, <2>1, RestGrows
  <2> DEFINE U == [p \in Sqs |-> SubSeq(issued'[p], fetched[p] + 1, Len(issued'[p]))]
  <2>3. Unseen' = U
    BY <1>2 DEF Unseen
  <2>4. ASSUME NEW p \in Sqs PROVE U[p] = IF p = q THEN Append(Unseen[q], c) ELSE Unseen[p]
    <3>1. U[p] = SubSeq(issued'[p], fetched[p] + 1, Len(issued'[p]))
      OBVIOUS
    <3>2. CASE p = q
      BY <1>5, <2>2, <3>1, <3>2
    <3>3. CASE p # q
      BY <1>5, <3>1, <3>3 DEF Unseen
    <3> QED BY <3>2, <3>3
  <2>5. U = [p \in Sqs |-> U[p]] /\ Unseen = [p \in Sqs |-> Unseen[p]]
    BY DEF Unseen
  <2> HIDE DEF U
  <2> QED BY <2>3, <2>4, <2>5
<1>7. Postponed' = Postponed
  <2> DEFINE V(p) == [i \in DOMAIN deferred[p] |-> issued'[p][deferred[p][i]]]
             W(p) == [i \in DOMAIN deferred[p] |-> issued[p][deferred[p][i]]]
  <2>1. ASSUME NEW p \in Sqs PROVE V(p) = W(p)
    <3>1. CASE p = q
      <4>1. /\ DOMAIN deferred[p] = 1..Len(deferred[p]) /\ issued[p] \in Seq(Reads \cup Writes)
            /\ \A i \in 1..Len(deferred[p]) : deferred[p][i] \in 1..Len(issued[p])
        BY QueueFacts, LenProperties
      <4>2. \A j \in 1..Len(issued[p]) : issued'[p][j] = issued[p][j]
        <5>1. issued'[p] = Append(issued[p], c)
          BY <1>5, <3>1
        <5>2. \A j \in 1..Len(issued[p]) : Append(issued[p], c)[j] = issued[p][j]
          BY <1>1, <4>1, AppendProperties
        <5> QED BY <5>1, <5>2
      <4> QED BY <4>1, <4>2
    <3>2. CASE p # q
      BY <1>5, <3>2
    <3> QED BY <3>1, <3>2
  <2>2. Postponed' = [p \in Sqs |-> V(p)] /\ Postponed = [p \in Sqs |-> W(p)]
    BY <1>2 DEF Postponed
  <2> HIDE DEF V, W
  <2> QED BY <2>1, <2>2
<1> QED BY <1>1, <1>2, <1>3, <1>4, <1>6, <1>7 DEF WB!Issue, buffer

(* proc_io_cmd on a command it accepts. *)
LEMMA AcceptIs ==
    ASSUME Types, NEW q \in Sqs, NEW j \in 1..Len(issued[q]), disp.pc = "poll",
           ~Defers(issued[q][j]), Accept(q, j), UNCHANGED <<table, wk>>
    PROVE  WB!Fits(issued[q][j]) /\ WB!ProcIoCmd(issued[q][j])
<1> DEFINE c == issued[q][j]
<1>1. c \in Reads \cup Writes
  BY CommandFacts
<1>2. c.len \in Nat /\ remaining \in Nat
  <2>1. c \in [lba : Nat, len : Nat \ {0}]
    BY <1>1, IoAssumption
  <2> QED BY <2>1 DEF Types, BufferTypes
<1>3. Debts' = Debts /\ Cardinality(Debts) \in Nat
  <2>1. \A e \in Entries : Owing(e)' <=> Owing(e)
    BY DEF Owing
  <2> QED BY <2>1, SameDebts, OwingFacts
<1>4. Coming = 0
  BY ComingFacts DEF Types
<1>5. CASE c \in Writes
  <2>1. /\ remaining' = remaining - c.len
        /\ open' = [i \in DOMAIN open |-> (open[i] + PagesIn(c, i)) % Oneshot]
        /\ unpaid' = unpaid + Cardinality(Lpns(c)) * SecsPerPg - c.len
        /\ disp' = [pc |-> "alloc", q |-> q, id |-> j, wbs |-> Cardinality(Filled(c))]
    BY <1>5 DEF Accept, Filled
  <2>2. WB!Lpns(c) = Lpns(c) /\ \A i : WB!PagesIn(c, i) = PagesIn(c, i)
    <3>1. WB!Lpns(c) = Lpns(c)
      BY DEF WB!Lpns, Lpns
    <3>2. ASSUME NEW i PROVE WB!PagesIn(c, i) = PagesIn(c, i)
      <4> HIDE DEF c
      <4>1. WB!PagesIn(c, i) = WB!Cardinality({l \in Lpns(c) : l % Parts = i})
        BY <3>1 DEF WB!PagesIn
      <4> QED BY <4>1, SameCardinality DEF PagesIn
    <3> QED BY <3>1, <3>2
  <2>3. Filled(c) = UNION {{i} \X (1..WB!Filled(c, i)) : i \in DOMAIN open}
    BY <2>2 DEF Filled, WB!Filled
  <2>4. WB!Fits(c)
    BY <1>2, <1>5 DEF Defers, WB!Fits
  <2> HIDE DEF c
  <2>5. Cardinality(Filled(c)) \in Nat
    BY <1>1, FilledFacts DEF Types
  <2>6. Coming' = Cardinality(Filled(c))
    BY <2>1 DEF Coming
  <2>7. Writebacks' = Writebacks + Cardinality(Filled(c))
    <3>1. Writebacks = Cardinality(Debts) + Coming /\ Writebacks' = Cardinality(Debts') + Coming'
      BY DEF Writebacks, Debts
    <3> QED BY <1>3, <1>4, <2>5, <2>6, <3>1
  <2>8. WB!ConvWrite(c)
    <3>1. /\ WB!Cardinality(WB!Lpns(c)) = Cardinality(Lpns(c))
          /\ WB!Cardinality(UNION {{i} \X (1..WB!Filled(c, i)) : i \in DOMAIN open}) = Cardinality(Filled(c))
      BY <2>2, <2>3, SameCardinality
    <3>2. open' = [i \in DOMAIN open |-> (open[i] + WB!PagesIn(c, i)) % Oneshot]
      BY <2>1, <2>2
    <3> QED BY <2>1, <2>7, <3>1, <3>2 DEF WB!ConvWrite
  <2> QED BY <1>5, <2>4, <2>8 DEF WB!ProcIoCmd, c
<1>6. CASE c \notin Writes
  <2>1. disp' = [pc |-> "alloc", q |-> q, id |-> j, wbs |-> 0] /\ UNCHANGED buffer
    BY <1>6 DEF Accept
  <2>2. Coming' = 0
    BY <2>1 DEF Coming
  <2>3. Writebacks' = Writebacks
    BY <1>3, <1>4, <2>2 DEF Writebacks, Debts
  <2> QED BY <1>6, <2>1, <2>3 DEF WB!ProcIoCmd, WB!Fits, buffer
<1> QED BY <1>5, <1>6

LEMMA ProcIoSqIs ==
    ASSUME Types, NEW q \in Sqs, ProcIoSq(q)
    PROVE  WB!ProcIoSq(q)
<1> DEFINE j == fetched[q] + 1
           c == issued[q][j]
<1>1. /\ disp.pc = "poll" /\ fetched[q] < Len(issued[q])
      /\ fetched' = [fetched EXCEPT ![q] = j]
      /\ UNCHANGED <<issued, table, wk>>
      /\ \/ ~Defers(c) /\ Accept(q, j) /\ UNCHANGED deferred
         \/ Defers(c) /\ deferred' = [deferred EXCEPT ![q] = Append(deferred[q], j)] /\ UNCHANGED <<buffer, disp>>
  BY DEF ProcIoSq
<1>2. /\ issued[q] \in Seq(Reads \cup Writes) /\ Len(issued[q]) \in Nat /\ fetched[q] \in Nat
      /\ deferred[q] \in Seq(Nat)
      /\ \A i \in 1..Len(deferred[q]) :
            deferred[q][i] \in 1..Len(issued[q]) /\ issued[q][deferred[q][i]] \in Reads \cup Writes
  BY QueueFacts
<1>3. j \in 1..Len(issued[q]) /\ j \in Nat
  BY <1>1, <1>2
<1>4. c \in Reads \cup Writes
  BY <1>3, CommandFacts
<1>5. Unseen[q] # << >> /\ Head(Unseen[q]) = c /\ Tail(Unseen[q]) = SubSeq(issued[q], j + 1, Len(issued[q]))
  <2>1. Unseen[q] = SubSeq(issued[q], fetched[q] + 1, Len(issued[q]))
    BY DEF Unseen
  <2> QED BY <1>1, <1>2, <2>1, RestShrinks
<1>6. Unseen' = [Unseen EXCEPT ![q] = Tail(Unseen[q])]
  <2> DEFINE U == [p \in Sqs |-> SubSeq(issued[p], fetched'[p] + 1, Len(issued[p]))]
  <2>1. Unseen' = U
    BY <1>1 DEF Unseen
  <2>2. ASSUME NEW p \in Sqs PROVE U[p] = IF p = q THEN Tail(Unseen[q]) ELSE Unseen[p]
    <3>1. fetched'[p] = IF p = q THEN j ELSE fetched[p]
      BY <1>1 DEF Types, QueueTypes
    <3>2. U[p] = SubSeq(issued[p], fetched'[p] + 1, Len(issued[p]))
      OBVIOUS
    <3>3. CASE p = q
      BY <1>5, <3>1, <3>2, <3>3
    <3>4. CASE p # q
      BY <3>1, <3>2, <3>4 DEF Unseen
    <3> QED BY <3>3, <3>4
  <2>3. U = [p \in Sqs |-> U[p]] /\ Unseen = [p \in Sqs |-> Unseen[p]]
    BY DEF Unseen
  <2> HIDE DEF U
  <2> QED BY <2>1, <2>2, <2>3
<1>7. Total' = Total
  BY <1>1 DEF Total
<1> HIDE DEF j
<1>8. CASE ~Defers(c)
  <2>1. Accept(q, j) /\ UNCHANGED deferred
    BY <1>1, <1>8
  <2>2. WB!Fits(c) /\ WB!ProcIoCmd(c)
    BY <1>1, <1>3, <1>8, <2>1, AcceptIs
  <2>3. Postponed' = Postponed
    BY <1>1, <2>1 DEF Postponed
  <2> HIDE DEF c
  <2> QED BY <1>5, <1>6, <1>7, <2>2, <2>3 DEF WB!ProcIoSq
<1>9. CASE Defers(c)
  <2>1. deferred' = [deferred EXCEPT ![q] = Append(deferred[q], j)] /\ UNCHANGED <<buffer, disp>>
    BY <1>1, <1>9
  <2>2. ~WB!Fits(c)
    <3>1. c \in [lba : Nat, len : Nat \ {0}] /\ remaining \in Nat
      BY <1>4, IoAssumption DEF Types, BufferTypes
    <3> QED BY <1>9, <3>1 DEF Defers, WB!Fits
  <2>3. Named(issued[q], Append(deferred[q], j)) = Append(Named(issued[q], deferred[q]), c)
    <3> DEFINE s == issued[q]
               d == deferred[q]
               S == Reads \cup Writes
    <3>1. d \in Seq(Nat) /\ (\A i \in 1..Len(d) : s[d[i]] \in S) /\ j \in Nat /\ s[j] \in S
      BY <1>2, <1>3, <1>4
    <3> HIDE DEF s, d, S
    <3>2. Named(s, Append(d, j)) = Append(Named(s, d), s[j])
      BY <3>1, NamedGrows
    <3> QED BY <3>2 DEF s, d
  <2>4. Postponed' = [Postponed EXCEPT ![q] = Append(Postponed[q], c)]
    <3> DEFINE V == [p \in Sqs |-> Named(issued[p], deferred'[p])]
    <3>1. Postponed' = V /\ Postponed = [p \in Sqs |-> Named(issued[p], deferred[p])]
      BY <1>1 DEF Postponed, Named
    <3>2. ASSUME NEW p \in Sqs PROVE V[p] = IF p = q THEN Append(Postponed[q], c) ELSE Postponed[p]
      <4>1. deferred'[p] = IF p = q THEN Append(deferred[q], j) ELSE deferred[p]
        BY <2>1 DEF Types, QueueTypes
      <4> QED BY <2>3, <3>1, <4>1
    <3>3. V = [p \in Sqs |-> V[p]] /\ Postponed = [p \in Sqs |-> Postponed[p]]
      BY DEF Postponed
    <3> HIDE DEF V
    <3> QED BY <3>1, <3>2, <3>3
  <2>5. Writebacks' = Writebacks
    <3>1. \A e \in Entries : Owing(e)' <=> Owing(e)
      BY <1>1 DEF Owing
    <3>2. Coming' = Coming
      BY <2>1 DEF Coming
    <3> QED BY <3>1, <3>2, SameWritebacks
  <2> HIDE DEF c
  <2> QED BY <1>5, <1>6, <1>7, <2>1, <2>2, <2>4, <2>5 DEF WB!ProcIoSq, buffer
<1> QED BY <1>8, <1>9

LEMMA ProcIoDqIs ==
    ASSUME Types, NEW q \in Sqs, ProcIoDq(q)
    PROVE  WB!ProcIoDq(q)
<1> DEFINE j == Head(deferred[q])
           c == issued[q][j]
<1>1. /\ disp.pc = "poll" /\ deferred[q] # << >> /\ ~Defers(c) /\ Accept(q, j)
      /\ deferred' = [deferred EXCEPT ![q] = Tail(deferred[q])]
      /\ UNCHANGED <<issued, fetched, table, wk>>
  BY DEF ProcIoDq
<1>2. /\ deferred[q] \in Seq(Nat)
      /\ \A i \in 1..Len(deferred[q]) :
            deferred[q][i] \in 1..Len(issued[q]) /\ issued[q][deferred[q][i]] \in Reads \cup Writes
  BY QueueFacts
<1>3. j \in 1..Len(issued[q])
  <2>1. 1 \in 1..Len(deferred[q]) /\ j = deferred[q][1]
    BY <1>1, <1>2
  <2> QED BY <1>2, <2>1
<1>4. /\ Named(issued[q], deferred[q]) # << >> /\ Head(Named(issued[q], deferred[q])) = c
      /\ Tail(Named(issued[q], deferred[q])) = Named(issued[q], Tail(deferred[q]))
  <2> DEFINE s == issued[q]
             d == deferred[q]
             S == Reads \cup Writes
  <2>1. d \in Seq(Nat) /\ (\A i \in 1..Len(d) : s[d[i]] \in S) /\ d # << >>
    BY <1>1, <1>2
  <2> HIDE DEF s, d, S
  <2>2. Named(s, d) # << >> /\ Head(Named(s, d)) = s[Head(d)] /\ Tail(Named(s, d)) = Named(s, Tail(d))
    BY <2>1, NamedShrinks
  <2> QED BY <2>2 DEF s, d
<1> HIDE DEF j
<1>5. WB!Fits(c) /\ WB!ProcIoCmd(c)
  BY <1>1, <1>3, AcceptIs
<1>6. Postponed[q] # << >> /\ Head(Postponed[q]) = c
      /\ Postponed' = [Postponed EXCEPT ![q] = Tail(Postponed[q])]
  <2> DEFINE V == [p \in Sqs |-> Named(issued[p], deferred'[p])]
  <2>1. Postponed' = V /\ Postponed = [p \in Sqs |-> Named(issued[p], deferred[p])]
    BY <1>1 DEF Postponed, Named
  <2>2. ASSUME NEW p \in Sqs PROVE V[p] = IF p = q THEN Tail(Postponed[q]) ELSE Postponed[p]
    <3>1. deferred'[p] = IF p = q THEN Tail(deferred[q]) ELSE deferred[p]
      BY <1>1 DEF Types, QueueTypes
    <3> QED BY <1>4, <2>1, <3>1
  <2>3. V = [p \in Sqs |-> V[p]] /\ Postponed = [p \in Sqs |-> Postponed[p]]
    BY DEF Postponed
  <2> HIDE DEF V
  <2> QED BY <1>4, <2>1, <2>2, <2>3
<1>7. Total' = Total /\ Unseen' = Unseen
  BY <1>1 DEF Total, Unseen
<1> HIDE DEF c
<1> QED BY <1>5, <1>6, <1>7 DEF WB!ProcIoDq

LEMMA InitIs == Init => WB!Init /\ FreshEntries
<1> SUFFICES ASSUME Init PROVE WB!Init /\ FreshEntries
  OBVIOUS
<1>1. Types
  BY InitTypes
<1>2. FreshEntries
  BY DEF FreshEntries, Init, FreeEntry
<1>3. \A q \in Sqs : issued[q] = << >> /\ fetched[q] = 0 /\ deferred[q] = << >>
  BY DEF Init
<1>4. Unseen = [q \in Sqs |-> << >>]
  <2>1. ASSUME NEW q \in Sqs PROVE SubSeq(issued[q], fetched[q] + 1, Len(issued[q])) = << >>
    <3>1. SubSeq(<< >>, 1, 0) = << >>
      BY SubSeqEmpty
    <3> QED BY <1>3, <3>1, EmptySeq
  <2> QED BY <2>1 DEF Unseen
<1>5. Postponed = [q \in Sqs |-> << >>]
  BY <1>3 DEF Postponed
<1>6. Writebacks = 0
  <2>1. Coming = 0
    BY DEF Coming, Init, Idle
  <2>2. Debts = {}
    BY DEF Debts, Owing, Init, FreeEntry
  <2> QED BY <2>1, <2>2, FS_EmptySet DEF Writebacks, Debts
<1>7. Total = 0
  <2> DEFINE F(p) == {p} \X (1..Len(issued[p]))
  <2>1. \A p \in Sqs : F(p) = {}
    BY <1>3, EmptySeq
  <2>2. UNION {F(p) : p \in Sqs} = {}
    <3> HIDE DEF F
    <3> QED BY <2>1
  <2> QED BY <2>2, FS_EmptySet DEF Total
<1>8. remaining = Initial /\ open = [i \in 0..(Parts - 1) |-> 0] /\ unpaid = 0
  BY DEF Init
<1> QED BY <1>2, <1>4, <1>5, <1>6, <1>7, <1>8 DEF WB!Init

LEMMA BufferStep ==
    ASSUME Sound, FreshEntries, RoomForWritebacks, [Next]_vars
    PROVE  [WB!Next]_(WB!vars)
<1>1. CASE Tick \/ (\E q \in Sqs : Handle(q)) \/ UNCHANGED vars
  <2>1. UNCHANGED <<issued, fetched, deferred, buffer, table, disp, wk>>
    BY <1>1 DEF Tick, Handle, vars, queues
  <2>2. \A e \in Entries : Owing(e)' <=> Owing(e)
    BY <2>1 DEF Owing
  <2>3. Coming' = Coming
    BY <2>1 DEF Coming
  <2>4. Writebacks' = Writebacks
    BY <2>2, <2>3, SameWritebacks
  <2> QED BY <2>1, <2>4, Unnoticed, StutterIs
<1>2. ASSUME NEW q \in Sqs, NEW c \in Cmds, Issue(q, c) PROVE WB!Next
  BY <1>2, IssueIs DEF Sound, WB!Next
<1>3. CASE Dispatcher
  <2>1. ASSUME NEW q \in Sqs, ProcIoSq(q) \/ ProcIoDq(q) PROVE WB!Next
    BY <2>1, ProcIoSqIs, ProcIoDqIs DEF Sound, WB!Next
  <2>2. CASE Enqueue
    BY <2>2, EnqueueUnnoticed, StutterIs
  <2>3. CASE WalkBack \/ Link \/ Scan \/ Unlink \/ Free
    BY <2>3, LinksUnnoticed, StutterIs
  <2> QED BY <1>3, <2>1, <2>2, <2>3 DEF Dispatcher
<1>4. CASE Worker
  <2>1. CASE Release
    BY <2>1, ReleaseIs DEF WB!Next
  <2>2. CASE ~Release
    BY <1>4, <2>2, WorkerUnnoticed, StutterIs
  <2> QED BY <2>1, <2>2
<1> QED BY <1>1, <1>2, <1>3, <1>4 DEF Next

(* The tables implement the buffer, whatever their sizes, as long as no    *)
(* writeback is dropped for want of an entry: every step of dispatcher and *)
(* worker is one of WriteBuffer's or leaves the buffer alone (io.c with    *)
(* ssd.c; the drop is that of __enqueue_io_req).                           *)
THEOREM TablesImplementBuffer == Spec /\ []RoomForWritebacks => ImplementsWriteBuffer
<1>1. Init => Sound /\ FreshEntries /\ WB!Init
  BY InitSound, InitIs
<1>2. Sound /\ FreshEntries /\ [Next]_vars => (Sound /\ FreshEntries)'
  BY SoundStep, FreshStep
<1>3. Sound /\ FreshEntries /\ RoomForWritebacks /\ [Next]_vars => [WB!Next]_(WB!vars)
  BY BufferStep
<1> QED BY <1>1, <1>2, <1>3, PTL DEF Spec, ImplementsWriteBuffer, WB!Spec

-----------------------------------------------------------------------------
(* The sectors add up.                                                     *)

(* f[i] things in each of the first n piles. *)
Piles(f, n) == UNION {{i} \X (1..f[i]) : i \in 0..(n - 1)}

LEMMA PilesStep ==
    ASSUME NEW M \in Nat, NEW f \in [0..(M - 1) -> Nat], NEW n \in 0..(M - 1), IsFiniteSet(Piles(f, n))
    PROVE  /\ IsFiniteSet(Piles(f, n + 1))
           /\ Cardinality(Piles(f, n + 1)) = Cardinality(Piles(f, n)) + f[n]
<1> DEFINE A == Piles(f, n)
           B == {n} \X (1..f[n])
<1>1. f[n] \in Nat /\ n \in Nat
  OBVIOUS
<1>2. Piles(f, n + 1) = A \cup B
  <2>1. \A i : i \in 0..((n + 1) - 1) <=> (i \in 0..(n - 1) \/ i = n)
    BY <1>1
  <2>2. \A y : y \in Piles(f, n + 1) <=> \E i \in 0..((n + 1) - 1) : y \in {i} \X (1..f[i])
    BY DEF Piles
  <2>3. \A y : y \in A <=> \E i \in 0..(n - 1) : y \in {i} \X (1..f[i])
    BY DEF Piles
  <2> HIDE DEF A
  <2>4. \A y : y \in Piles(f, n + 1) <=> (y \in A \/ y \in B)
    BY <2>1, <2>2, <2>3
  <2> QED BY <2>4
<1>3. A \cap B = {}
  <2> SUFFICES ASSUME NEW y \in A, y \in B PROVE FALSE
    OBVIOUS
  <2>1. PICK i \in 0..(n - 1) : y \in {i} \X (1..f[i])
    BY DEF Piles
  <2>2. y[1] = i /\ y[1] = n
    BY <2>1
  <2> QED BY <1>1, <2>1, <2>2
<1>4. IsFiniteSet(B) /\ Cardinality(B) = f[n]
  <2>1. IsFiniteSet(1..f[n]) /\ Cardinality(1..f[n]) = f[n]
    BY <1>1, FS_Interval
  <2>2. IsFiniteSet({n}) /\ Cardinality({n}) = 1
    BY FS_Singleton
  <2>3. IsFiniteSet(B) /\ Cardinality(B) = 1 * Cardinality(1..f[n])
    BY <2>1, <2>2, FS_Product
  <2> QED BY <1>1, <2>1, <2>3
<1> HIDE DEF A, B
<1>5. IsFiniteSet(A)
  BY DEF A
<1>6. /\ IsFiniteSet(A \cup B)
      /\ Cardinality(A \cup B) = Cardinality(A) + Cardinality(B) - Cardinality(A \cap B)
  BY <1>4, <1>5, FS_Union
<1>7. Cardinality(A \cap B) = 0 /\ Cardinality(A) \in Nat
  BY <1>3, <1>5, FS_EmptySet, FS_CardinalityType
<1>8. Cardinality(A \cup B) = Cardinality(A) + f[n]
  <2>1. PICK x, y, z : x = Cardinality(A) /\ y = Cardinality(B) /\ z = Cardinality(A \cap B)
    OBVIOUS
  <2>2. x \in Nat /\ y = f[n] /\ y \in Nat /\ z = 0 /\ Cardinality(A \cup B) = x + y - z
    BY <1>1, <1>4, <1>6, <1>7, <2>1
  <2>3. x + y - z = x + y
    BY <2>2
  <2> QED BY <2>1, <2>2, <2>3
<1>9. Piles(f, n) = A
  BY DEF A
<1> QED BY <1>2, <1>6, <1>8, <1>9, Zenon

LEMMA PilesFinite ==
    ASSUME NEW M \in Nat, NEW f \in [0..(M - 1) -> Nat]
    PROVE  \A n \in 0..M : IsFiniteSet(Piles(f, n)) /\ Cardinality(Piles(f, n)) \in Nat
<1> DEFINE T == {n \in Nat : n <= M => IsFiniteSet(Piles(f, n))}
<1>1. 0 \in T
  <2>1. Piles(f, 0) = {}
    <3>1. 0..(0 - 1) = {}
      OBVIOUS
    <3> QED BY <3>1 DEF Piles
  <2> QED BY <2>1, FS_EmptySet
<1>2. ASSUME NEW n \in T PROVE n + 1 \in T
  <2> SUFFICES ASSUME n + 1 <= M PROVE IsFiniteSet(Piles(f, n + 1))
    BY <1>2
  <2>1. n \in 0..(M - 1) /\ IsFiniteSet(Piles(f, n))
    BY <1>2
  <2> QED BY <2>1, PilesStep
<1>3. \A n \in Nat : n \in T
  <2>1. T \in SUBSET Nat
    OBVIOUS
  <2> HIDE DEF T
  <2> QED BY <1>1, <1>2, <2>1, SetInduction
<1> QED BY <1>3, FS_CardinalityType

(* The pages that go to the first n partitions. *)
Going(L, n) == {l \in L : l % Parts < n}

LEMMA GoingStep ==
    ASSUME NEW L \in SUBSET Nat, IsFiniteSet(L), NEW n \in Nat
    PROVE  /\ Cardinality(Going(L, n)) \in Nat /\ Cardinality({l \in L : l % Parts = n}) \in Nat
           /\ Cardinality(Going(L, n + 1)) = Cardinality(Going(L, n)) + Cardinality({l \in L : l % Parts = n})
<1> DEFINE A == Going(L, n)
           B == {l \in L : l % Parts = n}
<1>1. \A l \in L : l % Parts \in Int
  BY ConstFacts
<1>2. Going(L, n + 1) = A \cup B /\ A \cap B = {}
  <2>1. \A l \in L : (l % Parts < n + 1 <=> (l % Parts < n \/ l % Parts = n)) /\ ~(l % Parts < n /\ l % Parts = n)
    <3> SUFFICES ASSUME NEW l \in L
                 PROVE  (l % Parts < n + 1 <=> (l % Parts < n \/ l % Parts = n)) /\ ~(l % Parts < n /\ l % Parts = n)
      OBVIOUS
    <3>1. PICK m \in Int : m = l % Parts
      BY <1>1
    <3>2. (m < n + 1 <=> (m < n \/ m = n)) /\ ~(m < n /\ m = n)
      OBVIOUS
    <3> QED BY <3>1, <3>2
  <2> QED BY <2>1, Zenon DEF Going
<1>3. A \subseteq L /\ B \subseteq L
  BY DEF Going
<1> HIDE DEF A, B
<1>4. IsFiniteSet(A) /\ IsFiniteSet(B)
  BY <1>3, FS_Subset
<1>5. Cardinality(A \cup B) = Cardinality(A) + Cardinality(B) - Cardinality(A \cap B)
  BY <1>4, FS_Union
<1>6. Cardinality(A \cap B) = 0 /\ Cardinality(A) \in Nat /\ Cardinality(B) \in Nat
  BY <1>2, <1>4, FS_EmptySet, FS_CardinalityType
<1>7. Cardinality(Going(L, n + 1)) = Cardinality(A) + Cardinality(B)
  <2>1. PICK x, y, z : x = Cardinality(A) /\ y = Cardinality(B) /\ z = Cardinality(A \cap B)
    OBVIOUS
  <2>2. x \in Nat /\ y \in Nat /\ z = 0 /\ Cardinality(A \cup B) = x + y - z
    BY <1>5, <1>6, <2>1
  <2>3. x + y - z = x + y
    BY <2>2
  <2> QED BY <1>2, <2>1, <2>2, <2>3
<1> QED BY <1>6, <1>7, Zenon DEF A, B

LEMMA Distribute ==
    ASSUME NEW k \in Nat, NEW x \in Nat, NEW y \in Nat
    PROVE  k * (x + y) = k * x + k * y /\ k * x \in Nat /\ k * y \in Nat
  OBVIOUS

LEMMA AddUp ==
    ASSUME NEW w \in Nat, NEW p \in Nat, NEW q \in Nat, NEW r \in Nat, NEW t \in Nat,
           NEW x \in Nat, NEW y \in Nat, NEW z \in Nat, NEW k \in Nat,
           q + w * r = p + t, y + w * z = x + k
    PROVE  (q + y) + w * (r + z) = (p + x) + (t + k)
<1>1. PICK u \in Nat, v \in Nat : u = w * r /\ v = w * z /\ w * (r + z) = u + v
  BY Distribute
<1>2. q + u = p + t /\ y + v = x + k
  BY <1>1
<1>3. (q + y) + (u + v) = (p + x) + (t + k)
  BY <1>2
<1> QED BY <1>1, <1>3

(* Per partition: a pages before, b after, f wordlines filled by L. *)
Balanced(a, b, f, L) ==
    \A i \in 0..(Parts - 1) : b[i] + Oneshot * f[i] = a[i] + Cardinality({l \in L : l % Parts = i})

(* The same in sum. *)
LEMMA PilesBalance ==
    ASSUME NEW a \in [0..(Parts - 1) -> Nat], NEW b \in [0..(Parts - 1) -> Nat],
           NEW f \in [0..(Parts - 1) -> Nat], NEW L \in SUBSET Nat, IsFiniteSet(L),
           Balanced(a, b, f, L)
    PROVE  Cardinality(Piles(b, Parts)) + Oneshot * Cardinality(Piles(f, Parts))
             = Cardinality(Piles(a, Parts)) + Cardinality(L)
<1>0. Parts \in Nat \ {0} /\ Oneshot \in Nat
  BY ConstFacts
<1> DEFINE ca(n) == Cardinality(Piles(a, n))
           cb(n) == Cardinality(Piles(b, n))
           cf(n) == Cardinality(Piles(f, n))
           cl(n) == Cardinality(Going(L, n))
           T == {n \in Nat : n <= Parts => cb(n) + Oneshot * cf(n) = ca(n) + cl(n)}
<1>1. 0 \in T
  <2>1. Piles(a, 0) = {} /\ Piles(b, 0) = {} /\ Piles(f, 0) = {}
    <3>1. 0..(0 - 1) = {}
      OBVIOUS
    <3> QED BY <3>1 DEF Piles
  <2>2. Going(L, 0) = {}
    <3>1. \A l \in L : l % Parts >= 0
      BY <1>0
    <3>2. \A l \in L : ~(l % Parts < 0)
      BY <1>0
    <3> QED BY <3>2 DEF Going
  <2>3. ca(0) = 0 /\ cb(0) = 0 /\ cf(0) = 0 /\ cl(0) = 0
    BY <2>1, <2>2, FS_EmptySet
  <2> HIDE DEF ca, cb, cf, cl
  <2> QED BY <1>0, <2>3
<1>2. ASSUME NEW n \in T PROVE n + 1 \in T
  <2> SUFFICES ASSUME n + 1 <= Parts
               PROVE  cb(n + 1) + Oneshot * cf(n + 1) = ca(n + 1) + cl(n + 1)
    BY <1>2
  <2>1. n \in Nat /\ n \in 0..(Parts - 1) /\ n \in 0..Parts /\ cb(n) + Oneshot * cf(n) = ca(n) + cl(n)
    BY <1>0, <1>2
  <2>2. /\ ca(n) \in Nat /\ cb(n) \in Nat /\ cf(n) \in Nat
        /\ IsFiniteSet(Piles(a, n)) /\ IsFiniteSet(Piles(b, n)) /\ IsFiniteSet(Piles(f, n))
    BY <1>0, <2>1, PilesFinite
  <2>3. ca(n + 1) = ca(n) + a[n]
    BY <1>0, <2>1, <2>2, PilesStep
  <2>4. cb(n + 1) = cb(n) + b[n]
    BY <1>0, <2>1, <2>2, PilesStep
  <2>5. cf(n + 1) = cf(n) + f[n]
    BY <1>0, <2>1, <2>2, PilesStep
  <2> DEFINE g == Cardinality({l \in L : l % Parts = n})
  <2>6. cl(n) \in Nat /\ g \in Nat /\ cl(n + 1) = cl(n) + g
    BY <2>1, GoingStep
  <2>7. b[n] + Oneshot * f[n] = a[n] + g
    BY <2>1 DEF Balanced
  <2>8. a[n] \in Nat /\ b[n] \in Nat /\ f[n] \in Nat
    BY <2>1
  <2> HIDE DEF ca, cb, cf, cl, g
  <2>9. PICK p \in Nat, q \in Nat, r \in Nat, t \in Nat, x \in Nat, y \in Nat, z \in Nat, k \in Nat :
          /\ p = ca(n) /\ q = cb(n) /\ r = cf(n) /\ t = cl(n)
          /\ x = a[n] /\ y = b[n] /\ z = f[n] /\ k = g
    BY <2>2, <2>6, <2>8
  <2>10. q + Oneshot * r = p + t /\ y + Oneshot * z = x + k
    BY <2>1, <2>7, <2>9
  <2>11. (q + y) + Oneshot * (r + z) = (p + x) + (t + k)
    BY <1>0, <2>10, AddUp
  <2> QED BY <2>3, <2>4, <2>5, <2>6, <2>9, <2>11
<1>3. \A n \in Nat : n \in T
  <2>1. T \in SUBSET Nat
    OBVIOUS
  <2> HIDE DEF T
  <2> QED BY <1>1, <1>2, <2>1, SetInduction
<1>4. Going(L, Parts) = L
  <2>1. \A l \in L : l % Parts < Parts
    BY <1>0
  <2> QED BY <2>1 DEF Going
<1> QED BY <1>0, <1>3, <1>4

\* The balance of the buffer, in plain numbers.
LEMMA PaidBack ==
    ASSUME NEW r \in Int, NEW u \in Int, NEW n \in Int, NEW ca \in Nat, NEW cb \in Nat, NEW cf \in Nat,
           NEW W \in Nat, NEW m \in Nat, NEW O \in Nat, NEW S \in Nat, NEW z \in Int,
           r + ca * S + W * (O * S) = z + u, cb + O * cf = ca + m
    PROVE  (r - n) + cb * S + (W + cf) * (O * S) = z + (u + m * S - n)
<1>1. (cb + O * cf) * S = (ca + m) * S
  OBVIOUS
<1>2. (cb + O * cf) * S = cb * S + cf * (O * S)
  OBVIOUS
<1>3. (ca + m) * S = ca * S + m * S
  OBVIOUS
<1>4. (W + cf) * (O * S) = W * (O * S) + cf * (O * S)
  OBVIOUS
<1>5. PICK x1 \in Int, x2 \in Int, x3 \in Int, x4 \in Int, x5 \in Int :
        x1 = ca * S /\ x2 = cb * S /\ x3 = W * (O * S) /\ x4 = cf * (O * S) /\ x5 = m * S
  OBVIOUS
<1>6. x2 + x4 = x1 + x5 /\ r + x1 + x3 = z + u
  BY <1>1, <1>2, <1>3, <1>5
<1>7. (r - n) + x2 + (x3 + x4) = z + (u + x5 - n)
  BY <1>6
<1> QED BY <1>4, <1>5, <1>7

LEMMA HeldIs ==
    ASSUME BufferTypes
    PROVE  /\ WB!HeldOpen = Cardinality(Piles(open, Parts)) * SecsPerPg
           /\ DOMAIN open = 0..(Parts - 1)
<1>1. DOMAIN open = 0..(Parts - 1)
  BY DEF BufferTypes
<1>2. UNION {{i} \X (1..open[i]) : i \in DOMAIN open} = Piles(open, Parts)
  BY <1>1 DEF Piles
<1>3. WB!Cardinality(Piles(open, Parts)) = Cardinality(Piles(open, Parts))
  BY SameCardinality
<1> QED BY <1>1, <1>2, <1>3, Zenon DEF WB!HeldOpen

LEMMA HeldIsNext ==
    ASSUME BufferTypes'
    PROVE  WB!HeldOpen' = Cardinality(Piles(open', Parts)) * SecsPerPg
<1>1. DOMAIN open' = 0..(Parts - 1)
  BY DEF BufferTypes
<1>2. UNION {{i} \X (1..open'[i]) : i \in DOMAIN open'} = Piles(open', Parts)
  BY <1>1 DEF Piles
<1>3. WB!Cardinality(Piles(open', Parts)) = Cardinality(Piles(open', Parts))
  BY SameCardinality
<1> QED BY <1>1, <1>2, <1>3, Zenon DEF WB!HeldOpen

LEMMA BalanceIs ==
    ASSUME BufferTypes
    PROVE  SectorsAddUp <=> remaining + Cardinality(Piles(open, Parts)) * SecsPerPg + Writebacks * (Oneshot * SecsPerPg)
                              = Initial + unpaid
BY HeldIs DEF SectorsAddUp, WB!BufferBalance, WB!WordlineSecs

LEMMA BalanceIsNext ==
    ASSUME BufferTypes'
    PROVE  SectorsAddUp' <=> remaining' + Cardinality(Piles(open', Parts)) * SecsPerPg + Writebacks' * (Oneshot * SecsPerPg)
                              = Initial + unpaid'
BY HeldIsNext DEF SectorsAddUp, WB!BufferBalance, WB!WordlineSecs

LEMMA LpnsFacts ==
    ASSUME NEW c \in Writes
    PROVE  /\ WB!Lpns(c) \in SUBSET Nat /\ IsFiniteSet(WB!Lpns(c)) /\ Cardinality(WB!Lpns(c)) \in Nat
           /\ c.len \in Nat
<1>1. c \in [lba : Nat, len : Nat \ {0}]
  BY IoAssumption
<1>2. c.lba \in Nat /\ c.lba + c.len - 1 \in Nat /\ c.len \in Nat
  BY <1>1
<1>3. c.lba \div SecsPerPg \in Nat /\ (c.lba + c.len - 1) \div SecsPerPg \in Nat
  BY <1>2, ConstFacts, DivFacts
<1> DEFINE a == c.lba \div SecsPerPg
           b == (c.lba + c.len - 1) \div SecsPerPg
<1>4. WB!Lpns(c) = a..b
  BY DEF WB!Lpns
<1> HIDE DEF a, b
<1>5. a \in Nat /\ b \in Nat
  BY <1>3 DEF a, b
<1>6. IsFiniteSet(a..b) /\ a..b \in SUBSET Nat
  BY <1>5, FS_Interval
<1> QED BY <1>2, <1>4, <1>6, FS_CardinalityType

LEMMA ConvWriteBalances ==
    ASSUME BufferTypes, BufferTypes', unpaid \in Int, Writebacks \in Nat, SectorsAddUp,
           NEW c \in Writes, WB!ConvWrite(c)
    PROVE  SectorsAddUp' /\ unpaid' \in Int
<1> DEFINE L == WB!Lpns(c)
           D == 0..(Parts - 1)
           f == [i \in D |-> WB!Filled(c, i)]
<1>0. Parts \in Nat \ {0} /\ SecsPerPg \in Nat /\ Oneshot \in Nat \ {0} /\ Initial \in Nat
  BY ConstFacts
<1>1. L \in SUBSET Nat /\ IsFiniteSet(L) /\ Cardinality(L) \in Nat /\ c.len \in Nat
  BY LpnsFacts
<1>2. open \in [D -> Nat] /\ open' \in [D -> Nat] /\ DOMAIN open = D /\ remaining \in Int
  BY DEF BufferTypes
<1>3. /\ remaining' = remaining - c.len
      /\ open' = [i \in D |-> (open[i] + WB!PagesIn(c, i)) % Oneshot]
      /\ Writebacks' = Writebacks + WB!Cardinality(UNION {{i} \X (1..WB!Filled(c, i)) : i \in D})
      /\ unpaid' = unpaid + WB!Cardinality(L) * SecsPerPg - c.len
  BY <1>2 DEF WB!ConvWrite
<1>4. ASSUME NEW i \in D
      PROVE  /\ WB!Filled(c, i) \in Nat
             /\ open'[i] + Oneshot * WB!Filled(c, i) = open[i] + Cardinality({l \in L : l % Parts = i})
  <2>1. WB!PagesIn(c, i) = Cardinality({l \in L : l % Parts = i})
    BY SameCardinality, Zenon DEF WB!PagesIn
  <2>2. WB!PagesIn(c, i) \in Nat
    <3>1. {l \in L : l % Parts = i} \subseteq L
      OBVIOUS
    <3> QED BY <1>1, <2>1, <3>1, FS_Subset, FS_CardinalityType
  <2>3. PICK t \in Nat : t = open[i] + WB!PagesIn(c, i)
    BY <1>2, <2>2
  <2>4. t \div Oneshot \in Nat /\ t = Oneshot * (t \div Oneshot) + (t % Oneshot) /\ t % Oneshot \in Nat
    BY <1>0, DivFacts
  <2>5. WB!Filled(c, i) = t \div Oneshot /\ open'[i] = t % Oneshot
    BY <1>3, <2>3 DEF WB!Filled
  <2>6. PICK x \in Nat, y \in Nat : x = Oneshot * (t \div Oneshot) /\ y = t % Oneshot /\ t = x + y
    BY <1>0, <2>4
  <2>7. y + x = t
    BY <2>6
  <2> QED BY <2>1, <2>3, <2>4, <2>5, <2>6, <2>7
<1>5. f \in [D -> Nat] /\ UNION {{i} \X (1..WB!Filled(c, i)) : i \in D} = Piles(f, Parts)
  <2>1. f \in [D -> Nat]
    BY <1>4
  <2>2. \A i \in D : {i} \X (1..WB!Filled(c, i)) = {i} \X (1..f[i])
    OBVIOUS
  <2>3. {{i} \X (1..WB!Filled(c, i)) : i \in D} = {{i} \X (1..f[i]) : i \in D}
    BY <2>2
  <2> QED BY <2>1, <2>3 DEF Piles
<1>6. \A i \in D : open'[i] + Oneshot * f[i] = open[i] + Cardinality({l \in L : l % Parts = i})
  BY <1>4
<1> HIDE DEF f, L
<1> DEFINE ca == Cardinality(Piles(open, Parts))
           cb == Cardinality(Piles(open', Parts))
           cf == Cardinality(Piles(f, Parts))
           m == Cardinality(L)
<1>7. cb + Oneshot * cf = ca + m
  <2>1. PICK a, b : a = open /\ b = open'
    OBVIOUS
  <2>2. /\ a \in [0..(Parts - 1) -> Nat] /\ b \in [0..(Parts - 1) -> Nat] /\ f \in [0..(Parts - 1) -> Nat]
        /\ Balanced(a, b, f, L)
    BY <1>2, <1>5, <1>6, <2>1, Zenon DEF Balanced
  <2>3. Cardinality(Piles(b, Parts)) + Oneshot * Cardinality(Piles(f, Parts))
          = Cardinality(Piles(a, Parts)) + Cardinality(L)
    BY <1>1, <2>2, PilesBalance
  <2> QED BY <2>1, <2>3, Zenon
<1>8. ca \in Nat /\ cb \in Nat /\ cf \in Nat /\ m \in Nat
  <2>1. Parts \in 0..Parts /\ Parts \in Nat
    BY <1>0
  <2> QED BY <1>1, <1>2, <1>5, <2>1, PilesFinite
<1>9. WB!Cardinality(L) = m /\ WB!Cardinality(Piles(f, Parts)) = cf
  BY SameCardinality
<1>10. Writebacks' = Writebacks + cf /\ unpaid' = unpaid + m * SecsPerPg - c.len
  BY <1>3, <1>5, <1>9
<1>11. remaining + ca * SecsPerPg + Writebacks * (Oneshot * SecsPerPg) = Initial + unpaid
  BY BalanceIs
<1>12. SectorsAddUp' <=> remaining' + cb * SecsPerPg + Writebacks' * (Oneshot * SecsPerPg) = Initial + unpaid'
  BY BalanceIsNext
<1> HIDE DEF ca, cb, cf, m
<1>13. (remaining - c.len) + cb * SecsPerPg + (Writebacks + cf) * (Oneshot * SecsPerPg)
         = Initial + (unpaid + m * SecsPerPg - c.len)
  <2>1. PICK r, u, n, W : r = remaining /\ u = unpaid /\ n = c.len /\ W = Writebacks
    OBVIOUS
  <2>2. /\ r \in Int /\ u \in Int /\ n \in Int /\ W \in Nat
        /\ Initial \in Int /\ Oneshot \in Nat /\ SecsPerPg \in Nat
    BY <1>0, <1>1, <1>2, <2>1
  <2>3. r + ca * SecsPerPg + W * (Oneshot * SecsPerPg) = Initial + u
    BY <1>11, <2>1
  <2>4. (r - n) + cb * SecsPerPg + (W + cf) * (Oneshot * SecsPerPg) = Initial + (u + m * SecsPerPg - n)
    BY <1>7, <1>8, <2>2, <2>3, PaidBack
  <2> QED BY <2>1, <2>4
<1>14. unpaid' \in Int
  <2>1. m * SecsPerPg \in Int
    BY <1>0, <1>8
  <2> QED BY <1>1, <1>10, <2>1
<1> QED BY <1>3, <1>10, <1>12, <1>13, <1>14

LEMMA BalanceKept ==
    ASSUME BufferTypes, BufferTypes', unpaid \in Int, Writebacks \in Nat, SectorsAddUp, [WB!Next]_(WB!vars)
    PROVE  SectorsAddUp' /\ unpaid' \in Int
<1>1. CASE UNCHANGED <<remaining, open, Writebacks, unpaid>>
  <2>1. SectorsAddUp <=> remaining' + Cardinality(Piles(open', Parts)) * SecsPerPg + Writebacks' * (Oneshot * SecsPerPg)
                              = Initial + unpaid'
    BY <1>1, BalanceIs
  <2> QED BY <1>1, <2>1, BalanceIsNext
<1>2. ASSUME NEW c, WB!ProcIoCmd(c) PROVE SectorsAddUp' /\ unpaid' \in Int
  <2>1. CASE c \in Writes /\ WB!ConvWrite(c)
    BY <2>1, ConvWriteBalances
  <2>2. CASE UNCHANGED <<remaining, open, Writebacks, unpaid>>
    BY <1>1, <2>2
  <2> QED BY <1>2, <2>1, <2>2 DEF WB!ProcIoCmd
<1>3. ASSUME NEW q \in Sqs, WB!ProcIoSq(q) PROVE SectorsAddUp' /\ unpaid' \in Int
  <2>1. WB!ProcIoCmd(Head(Unseen[q])) \/ UNCHANGED <<remaining, open, Writebacks, unpaid>>
    BY <1>3 DEF WB!ProcIoSq
  <2> QED BY <1>1, <1>2, <2>1
<1>4. ASSUME NEW q \in Sqs, WB!ProcIoDq(q) PROVE SectorsAddUp' /\ unpaid' \in Int
  <2>1. WB!ProcIoCmd(Head(Postponed[q]))
    BY <1>4 DEF WB!ProcIoDq
  <2> QED BY <1>2, <2>1
<1>5. CASE WB!Release
  <2> DEFINE ca == Cardinality(Piles(open, Parts))
             w == Oneshot * SecsPerPg
  <2>0. SecsPerPg \in Nat /\ Oneshot \in Nat /\ Initial \in Nat /\ Parts \in Nat
    BY ConstFacts
  <2>1. /\ Writebacks' = Writebacks - 1 /\ remaining' = remaining + w /\ open' = open /\ unpaid' = unpaid
    BY <1>5 DEF WB!Release, WB!WordlineSecs
  <2>2. remaining + ca * SecsPerPg + Writebacks * w = Initial + unpaid
    BY BalanceIs
  <2>3. SectorsAddUp' <=> (remaining + w) + ca * SecsPerPg + (Writebacks - 1) * w = Initial + unpaid
    BY <2>1, BalanceIsNext
  <2>4. ca \in Nat
    <3>1. Parts \in 0..Parts
      BY <2>0
    <3> QED BY <2>0, <3>1, PilesFinite DEF BufferTypes
  <2>5. PICK h \in Nat, v \in Nat, y \in Int : h = ca * SecsPerPg /\ v = w /\ y = Writebacks * v /\ (Writebacks - 1) * v = y - v
    BY <2>0, <2>4
  <2>6. remaining \in Int
    BY DEF BufferTypes
  <2> HIDE DEF ca, w
  <2>7. remaining + h + y = Initial + unpaid
    BY <2>2, <2>5
  <2>8. (remaining + v) + h + (y - v) = Initial + unpaid
    BY <2>0, <2>5, <2>6, <2>7
  <2> QED BY <2>1, <2>3, <2>5, <2>8
<1>6. ASSUME NEW q, NEW c, WB!Issue(q, c) PROVE SectorsAddUp' /\ unpaid' \in Int
  <2>1. UNCHANGED <<remaining, open, Writebacks, unpaid>>
    BY <1>6 DEF WB!Issue
  <2> QED BY <1>1, <2>1
<1>7. CASE UNCHANGED WB!vars
  <2>1. UNCHANGED <<remaining, open, Writebacks, unpaid>>
    BY <1>7 DEF WB!vars
  <2> QED BY <1>1, <2>1
<1> QED BY <1>3, <1>4, <1>5, <1>6, <1>7 DEF WB!Next

LEMMA InitBalance == Init => SectorsAddUp /\ unpaid \in Int
<1> SUFFICES ASSUME Init PROVE SectorsAddUp /\ unpaid \in Int
  OBVIOUS
<1>0. SecsPerPg \in Nat /\ Oneshot \in Nat /\ Initial \in Nat /\ Parts \in Nat
  BY ConstFacts
<1>1. BufferTypes
  BY InitSound DEF Sound, Types
<1>2. remaining = Initial /\ open = [i \in 0..(Parts - 1) |-> 0] /\ unpaid = 0
  BY DEF Init
<1>3. Writebacks = 0
  BY InitIs DEF WB!Init
<1>4. Cardinality(Piles(open, Parts)) = 0
  <2>1. \A i \in 0..(Parts - 1) : {i} \X (1..open[i]) = {}
    <3> SUFFICES ASSUME NEW i \in 0..(Parts - 1) PROVE {i} \X (1..open[i]) = {}
      OBVIOUS
    <3>1. open[i] = 0 /\ 1..0 = {}
      BY <1>2
    <3> QED BY <3>1
  <2>2. Piles(open, Parts) = {}
    BY <2>1 DEF Piles
  <2> QED BY <2>2, FS_EmptySet
<1>5. 0 * SecsPerPg = 0 /\ 0 * (Oneshot * SecsPerPg) = 0
  BY <1>0
<1>6. Initial + 0 + 0 = Initial + 0
  BY <1>0
<1> QED BY <1>0, <1>1, <1>2, <1>3, <1>4, <1>5, <1>6, BalanceIs

(* No sector of the write buffer is lost or handed out twice, whatever the *)
(* sizes of table, queues and buffer and however dispatcher and worker     *)
(* interleave, as long as no writeback is dropped for want of an entry     *)
(* (buffer_allocate, buffer_release, and the writebacks' way through       *)
(* __enqueue_io_req and nvmev_kthread_io).                                 *)
THEOREM SectorsAlwaysAddUp == Spec /\ []RoomForWritebacks => []SectorsAddUp
<1> DEFINE I == Sound /\ FreshEntries /\ SectorsAddUp /\ unpaid \in Int
<1>1. Init => I
  BY InitSound, InitIs, InitBalance
<1>2. I /\ RoomForWritebacks /\ [Next]_vars => I'
  <2> SUFFICES ASSUME I, RoomForWritebacks, [Next]_vars PROVE I'
    OBVIOUS
  <2>1. (Sound /\ FreshEntries)'
    BY SoundStep, FreshStep
  <2>2. [WB!Next]_(WB!vars)
    BY BufferStep
  <2>3. BufferTypes /\ BufferTypes' /\ Writebacks \in Nat
    BY <2>1, ComingFacts DEF Sound, Types
  <2>4. SectorsAddUp' /\ unpaid' \in Int
    BY <2>2, <2>3, BalanceKept
  <2> QED BY <2>1, <2>4
<1>3. I => SectorsAddUp
  OBVIOUS
<1> QED BY <1>1, <1>2, <1>3, PTL DEF Spec
=============================================================================
