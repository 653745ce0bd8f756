--------------------------- MODULE SlmLoadProofs ----------------------------
(***************************************************************************)
(* Machine-checked proofs about the load of a circular input ring, for     *)
(* every ring, page, I/O, reorder-buffer and pool size, every cut of the   *)
(* files into ranges and every interleaving of the threads.                *)
(*                                                                         *)
(* First the produced frontier on its own (Frontier): FrontierExact is not *)
(* inductive; that ht_head is the first undelivered byte once the absorb   *)
(* loop has ended follows from FrontierCovers (the frontier and the        *)
(* stashed ranges are all there is) together with NothingReached (outside  *)
(* the loop every stashed range starts beyond the frontier).               *)
(*                                                                         *)
(* Then the whole load (SlmLoad): LIInv says that the chunks in flight are *)
(* apart from each other and from what is published, that the stream       *)
(* requested stays within one ring of what is consumed, what the last RING *)
(* bytes look like in memory, and which pages the program has seen come.   *)
(***************************************************************************)
EXTENDS SlmLoad, NumberFacts

(* Every stashed range is nonempty; the loop ends only when none of them   *)
(* is reached.                                                             *)
PendingNonEmpty == \A i \in DOMAIN pending : pending[i].start < pending[i].end

NothingReached ==
    fpc = "idle" => \A i \in DOMAIN pending : pending[i].start > head

(* The content of `notified' while no overflow was hit, written without    *)
(* the union over the sequence.                                            *)
Covered(b) ==
    \/ b \in 0..(head - 1)
    \/ \E i \in DOMAIN pending : b \in Bytes(pending[i])

FIInv ==
    /\ FTypeOK
    /\ PendingNonEmpty
    /\ NothingReached
    /\ fpc # "bug" => \A b \in Int : b \in notified <=> Covered(b)

(* The pointwise form in the inductive invariant is FrontierCovers: ht_head
   and ht_pending together account for exactly the bytes delivered.        *)
LEMMA CoversPointwise ==
    ASSUME FIInv
    PROVE  FrontierCovers
<1> SUFFICES ASSUME fpc # "bug"
             PROVE  notified = 0..(head - 1) \cup
                       UNION {Bytes(pending[i]) : i \in DOMAIN pending}
    BY DEF FrontierCovers
<1>1. \A b \in Int : b \in notified <=> Covered(b)
    BY DEF FIInv
<1>2. notified \subseteq Int
    BY DEF FIInv, FTypeOK
<1>3. \A i \in DOMAIN pending : Bytes(pending[i]) \subseteq Int
    BY DEF Bytes
<1>4. 0..(head - 1) \subseteq Int
    OBVIOUS
<1> QED
    BY <1>1, <1>2, <1>3, <1>4, Zenon DEF Covered

(* A range that ht_advance_head leaves in slot i after coalescing covers
   its old bytes and the new ones, and no others, since the two touch.     *)
LEMMA WidenCovers ==
    ASSUME NEW r \in Range0, NEW s \in 0..Total, NEW e \in 0..Total,
           s < e, r.start < r.end, Touches(s, e, r)
    PROVE  /\ Widen(r, s, e) \in Range0
           /\ Widen(r, s, e).start < Widen(r, s, e).end
           /\ \A b \in Int : b \in Bytes(Widen(r, s, e)) <=>
                                 b \in Bytes(r) \/ b \in s..(e - 1)
BY TotalAssumption DEF Widen, Touches, Bytes, Range0

(* Removing entry i by moving the last entry into its slot keeps exactly
   the other entries.                                                      *)
LEMMA SwapRemoveKeepsOthers ==
    ASSUME NEW S, NEW seq \in Seq(S), NEW i \in DOMAIN seq
    PROVE  /\ SwapRemove(seq, i) \in Seq(S)
           /\ Len(SwapRemove(seq, i)) = Len(seq) - 1
           /\ \A j \in DOMAIN SwapRemove(seq, i) :
                 \E k \in DOMAIN seq : k # i /\ SwapRemove(seq, i)[j] = seq[k]
           /\ \A k \in DOMAIN seq : k # i =>
                 \E j \in DOMAIN SwapRemove(seq, i) : SwapRemove(seq, i)[j] = seq[k]
<1> DEFINE n == Len(seq)
<1>0. n \in Nat /\ n >= 1 /\ DOMAIN seq = 1..n /\ \A k \in 1..n : seq[k] \in S
    OBVIOUS
<1>1. DOMAIN SwapRemove(seq, i) = 1..(n - 1)
    BY DEF SwapRemove
<1>2. SwapRemove(seq, i) \in Seq(S) /\ Len(SwapRemove(seq, i)) = Len(seq) - 1
    BY <1>0 DEF SwapRemove
<1>3. ASSUME NEW j \in DOMAIN SwapRemove(seq, i)
      PROVE  \E k \in DOMAIN seq : k # i /\ SwapRemove(seq, i)[j] = seq[k]
    BY <1>0, <1>1 DEF SwapRemove
<1>4. ASSUME NEW k \in DOMAIN seq, k # i
      PROVE  \E j \in DOMAIN SwapRemove(seq, i) : SwapRemove(seq, i)[j] = seq[k]
  <2>1. CASE k = n
    BY <1>0, <1>1, <1>4, <2>1 DEF SwapRemove
  <2>2. CASE k # n
    BY <1>0, <1>1, <1>4, <2>2 DEF SwapRemove
  <2> QED
    BY <2>1, <2>2
<1> QED
    BY <1>2, <1>3, <1>4

----------------------------------------------------------------------------
(* One lemma per step of ht_advance_head. *)

(* Publishing a range that touches the frontier. *)
LEMMA ExtendKeeps ==
    ASSUME FIInv, NEW s \in 0..Total, NEW e \in 0..Total,
           fpc = "idle", s < e, ExtendHead(s, e),
           notified' = notified \cup s..(e - 1)
    PROVE  FIInv'
<1>1. FTypeOK'
    BY TotalAssumption DEF FIInv, FTypeOK, ExtendHead
<1>2. PendingNonEmpty' /\ NothingReached'
    BY DEF FIInv, PendingNonEmpty, NothingReached, ExtendHead
<1>3. ASSUME NEW b \in Int PROVE (b \in notified' <=> Covered(b)')
  <2>1. b \in notified' <=> Covered(b) \/ b \in s..(e - 1)
    BY DEF FIInv
  <2>2. b \in 0..(head' - 1) <=> b \in 0..(head - 1) \/ b \in s..(e - 1)
    BY TotalAssumption DEF FIInv, FTypeOK, ExtendHead
  <2> QED
    BY <2>1, <2>2 DEF Covered, ExtendHead
<1> QED
    BY <1>1, <1>2, <1>3 DEF FIInv

(* Merging a range into the first stashed range it touches. *)
LEMMA CoalesceKeeps ==
    ASSUME FIInv, NEW s \in 0..Total, NEW e \in 0..Total,
           fpc = "idle", s < e, Coalesce(s, e),
           notified' = notified \cup s..(e - 1)
    PROVE  FIInv'
<1>1. PICK i \in DOMAIN pending :
         /\ FirstTouching(s, e, i)
         /\ pending' = [pending EXCEPT ![i] = Widen(@, s, e)]
    BY DEF Coalesce
<1>2. pending[i] \in Range0 /\ pending[i].start < pending[i].end
    BY DEF FIInv, FTypeOK, PendingNonEmpty
<1>3. /\ Widen(pending[i], s, e) \in Range0
      /\ Widen(pending[i], s, e).start < Widen(pending[i], s, e).end
      /\ \A b \in Int : b \in Bytes(Widen(pending[i], s, e)) <=>
                            b \in Bytes(pending[i]) \/ b \in s..(e - 1)
    BY <1>1, <1>2, WidenCovers DEF FirstTouching
<1>4. /\ DOMAIN pending' = DOMAIN pending
      /\ pending'[i] = Widen(pending[i], s, e)
      /\ \A j \in DOMAIN pending : j # i => pending'[j] = pending[j]
    BY <1>1 DEF FIInv, FTypeOK
<1>5. FTypeOK'
    BY <1>1, <1>3, TotalAssumption DEF FIInv, FTypeOK, Coalesce
<1>6. PendingNonEmpty' /\ NothingReached'
    BY <1>3, <1>4 DEF FIInv, PendingNonEmpty, NothingReached, Coalesce
<1>7. ASSUME NEW b \in Int PROVE (b \in notified' <=> Covered(b)')
  <2>1. b \in notified' <=> Covered(b) \/ b \in s..(e - 1)
    BY DEF FIInv
  <2>2. b \in Bytes(pending'[i]) <=> b \in Bytes(pending[i]) \/ b \in s..(e - 1)
    BY <1>3, <1>4
  <2>3. (\E j \in DOMAIN pending' : b \in Bytes(pending'[j]))
           <=> (\E j \in DOMAIN pending : b \in Bytes(pending[j])) \/ b \in s..(e - 1)
    BY <1>4, <2>2, Zenon
  <2>4. head' = head
    BY DEF Coalesce
  <2>5. Covered(b)' <=> \/ b \in 0..(head' - 1)
                        \/ \E j \in DOMAIN pending' : b \in Bytes(pending'[j])
    BY DEF Covered, Bytes
  <2> QED
    BY <2>1, <2>3, <2>4, <2>5 DEF Covered
<1> QED
    BY <1>5, <1>6, <1>7 DEF FIInv

(* Stashing a range apart from every other, or the overflow BUG(). *)
LEMMA StashKeeps ==
    ASSUME FIInv, NEW s \in 0..Total, NEW e \in 0..Total,
           fpc = "idle", s < e, Stash(s, e),
           notified' = notified \cup s..(e - 1)
    PROVE  FIInv'
<1> DEFINE new == [start |-> s, end |-> e]
<1>1. CASE Len(pending) >= MaxPending
    BY <1>1, TotalAssumption
    DEF FIInv, FTypeOK, PendingNonEmpty, NothingReached, Stash
<1>2. CASE ~(Len(pending) >= MaxPending)
  <2>1. pending' = Append(pending, new) /\ fpc' = "absorb" /\ head' = head
    BY <1>2 DEF Stash
  <2>2. pending \in Seq(Range0) /\ new \in Range0 /\ Bytes(new) = s..(e - 1)
    BY DEF FIInv, FTypeOK, Range0, Bytes
  <2> HIDE DEF new
  <2>3. /\ pending' \in Seq(Range0)
        /\ Len(pending') = Len(pending) + 1
        /\ DOMAIN pending = 1..Len(pending)
        /\ DOMAIN pending' = 1..(Len(pending) + 1)
        /\ Len(pending) \in Nat
        /\ pending'[Len(pending) + 1] = new
        /\ \A j \in 1..Len(pending) : pending'[j] = pending[j]
    BY <2>1, <2>2
  <2>4. FTypeOK'
    BY <1>2, <2>1, <2>3, TotalAssumption, MaxPendingAssumption DEF FIInv, FTypeOK
  <2>5. PendingNonEmpty' /\ NothingReached'
    BY <2>1, <2>3 DEF FIInv, PendingNonEmpty, NothingReached, new
  <2>6. ASSUME NEW b \in Int PROVE (b \in notified' <=> Covered(b)')
    <3>1. b \in notified' <=> Covered(b) \/ b \in s..(e - 1)
      BY DEF FIInv
    <3>2. \A j \in DOMAIN pending' : j \in DOMAIN pending \/ j = Len(pending) + 1
      BY <2>3
    <3>3. DOMAIN pending \subseteq DOMAIN pending' /\ Len(pending) + 1 \in DOMAIN pending'
      BY <2>3
    <3>4. (\E j \in DOMAIN pending' : b \in Bytes(pending'[j]))
             <=> (\E j \in DOMAIN pending : b \in Bytes(pending[j])) \/ b \in s..(e - 1)
      BY <2>2, <2>3, <3>2, <3>3, Zenon
    <3>5. Covered(b)' <=> \/ b \in 0..(head' - 1)
                          \/ \E j \in DOMAIN pending' : b \in Bytes(pending'[j])
      BY DEF Covered, Bytes
    <3> QED
      BY <2>1, <3>1, <3>4, <3>5 DEF Covered
  <2> QED
    BY <2>4, <2>5, <2>6 DEF FIInv
<1> QED
    BY <1>1, <1>2

(* One round of the absorb loop: the entry leaves ht_pending and its bytes
   join the frontier in the same step.                                     *)
LEMMA AbsorbKeeps ==
    ASSUME FIInv, Absorb
    PROVE  FIInv'
<1>1. PICK i \in DOMAIN pending :
         /\ FirstReached(i)
         /\ head' = IF pending[i].end > head THEN pending[i].end ELSE head
         /\ pending' = SwapRemove(pending, i)
    BY DEF Absorb
<1>2. fpc = "absorb" /\ fpc' = fpc /\ notified' = notified
    BY DEF Absorb
<1>3. pending \in Seq(Range0) /\ pending[i] \in Range0
    BY DEF FIInv, FTypeOK
<1>4. /\ pending' \in Seq(Range0)
      /\ Len(pending') = Len(pending) - 1
      /\ \A j \in DOMAIN pending' :
            \E k \in DOMAIN pending : k # i /\ pending'[j] = pending[k]
      /\ \A k \in DOMAIN pending : k # i =>
            \E j \in DOMAIN pending' : pending'[j] = pending[k]
    BY <1>1, <1>3, SwapRemoveKeepsOthers, SMT
<1>5. FTypeOK'
  <2>1. head' \in 0..Total
    BY <1>1, <1>3, TotalAssumption DEF FIInv, FTypeOK, Range0
  <2>2. Len(pending') <= MaxPending
    BY <1>3, <1>4, MaxPendingAssumption DEF FIInv, FTypeOK
  <2> QED
    BY <1>2, <1>4, <2>1, <2>2 DEF FIInv, FTypeOK
<1>6. PendingNonEmpty' /\ NothingReached'
  <2>1. PendingNonEmpty'
    BY <1>4, Zenon DEF FIInv, PendingNonEmpty
  <2> QED
    BY <1>2, <2>1 DEF NothingReached
<1>7. ASSUME NEW b \in Int PROVE (b \in notified' <=> Covered(b)')
  <2>1. b \in notified' <=> Covered(b)
    BY <1>2 DEF FIInv
  <2>2. b \in 0..(head' - 1) <=> b \in 0..(head - 1) \/ b \in Bytes(pending[i])
    <3>1. pending[i].start < pending[i].end /\ pending[i].start <= head
      BY <1>1 DEF FIInv, PendingNonEmpty, FirstReached
    <3>2. \/ b \in 0..(head' - 1) => b \in 0..(head - 1)
          \/ b \in 0..(head' - 1) => b \in Bytes(pending[i])
      BY <1>1, <1>3, <3>1 DEF FIInv, FTypeOK, Bytes, Range0
    <3> QED
      BY <1>1, <1>3, <3>1 DEF FIInv, FTypeOK, Bytes, Range0
  <2>3. \A j \in DOMAIN pending' : b \in Bytes(pending'[j])
           => \E k \in DOMAIN pending : b \in Bytes(pending[k])
    BY <1>4, Zenon
  <2>4. \A k \in DOMAIN pending : k # i /\ b \in Bytes(pending[k])
           => \E j \in DOMAIN pending' : b \in Bytes(pending'[j])
    BY <1>4, Zenon
  <2>5. Covered(b)' <=> \/ b \in 0..(head' - 1)
                        \/ \E j \in DOMAIN pending' : b \in Bytes(pending'[j])
    BY DEF Covered, Bytes
  <2> QED
    BY <2>1, <2>2, <2>3, <2>4, <2>5 DEF Covered
<1> QED
    BY <1>5, <1>6, <1>7 DEF FIInv

(* The round that absorbs nothing leaves nothing reached behind. *)
LEMMA AbsorbDoneKeeps ==
    ASSUME FIInv, AbsorbDone
    PROVE  FIInv'
BY DEF FIInv, FTypeOK, PendingNonEmpty, NothingReached, Covered, Bytes, AbsorbDone

----------------------------------------------------------------------------
(* Every step of ht_advance_head keeps the inductive invariant. *)
LEMMA FIInvInductive ==
    ASSUME FIInv, [FNext]_fvars
    PROVE  FIInv'
<1>1. CASE \E s, e \in 0..Total : AdvanceHead(s, e)
  <2>1. PICK s \in 0..Total, e \in 0..Total : AdvanceHead(s, e)
    BY <1>1
  <2> QED
    BY <2>1, ExtendKeeps, CoalesceKeeps, StashKeeps DEF AdvanceHead
<1>2. CASE Absorb
    BY <1>2, AbsorbKeeps
<1>3. CASE AbsorbDone
    BY <1>3, AbsorbDoneKeeps
<1>4. CASE UNCHANGED fvars
    BY <1>4 DEF fvars, FIInv, FTypeOK, PendingNonEmpty, NothingReached, Covered, Bytes
<1> QED
    BY <1>1, <1>2, <1>3, <1>4 DEF FNext

(* The region starts with nothing delivered. *)
LEMMA FIInvInit ==
    ASSUME FInit
    PROVE  FIInv
BY TotalAssumption, MaxPendingAssumption
DEF FInit, FIInv, FTypeOK, PendingNonEmpty, NothingReached, Covered

(* The inductive invariant holds in every state of every execution. *)
THEOREM FIInvAlways == FSpec => []FIInv
BY FIInvInit, FIInvInductive, PTL DEF FSpec

(* Type correctness of the region frontier. *)
THEOREM FTypeCorrect == FSpec => []FTypeOK
<1>1. FIInv => FTypeOK
    BY DEF FIInv
<1> QED
    BY <1>1, FIInvAlways, PTL

(* ht_head and ht_pending account for exactly the delivered bytes, for
   every order, size and overlap of the completed loads.                   *)
THEOREM FrontierCoversAlways == FSpec => []FrontierCovers
BY FIInvAlways, CoversPointwise, PTL

(* Where NothingReached holds, ht_head is the first byte not delivered. *)
LEMMA ExactPointwise ==
    ASSUME FIInv
    PROVE  FrontierExact
<1> SUFFICES ASSUME fpc = "idle"
             PROVE  0..(head - 1) \subseteq notified /\ head \notin notified
  BY DEF FrontierExact
<1>1. \A b \in Int : b \in notified <=> Covered(b)
  BY DEF FIInv
<1>2. 0..(head - 1) \subseteq notified
  BY <1>1 DEF Covered
<1>3. head \in Int /\ head \notin 0..(head - 1)
  BY TotalAssumption DEF FIInv, FTypeOK
<1>4. \A i \in DOMAIN pending : head \notin Bytes(pending[i])
  <2> SUFFICES ASSUME NEW i \in DOMAIN pending
               PROVE  head \notin Bytes(pending[i])
    OBVIOUS
  <2>1. pending[i] \in Range0 /\ pending[i].start > head
    BY DEF FIInv, FTypeOK, NothingReached
  <2> QED
    BY <1>3, <2>1 DEF Bytes, Range0
<1> QED
  BY <1>1, <1>2, <1>3, <1>4 DEF Covered

(* Once ht_advance_head has returned, ht_head is the first byte that was
   not delivered.                                                          *)
THEOREM FrontierExactAlways == FSpec => []FrontierExact
BY FIInvAlways, ExactPointwise, PTL

(* The three together, for every total size and every size of ht_pending. *)
THEOREM FrontierSoundAlways == FSpec => []FrontierSound
BY FTypeCorrect, FrontierCoversAlways, FrontierExactAlways, PTL DEF FrontierSound

(* No step of ht_advance_head moves the produced frontier back. *)
THEOREM HeadMonotoneAlways == FSpec => HeadMonotone
<1>1. ASSUME FIInv, [FNext]_fvars
      PROVE  [head' >= head]_fvars
  <2>1. head \in Int
    BY <1>1, TotalAssumption DEF FIInv, FTypeOK
  <2>2. \A i \in DOMAIN pending : pending[i].end \in Int
    <3> SUFFICES ASSUME NEW i \in DOMAIN pending
                 PROVE  pending[i].end \in Int
      OBVIOUS
    <3>1. pending[i] \in Range0
      BY <1>1 DEF FIInv, FTypeOK
    <3> QED
      BY <3>1 DEF Range0
  <2>3. CASE Absorb
    BY <2>1, <2>2, <2>3 DEF Absorb
  <2>4. CASE \E s, e \in 0..Total : AdvanceHead(s, e)
    BY <2>1, <2>4, TotalAssumption DEF AdvanceHead, ExtendHead, Coalesce, Stash
  <2>5. CASE AbsorbDone
    BY <2>1, <2>5 DEF AbsorbDone
  <2> QED
    BY <1>1, <2>3, <2>4, <2>5 DEF FNext
<1> QED
    BY <1>1, FIInvAlways, PTL DEF FSpec, HeadMonotone

----------------------------------------------------------------------------
(* The load: the inductive invariant *)

(* An end of a chunk: of a page, or of the stream. *)
CutAt(n) == n % PAGE = 0 \/ n = Total

Chunk == [off : Nat, len : Nat \ {0}, addr : Nat, status : {"READY", "WAITING_TIME"}]

BytesOf(r) == r.off..(r.off + r.len - 1)

(* A request is a piece of the stream that was cut at pages, lies in one   *)
(* piece within the last ring of it, and comes from where the files are.   *)
ChunkIn(r, n) ==
    /\ r.off % PAGE = 0 /\ CutAt(r.off + r.len)
    /\ r.off + r.len <= n /\ n <= r.off + RING
    /\ Phys(r.off) + r.len <= RING
    /\ \A b \in BytesOf(r) : ReadFlash(flash, r.addr + (b - r.off)) = b

ChunkOK(r) == ChunkIn(r, requested)

LTypeOK ==
    /\ requested \in 0..Total /\ done \in Nat /\ tail \in 0..Total
    /\ loadComplete \in BOOLEAN
    /\ ring \in [0..(RING + GHOST - 1) -> Int]
    /\ queue \in [1..Lists -> Seq(Chunk)]
    /\ hpc \in {"request", "issue", "reclaim", "absorb", "end"}
    /\ issued \in Nat /\ want \in Nat /\ target \in Nat /\ sweep \in 1..Lists
    /\ cpc \in {"probe", "spin", "read", "done"}
    /\ pos \in 0..Total /\ prevPos \in Nat /\ lastPage \in Nat /\ probe \in Nat

(* Request i of list w is the one ht_advance_head is working on. *)
Hot(w, i) == hpc = "absorb" /\ w = sweep /\ i = 1

QueueOK == \A w \in 1..Lists : \A i \in DOMAIN queue[w] : ChunkOK(queue[w][i])

(* Requests in flight have no byte in common, ... *)
Apart ==
    \A w, v \in 1..Lists : \A i \in DOMAIN queue[w], j \in DOMAIN queue[v] :
        <<w, i>> # <<v, j>> => \A b \in BytesOf(queue[w][i]) : b \notin BytesOf(queue[v][j])

(* ... and none with what was published before. *)
NotYet ==
    \A w \in 1..Lists : \A i \in DOMAIN queue[w] :
        ~Hot(w, i) => \A b \in BytesOf(queue[w][i]) : b \notin notified

(* The helper between Reclaim and ReclaimFinish. *)
HandOver ==
    /\ fpc = "idle" <=> hpc # "absorb"
    /\ hpc = "absorb" => /\ 1 \in DOMAIN queue[sweep] /\ queue[sweep][1].status = "WAITING_TIME"
                         /\ BytesOf(queue[sweep][1]) \subseteq notified

Published ==
    /\ \A b \in 0..(head - 1) : b \in notified
    /\ \A b \in notified : b \in 0..(requested - 1)

(* done_io_offset counts what is published, but for the request at hand. *)
Counted ==
    Cardinality(notified) = done + (IF hpc = "absorb" THEN queue[sweep][1].len ELSE 0)

EndsCut ==
    /\ CutAt(requested) /\ CutAt(head)
    /\ \A i \in DOMAIN pending : CutAt(pending[i].end)

(* The loader stays within one ring of what the program has reported. *)
WithinRing == tail <= pos /\ pos <= head /\ requested <= tail + RING

(* The rest of a batch: wa bytes from rq on, whole pages or all that is    *)
(* left, and within the ring even when rounded up to sectors.              *)
BatchAt(rq, wa, ta, is, tl) ==
    /\ wa > 0 /\ rq < Total
    /\ ta = is + Lesser(wa, Total - rq)
    /\ rq + wa + SECTOR <= tl + RING + 1
    /\ wa % PAGE = 0 \/ wa >= Total - rq

Batch == hpc = "issue" => BatchAt(requested, want, target, issued, tail)

(* What is published of the last RING bytes requested is in place, that in *)
(* the first GHOST bytes of the ring also behind its end.                  *)
Window ==
    \A b \in notified :
        b >= requested - RING => /\ ring[Phys(b)] = b
                                 /\ Phys(b) < GHOST => ring[RING + Phys(b)] = b

Copied ==
    \A w \in 1..Lists : \A i \in DOMAIN queue[w] :
        queue[w][i].status = "WAITING_TIME" => \A b \in BytesOf(queue[w][i]) : ring[Phys(b)] = b

(* Every byte up to the end of page p is published. *)
PagesIn(p) == \A b \in 0..(Total - 1) : b < (p + 1) * PAGE => b < head

Program ==
    /\ cpc # "done" => pos < Total /\ lastPage = pos \div PAGE
    /\ cpc = "read" => PagesIn(lastPage + 1)
    /\ cpc \in {"probe", "spin"} =>
          \/ probe = 0 /\ pos = 0
          \/ probe \div PAGE = lastPage + 1

LIInv ==
    /\ FIInv /\ LTypeOK /\ QueueOK /\ Apart /\ NotYet /\ HandOver /\ Published /\ Counted
    /\ EndsCut /\ WithinRing /\ Batch /\ Window /\ Copied /\ Program /\ CompleteMeansAll

----------------------------------------------------------------------------
(* The constants, one by one. *)
LEMMA LConsts ==
    /\ PAGE \in Nat \ {0} /\ GRAIN \in Nat \ {0} /\ IOSIZE \in Nat \ {0}
    /\ MINIO \in Nat \ {0} /\ RING \in Nat \ {0} /\ GHOST \in Nat \ {0}
    /\ Lists \in Nat \ {0} /\ SECTOR \in Nat \ {0} /\ Total \in Nat \ {0}
    /\ PAGE <= GHOST /\ GHOST <= RING
    /\ EntrySizes \subseteq 1..PAGE
  BY LoadAssumption, RangesAssumption, TotalAssumption

LEMMA LUnits ==
    /\ IOSIZE % PAGE = 0 /\ RING % PAGE = 0 /\ MINIO % PAGE = 0 /\ PAGE % SECTOR = 0
    /\ IOSIZE + 2 * PAGE + Greater(IOSIZE, MINIO) + SECTOR <= RING + 2
  BY LoadAssumption

LEMMA LPhys ==
    ASSUME NEW b \in Nat
    PROVE  Phys(b) \in Nat /\ Phys(b) < RING
  BY LConsts, DivFacts DEF Phys

(* Bytes that lie in the ring in one piece. *)
LEMMA PhysStep ==
    ASSUME NEW s \in Nat, NEW b \in Nat, s <= b, Phys(s) + (b - s) < RING
    PROVE  Phys(b) = Phys(s) + (b - s)
<1> DEFINE d == b - s
<1>1. d \in Nat /\ b = s + d
  OBVIOUS
<1>2. (s % RING) + d < RING
  BY DEF Phys
<1> HIDE DEF d
<1>3. (s + d) % RING = (s % RING) + d
  BY <1>1, <1>2, LConsts, ModStep
<1> QED BY <1>1, <1>3 DEF Phys, d

(* The range a byte of the stream belongs to. *)
LEMMA RangeFacts ==
    ASSUME NEW b \in Nat, b < Total
    PROVE  /\ RangeAt(sre, b) \in DOMAIN sre /\ DeviceAddr(sre, b) \in Nat
           /\ RangeEnd(b) \in Nat /\ b < RangeEnd(b) /\ RangeEnd(b) <= Total
           /\ CutAt(RangeEnd(b))
           /\ FileEnd(b) \in Nat /\ FileEnd(b) <= Total
           /\ \A c \in b..(RangeEnd(b) - 1) : ReadFlash(flash, DeviceAddr(sre, b) + (c - b)) = c
<1>1. b \in 0..(Total - 1)
  BY LConsts
<1>2. /\ RangeAt(sre, b) \in DOMAIN sre /\ DeviceAddr(sre, b) \in Nat
      /\ RangeEnd(b) \in (b + 1)..Total /\ FileEnd(b) \in (b + 1)..Total
      /\ RangeEnd(b) % PAGE = 0 \/ RangeEnd(b) = Total
      /\ \A c \in b..(RangeEnd(b) - 1) : ReadFlash(flash, DeviceAddr(sre, b) + (c - b)) = c
  BY <1>1, SourcesAssumption
<1>3. /\ RangeEnd(b) \in Nat /\ b < RangeEnd(b) /\ RangeEnd(b) <= Total
      /\ FileEnd(b) \in Nat /\ FileEnd(b) <= Total
  BY <1>2, LConsts
<1> QED BY <1>2, <1>3 DEF CutAt

(* Whole sectors. *)
LEMMA SectorFacts ==
    ASSUME NEW n \in Nat \ {0}
    PROVE  /\ SectorUp(n) \in Nat /\ n <= SectorUp(n) /\ SectorUp(n) < n + SECTOR
           /\ n % PAGE = 0 => SectorUp(n) = n
<1> DEFINE m == SectorUp(n)
<1>1. m = ((n + SECTOR - 1) \div SECTOR) * SECTOR
  BY DEF SectorUp, DivUp
<1> HIDE DEF m
<1>2. /\ m \in Nat /\ n <= m /\ m < n + SECTOR
      /\ n % SECTOR = 0 => m = n
  BY <1>1, LConsts, RoundUp
<1>3. n % PAGE = 0 => n % SECTOR = 0
  BY LConsts, LUnits, MultipleTrans, ZenonT(40)
<1> QED BY <1>2, <1>3 DEF m

(* The chunk that __request_io cuts off at requested_io_offset. *)
ChunkSize == CircularIoSize(requested, CalculateIoSize(sre, requested, want))

LEMMA ChunkFacts ==
    ASSUME LTypeOK, EndsCut, Batch, hpc = "issue"
    PROVE  /\ ChunkSize \in Nat \ {0} /\ requested + ChunkSize <= Total
           /\ requested % PAGE = 0 /\ CutAt(requested + ChunkSize)
           /\ Phys(requested) + ChunkSize <= RING
           /\ requested + ChunkSize <= tail + RING
           /\ \A b \in requested..(requested + ChunkSize - 1) :
                 ReadFlash(flash, DeviceAddr(sre, requested) + (b - requested)) = b
<1> DEFINE su == SectorUp(want)
           re == RangeEnd(requested)
           ph == Phys(requested)
           size == ChunkSize
<1>1. /\ requested \in Nat /\ want \in Nat \ {0} /\ requested < Total /\ tail \in Nat
      /\ requested + want + SECTOR <= tail + RING + 1
      /\ want % PAGE = 0 \/ want >= Total - requested
  BY LConsts DEF LTypeOK, Batch, BatchAt
<1>2. /\ RangeAt(sre, requested) \in DOMAIN sre
      /\ re \in Nat /\ requested < re /\ re <= Total /\ CutAt(re)
      /\ \A c \in requested..(re - 1) : ReadFlash(flash, DeviceAddr(sre, requested) + (c - requested)) = c
  BY <1>1, RangeFacts
<1>3. su \in Nat /\ want <= su /\ su < want + SECTOR /\ (want % PAGE = 0 => su = want)
  BY <1>1, SectorFacts
<1>4. ph \in Nat /\ ph < RING /\ CutAt(requested + (RING - ph))
  <2>1. ph \in Nat /\ ph < RING
    BY <1>1, LPhys
  <2>2. requested + (RING - ph) \in Nat /\ (requested + (RING - ph)) % RING = 0
    BY <1>1, LConsts, NextMultiple DEF Phys
  <2>3. (requested + (RING - ph)) % PAGE = 0
    BY <2>2, LConsts, LUnits, MultipleTrans
  <2> QED BY <2>1, <2>3 DEF CutAt
<1>5. CalculateIoSize(sre, requested, want) = Lesser(su, re - requested)
  <2> DEFINE i == RangeAt(sre, requested)
             n == Len(sre)
  <2>1. n \in Nat /\ DOMAIN sre = 1..n
    BY SourcesAssumption
  <2>2. i \in 1..n
    BY <1>2, <2>1
  <2> HIDE DEF i, n
  <2>3. ~ (i > n)
    BY <2>1, <2>2
  <2> QED BY <2>3 DEF CalculateIoSize, RangeEnd, i, n
<1>6. size = Lesser(Lesser(su, re - requested), RING - ph)
  BY <1>5 DEF ChunkSize, CircularIoSize
<1> HIDE DEF su, re, ph, size
<1>7. /\ size \in Nat \ {0} /\ size <= su /\ size <= re - requested /\ size <= RING - ph
      /\ size = su \/ size = re - requested \/ size = RING - ph
  BY <1>1, <1>2, <1>3, <1>4, <1>6, LConsts DEF Lesser
<1>8. requested % PAGE = 0
  BY <1>1, LConsts DEF EndsCut, CutAt
<1>9. CutAt(requested + size)
  <2>1. CASE size = re - requested
    <3>1. requested + size = re
      BY <1>1, <1>2, <2>1
    <3> QED BY <1>2, <3>1
  <2>2. CASE size = RING - ph
    BY <1>4, <2>2
  <2>3. CASE size = su /\ want % PAGE = 0
    <3>1. size = want
      BY <1>3, <2>3
    <3>2. (requested + want) % PAGE = 0
      BY <1>1, <1>8, <2>3, LConsts, MultipleSum
    <3> QED BY <3>1, <3>2 DEF CutAt
  <2>4. CASE size = su /\ want >= Total - requested
    <3>1. size = re - requested
      BY <1>1, <1>2, <1>3, <1>7, <2>4, LConsts
    <3> QED BY <2>1, <3>1
  <2> QED BY <1>1, <1>7, <2>1, <2>2, <2>3, <2>4
<1>10. /\ requested + size <= Total /\ ph + size <= RING /\ requested + size <= tail + RING
  BY <1>1, <1>2, <1>3, <1>4, <1>7, LConsts
<1>11. \A b \in requested..(requested + size - 1) : b \in requested..(re - 1)
  BY <1>1, <1>2, <1>7
<1>12. \A b \in requested..(requested + size - 1) :
          ReadFlash(flash, DeviceAddr(sre, requested) + (b - requested)) = b
  BY <1>2, <1>11
<1> QED BY <1>7, <1>8, <1>9, <1>10, <1>12 DEF ph, size

----------------------------------------------------------------------------
(* The lists of requests *)

(* A request is appended to list L. *)
LEMMA QueueAppend ==
    ASSUME queue \in [1..Lists -> Seq(Chunk)], NEW c \in Chunk, NEW L,
           queue' = [queue EXCEPT ![L] = Append(@, c)]
    PROVE  /\ queue' \in [1..Lists -> Seq(Chunk)]
           /\ \A w \in 1..Lists : \A i \in DOMAIN queue'[w] :
                 \/ i \in DOMAIN queue[w] /\ queue'[w][i] = queue[w][i]
                 \/ w = L /\ i = Len(queue[w]) + 1 /\ queue'[w][i] = c
<1>1. ASSUME NEW w \in 1..Lists
      PROVE  /\ queue'[w] \in Seq(Chunk)
             /\ \A i \in DOMAIN queue'[w] :
                   \/ i \in DOMAIN queue[w] /\ queue'[w][i] = queue[w][i]
                   \/ w = L /\ i = Len(queue[w]) + 1 /\ queue'[w][i] = c
  <2>0. queue[w] \in Seq(Chunk)
    OBVIOUS
  <2>1. CASE w = L
    <3>1. queue'[w] = Append(queue[w], c)
      BY <2>1
    <3> HIDE DEF Chunk
    <3> QED BY <2>0, <2>1, <3>1
  <2>2. CASE w # L
    <3>1. queue'[w] = queue[w]
      BY <2>2
    <3> QED BY <2>0, <3>1
  <2> QED BY <2>1, <2>2
<1>2. DOMAIN queue' = 1..Lists /\ queue' = [w \in 1..Lists |-> queue'[w]]
  OBVIOUS
<1>3. queue' \in [1..Lists -> Seq(Chunk)]
  <2> HIDE DEF Chunk
  <2> QED BY <1>1, <1>2
<1> QED BY <1>1, <1>3

(* The status of request i of list w changes. *)
LEMMA QueueCopied ==
    ASSUME queue \in [1..Lists -> Seq(Chunk)], NEW w \in 1..Lists, NEW i \in DOMAIN queue[w],
           queue' = [queue EXCEPT ![w][i].status = "WAITING_TIME"]
    PROVE  /\ queue' \in [1..Lists -> Seq(Chunk)]
           /\ \A v \in 1..Lists : DOMAIN queue'[v] = DOMAIN queue[v]
           /\ \A v \in 1..Lists : \A j \in DOMAIN queue[v] :
                 /\ queue'[v][j].off = queue[v][j].off
                 /\ queue'[v][j].len = queue[v][j].len
                 /\ queue'[v][j].addr = queue[v][j].addr
                 /\ queue'[v][j].status = queue[v][j].status \/ (v = w /\ j = i)
           /\ queue'[w][i].status = "WAITING_TIME"
<1> DEFINE c == [queue[w][i] EXCEPT !.status = "WAITING_TIME"]
           q == [queue[w] EXCEPT ![i] = c]
<1>1. queue[w] \in Seq(Chunk) /\ queue[w][i] \in Chunk
  <2> HIDE DEF Chunk
  <2> QED OBVIOUS
<1>2. /\ c \in Chunk /\ c.off = queue[w][i].off /\ c.len = queue[w][i].len
      /\ c.addr = queue[w][i].addr /\ c.status = "WAITING_TIME"
  BY <1>1 DEF Chunk
<1>3. queue' = [queue EXCEPT ![w] = q]
  OBVIOUS
<1> HIDE DEF c
<1>4. /\ q \in Seq(Chunk) /\ DOMAIN q = DOMAIN queue[w] /\ q[i] = c
      /\ \A j \in DOMAIN queue[w] : j # i => q[j] = queue[w][j]
  <2> HIDE DEF Chunk
  <2> QED BY <1>1, <1>2
<1> HIDE DEF q
<1>5. queue' \in [1..Lists -> Seq(Chunk)]
  <2> HIDE DEF Chunk
  <2> QED BY <1>3, <1>4
<1>6. queue'[w] = q /\ \A v \in 1..Lists : v # w => queue'[v] = queue[v]
  BY <1>3
<1> QED BY <1>2, <1>4, <1>5, <1>6

(* The first request of list w is freed. *)
LEMMA QueuePop ==
    ASSUME queue \in [1..Lists -> Seq(Chunk)], NEW w \in 1..Lists, queue[w] # << >>,
           queue' = [queue EXCEPT ![w] = Tail(@)]
    PROVE  /\ queue' \in [1..Lists -> Seq(Chunk)]
           /\ \A v \in 1..Lists : v # w => queue'[v] = queue[v]
           /\ \A j \in DOMAIN queue'[w] :
                 j \in Nat /\ j + 1 \in DOMAIN queue[w] /\ j # 0 /\ queue'[w][j] = queue[w][j + 1]
           /\ 1 \in DOMAIN queue[w] /\ Head(queue[w]) = queue[w][1]
<1> HIDE DEF Chunk
<1>1. queue[w] \in Seq(Chunk) /\ queue'[w] = Tail(queue[w])
  OBVIOUS
<1>2. /\ Tail(queue[w]) \in Seq(Chunk) /\ 1 \in DOMAIN queue[w] /\ Head(queue[w]) = queue[w][1]
      /\ \A j \in DOMAIN Tail(queue[w]) :
            j \in Nat /\ j + 1 \in DOMAIN queue[w] /\ j # 0 /\ Tail(queue[w])[j] = queue[w][j + 1]
  BY <1>1
<1>3. \A v \in 1..Lists : v # w => queue'[v] = queue[v]
  OBVIOUS
<1>4. queue' \in [1..Lists -> Seq(Chunk)]
  BY <1>1, <1>2
<1> QED BY <1>1, <1>2, <1>3, <1>4

(* The fields of a request. *)
LEMMA ChunkType ==
    ASSUME LTypeOK, NEW w \in 1..Lists, NEW i \in DOMAIN queue[w]
    PROVE  /\ queue[w][i] \in Chunk
           /\ queue[w][i].off \in Nat /\ queue[w][i].len \in Nat \ {0} /\ queue[w][i].addr \in Nat
           /\ queue[w][i].status \in {"READY", "WAITING_TIME"}
<1>1. queue[w][i] \in Chunk
  <2> HIDE DEF Chunk
  <2> QED BY DEF LTypeOK
<1> QED BY <1>1 DEF Chunk

----------------------------------------------------------------------------
(* Nothing is requested, in flight or published when the load starts. *)
LEMMA LInit ==
    ASSUME Init
    PROVE  LIInv
<1>1. FIInv
  BY FIInvInit DEF Init
<1>2. /\ requested = 0 /\ done = 0 /\ tail = 0 /\ loadComplete = FALSE /\ hpc = "request"
      /\ issued = 0 /\ want = 0 /\ target = 0 /\ sweep = 1
      /\ cpc = "probe" /\ pos = 0 /\ prevPos = 0 /\ lastPage = 0 /\ probe = 0
      /\ head = 0 /\ pending = << >> /\ fpc = "idle" /\ notified = {}
      /\ queue = [w \in 1..Lists |-> << >>]
      /\ ring = [p \in 0..(RING + GHOST - 1) |-> -1]
  BY DEF Init, FInit
<1>3. queue \in [1..Lists -> Seq(Chunk)] /\ \A w \in 1..Lists : DOMAIN queue[w] = {}
  <2> HIDE DEF Chunk
  <2>1. \A w \in 1..Lists : queue[w] = << >>
    BY <1>2
  <2>2. << >> \in Seq(Chunk) /\ DOMAIN << >> = {}
    OBVIOUS
  <2> QED BY <1>2, <2>1, <2>2
<1>4. LTypeOK
  <2>1. ring \in [0..(RING + GHOST - 1) -> Int]
    BY <1>2
  <2>2. /\ 0 \in 0..Total /\ 0 \in Nat /\ 1 \in 1..Lists
    BY LConsts
  <2> HIDE DEF Chunk
  <2> QED BY <1>2, <1>3, <2>1, <2>2 DEF LTypeOK
<1>5. QueueOK /\ Apart /\ NotYet /\ Copied
  BY <1>3 DEF QueueOK, Apart, NotYet, Copied
<1>6. HandOver /\ Published /\ WithinRing /\ Batch /\ Window /\ CompleteMeansAll
  BY <1>2, LConsts DEF HandOver, Published, WithinRing, Batch, BatchAt, Window, CompleteMeansAll
<1>7. Counted
  BY <1>2, FS_EmptySet DEF Counted
<1>8. 0 % PAGE = 0 /\ 0 \div PAGE = 0
  BY LConsts
<1>9. EndsCut /\ Program
  BY <1>2, <1>8, LConsts DEF EndsCut, Program, CutAt
<1> QED BY <1>1, <1>4, <1>5, <1>6, <1>7, <1>9 DEF LIInv

(* What a step that leaves the requests, the frontier and the ring alone   *)
(* keeps.                                                                  *)
Core ==
    /\ FIInv /\ QueueOK /\ Apart /\ NotYet /\ HandOver /\ Published /\ Counted
    /\ EndsCut /\ Window /\ Copied /\ CompleteMeansAll

LEMMA Frame ==
    ASSUME LIInv, UNCHANGED <<fvars, requested, done, loadComplete, ring, queue>>,
           hpc' = "absorb" <=> hpc = "absorb", hpc = "absorb" => sweep' = sweep
    PROVE  Core'
<1>0. /\ head' = head /\ pending' = pending /\ fpc' = fpc /\ notified' = notified
      /\ requested' = requested /\ done' = done /\ loadComplete' = loadComplete
      /\ ring' = ring /\ queue' = queue
  BY DEF fvars
<1>1. FIInv'
  BY FIInvInductive DEF LIInv
<1>2. QueueOK' /\ Apart' /\ Copied'
  BY <1>0 DEF LIInv, QueueOK, Apart, Copied, ChunkOK, ChunkIn, BytesOf
<1>3. NotYet' /\ HandOver'
  BY <1>0 DEF LIInv, NotYet, HandOver, Hot, BytesOf
<1>4. Published' /\ EndsCut' /\ Window' /\ CompleteMeansAll'
  BY <1>0 DEF LIInv, Published, EndsCut, Window, CompleteMeansAll
<1>5. Counted'
  BY <1>0 DEF LIInv, Counted
<1> QED BY <1>1, <1>2, <1>3, <1>4, <1>5 DEF Core

(* A step of the helper that only moves its own locals and the task's      *)
(* token or state.                                                         *)
LEMMA LQuiet ==
    ASSUME LIInv, UNCHANGED <<fvars, requested, done, tail, loadComplete, ring, queue, compVars>>,
           hpc # "absorb", hpc' \in {"request", "issue", "reclaim", "end"},
           issued' \in Nat, want' \in Nat, target' \in Nat, sweep' \in 1..Lists, Batch'
    PROVE  LIInv'
<1>1. Core'
  BY Frame
<1>2. /\ head' = head /\ requested' = requested /\ done' = done /\ loadComplete' = loadComplete
      /\ ring' = ring /\ queue' = queue /\ tail' = tail
      /\ cpc' = cpc /\ pos' = pos /\ prevPos' = prevPos /\ lastPage' = lastPage /\ probe' = probe
  BY DEF fvars, compVars
<1>3. LTypeOK'
  <2> HIDE DEF Chunk
  <2> QED BY <1>2 DEF LIInv, LTypeOK
<1>4. WithinRing' /\ Program'
  BY <1>2 DEF LIInv, WithinRing, Program, PagesIn
<1> QED BY <1>1, <1>3, <1>4 DEF LIInv, Core

(* A step of the program: it moves ht_tail and its own locals. *)
LEMMA CQuiet ==
    ASSUME LIInv, UNCHANGED <<fvars, requested, done, loadComplete, ring, queue, helpVars>>,
           tail' \in 0..Total, tail <= tail', pos' \in 0..Total, tail' <= pos', pos' <= head,
           prevPos' \in Nat, lastPage' \in Nat, probe' \in Nat,
           cpc' \in {"probe", "spin", "read", "done"}, Program'
    PROVE  LIInv'
<1>1. /\ head' = head /\ requested' = requested /\ done' = done /\ loadComplete' = loadComplete
      /\ ring' = ring /\ queue' = queue
      /\ hpc' = hpc /\ issued' = issued /\ want' = want /\ target' = target /\ sweep' = sweep
  BY DEF fvars, helpVars
<1>2. Core'
  BY <1>1, Frame
<1>3. LTypeOK'
  <2> HIDE DEF Chunk
  <2> QED BY <1>1 DEF LIInv, LTypeOK
<1>n. /\ tail \in Nat /\ tail' \in Nat /\ requested \in Nat /\ want \in Nat
      /\ RING \in Nat /\ SECTOR \in Nat
  BY LConsts DEF LIInv, LTypeOK
<1>4. WithinRing'
  <2>1. requested <= tail + RING
    BY DEF LIInv, WithinRing
  <2>2. \A t \in Nat : tail <= t => requested <= t + RING
    BY <1>n, <2>1
  <2> QED BY <1>1, <1>n, <2>2 DEF WithinRing
<1>5. Batch'
  <2> SUFFICES ASSUME hpc = "issue" PROVE Batch'
    BY <1>1 DEF Batch, BatchAt
  <2>1. /\ want > 0 /\ requested < Total
        /\ target = issued + Lesser(want, Total - requested)
        /\ requested + want + SECTOR <= tail + RING + 1
        /\ want % PAGE = 0 \/ want >= Total - requested
    BY DEF LIInv, Batch, BatchAt
  <2>2. \A t \in Nat : tail <= t => requested + want + SECTOR <= t + RING + 1
    BY <1>n, <2>1
  <2> QED BY <1>1, <1>n, <2>1, <2>2 DEF Batch, BatchAt
<1> QED BY <1>2, <1>3, <1>4, <1>5 DEF LIInv, Core

----------------------------------------------------------------------------
(* The helper requests *)

(* The throttle, in bytes. *)
LEMMA ThrottleBytes ==
    ASSUME LTypeOK, Throttle, requested > 0
    PROVE  requested < tail + IOSIZE + 2 * PAGE
<1> DEFINE a == requested \div PAGE
           t == tail \div PAGE
           i == IOSIZE \div PAGE
<1>1. requested \in Nat /\ tail \in Nat
  BY LConsts DEF LTypeOK
<1>2. a <= t + i + 1
  BY DEF Throttle
<1>3. a \in Nat /\ t \in Nat /\ i \in Nat
  BY <1>1, LConsts, DivFacts
<1>4. requested < a * PAGE + PAGE
  BY <1>1, LConsts, AlignDownFacts
<1>5. t * PAGE <= tail
  BY <1>1, LConsts, AlignDownFacts
<1>6. IOSIZE = PAGE * i + (IOSIZE % PAGE)
  BY LConsts, DivFacts
<1>7. IOSIZE % PAGE = 0
  BY LUnits
<1> HIDE DEF a, t, i
<1>8. ((t + i + 1) - a) * PAGE >= 0
  BY <1>2, <1>3, LConsts
<1>9. a * PAGE <= t * PAGE + i * PAGE + PAGE
  BY <1>3, <1>8, LConsts
<1>10. IOSIZE = i * PAGE
  BY <1>3, <1>6, <1>7, LConsts
<1> QED BY <1>1, <1>3, <1>4, <1>5, <1>9, <1>10, LConsts

(* The size of a batch: whole pages, or all that is left. *)
LEMMA RequestSizeFacts ==
    ASSUME LTypeOK, requested < Total
    PROVE  /\ RequestSize \in Nat \ {0}
           /\ RequestSize <= PAGE + Greater(IOSIZE, MINIO)
           /\ requested > 0 => RequestSize <= Greater(IOSIZE, MINIO)
           /\ RequestSize % PAGE = 0 \/ RequestSize >= Total - requested
<1> DEFINE full == IF requested = 0 THEN PAGE ELSE IOSIZE
           rest == Total - requested
           rs == RequestSize
<1>1. requested \in Nat /\ rest \in Nat \ {0}
  BY LConsts DEF LTypeOK
<1>2. rs = Greater(Lesser(full, rest), MINIO)
  BY DEF RequestSize
<1>3. full \in Nat \ {0}
  BY LConsts
<1>4. full % PAGE = 0 /\ MINIO % PAGE = 0
  <2>1. PAGE = 1 * PAGE /\ 1 \in Nat /\ PAGE \in Nat
    BY LConsts
  <2>2. PAGE % PAGE = 0
    BY <2>1, LConsts, MultipleOf
  <2> QED BY <2>2, LUnits
<1>5. rs = full \/ rs = rest \/ rs = MINIO
  BY <1>2 DEF Greater, Lesser
<1>7. rs % PAGE = 0 \/ rs >= rest
  BY <1>1, <1>4, <1>5
<1>8. requested > 0 => full = IOSIZE
  BY <1>1
<1>9. full = PAGE \/ full = IOSIZE
  OBVIOUS
<1> HIDE DEF full, rest, rs
<1>10. /\ rs \in Nat \ {0}
       /\ requested > 0 => rs <= Greater(IOSIZE, MINIO)
  BY <1>1, <1>2, <1>3, <1>8, LConsts DEF Greater, Lesser
<1>11. rs <= PAGE + Greater(IOSIZE, MINIO)
  BY <1>1, <1>2, <1>3, <1>9, LConsts DEF Greater, Lesser
<1> QED BY <1>7, <1>10, <1>11 DEF rs, rest

LEMMA LStartBatch ==
    ASSUME LIInv, StartBatch
    PROVE  LIInv'
<1>1. /\ requested < Total /\ want' = RequestSize
      /\ target' = Lesser(RequestSize, Total - requested)
      /\ issued' = 0 /\ hpc' = "issue" /\ hpc = "request" /\ Throttle
  BY DEF StartBatch, MayRequest
<1>2. UNCHANGED <<fvars, requested, done, tail, loadComplete, ring, queue, compVars, sweep>>
  BY DEF StartBatch, taskVars, infoVars
<1>3. LTypeOK
  BY DEF LIInv
<1> DEFINE rs == RequestSize
           g == Greater(IOSIZE, MINIO)
<1>4. /\ rs \in Nat \ {0} /\ rs <= PAGE + g
      /\ requested > 0 => rs <= g
      /\ rs % PAGE = 0 \/ rs >= Total - requested
  BY <1>1, <1>3, RequestSizeFacts
<1>5. requested > 0 => requested < tail + IOSIZE + 2 * PAGE
  BY <1>1, <1>3, ThrottleBytes
<1>6. IOSIZE + 2 * PAGE + g + SECTOR <= RING + 2
  BY LUnits
<1>7. requested \in Nat /\ tail \in Nat
  BY <1>3, LConsts DEF LTypeOK
<1>8. g \in Nat
  BY LConsts DEF Greater
<1> HIDE DEF rs, g
<1>9. requested + rs + SECTOR <= tail + RING + 1
  <2>1. CASE requested = 0
    BY <1>4, <1>6, <1>7, <1>8, <2>1, LConsts
  <2>2. CASE requested > 0
    BY <1>4, <1>5, <1>6, <1>7, <1>8, <2>2, LConsts
  <2> QED BY <1>7, <2>1, <2>2
<1>10. want' = rs /\ target' = Lesser(rs, Total - requested)
  BY <1>1 DEF rs
<1>11. target' \in Nat /\ target' = 0 + Lesser(rs, Total - requested)
  BY <1>1, <1>4, <1>7, <1>10, LConsts DEF Lesser
<1>12. Batch'
  BY <1>1, <1>2, <1>4, <1>9, <1>10, <1>11 DEF Batch, BatchAt
<1>13. sweep' \in 1..Lists
  BY <1>2, <1>3 DEF LTypeOK
<1> QED BY <1>1, <1>2, <1>4, <1>10, <1>11, <1>12, <1>13, LQuiet

(* The other quiet steps of the helper. *)
LEMMA LQuietSteps ==
    ASSUME LIInv, NothingToRequest \/ RefillToken \/ NextList \/ EndLoad
    PROVE  LIInv'
<1>1. UNCHANGED <<fvars, requested, done, tail, loadComplete, ring, queue, compVars, issued, want, target>>
  BY DEF NothingToRequest, RefillToken, NextList, EndLoad, taskVars, infoVars
<1>2. hpc \in {"request", "reclaim", "end"} /\ hpc' \in {"request", "reclaim", "end"}
  BY DEF NothingToRequest, RefillToken, NextList, EndLoad
<1>3. sweep \in 1..Lists /\ issued \in Nat /\ want \in Nat /\ target \in Nat
  BY DEF LIInv, LTypeOK
<1>4. sweep' \in 1..Lists
  BY <1>3, LConsts DEF NothingToRequest, RefillToken, NextList, EndLoad
<1>5. Batch'
  BY <1>2 DEF Batch, BatchAt
<1> QED BY <1>1, <1>2, <1>3, <1>4, <1>5, LQuiet

(* What is left of the batch after a chunk. *)
LEMMA BatchRest ==
    ASSUME NEW rq \in Nat, NEW wa \in Nat, NEW ta \in Nat, NEW is \in Nat, NEW tl \in Nat,
           BatchAt(rq, wa, ta, is, tl), NEW sz \in Nat \ {0}, is + sz < ta, rq % PAGE = 0,
           NEW k, NEW w2, NEW j, k = rq + sz, j = is + sz, w2 = ta - j, CutAt(k)
    PROVE  BatchAt(k, w2, ta, j, tl)
<1>0. /\ wa > 0 /\ rq < Total
      /\ ta = is + Lesser(wa, Total - rq)
      /\ rq + wa + SECTOR <= tl + RING + 1
      /\ wa % PAGE = 0 \/ wa >= Total - rq
  BY DEF BatchAt
<1>1. /\ w2 \in Nat \ {0} /\ k < Total /\ k \in Nat
      /\ w2 = Lesser(wa, Total - rq) - sz /\ w2 <= Total - k /\ w2 <= wa - sz
  BY <1>0, LConsts DEF Lesser
<1>2. ta = j + w2
  BY <1>0, <1>1
<1>3. Lesser(w2, Total - k) = w2
  BY <1>1, LConsts DEF Lesser
<1>4. k + w2 + SECTOR <= tl + RING + 1
  BY <1>0, <1>1, LConsts
<1>5. w2 % PAGE = 0 \/ w2 >= Total - k
  <2>1. CASE wa >= Total - rq
    BY <1>1, <2>1, LConsts DEF Lesser
  <2>2. CASE wa < Total - rq
    <3>1. wa % PAGE = 0
      BY <1>0, <2>2, LConsts
    <3>2. k % PAGE = 0
      BY <1>1, LConsts DEF CutAt
    <3>3. k \in Nat /\ rq <= k /\ sz = k - rq
      BY <1>1
    <3>a. (k - rq) % PAGE = 0
      BY <3>2, <3>3, LConsts, MultipleDiff, Zenon
    <3>4. sz % PAGE = 0
      BY <3>3, <3>a, Zenon
    <3>5. w2 = wa - sz /\ sz <= wa
      BY <1>1, <2>2, LConsts DEF Lesser
    <3>6. sz \in Nat
      OBVIOUS
    <3>7. (wa - sz) % PAGE = 0
      BY <3>1, <3>4, <3>5, <3>6, LConsts, MultipleDiff, Zenon
    <3> QED BY <3>5, <3>7, Zenon
  <2> QED BY <2>1, <2>2, LConsts
<1> QED BY <1>1, <1>2, <1>3, <1>4, <1>5 DEF BatchAt

LEMMA LIssueChunk ==
    ASSUME LIInv, IssueChunk
    PROVE  LIInv'
<1> DEFINE size == ChunkSize
           c == [off |-> requested, len |-> size, addr |-> DeviceAddr(sre, requested), status |-> "READY"]
           L == ChosenList
           more == issued + size < target /\ Used + 1 < pool
<1>1. LTypeOK /\ EndsCut /\ Batch
  BY DEF LIInv
<1>2. /\ hpc = "issue" /\ requested' = requested + size
      /\ queue' = [queue EXCEPT ![L] = Append(@, c)]
      /\ issued' = IF more THEN issued + size ELSE 0
      /\ want' = IF more THEN target - (issued + size) ELSE 0
      /\ target' = IF more THEN target ELSE 0
      /\ hpc' = IF more THEN "issue" ELSE "reclaim"
      /\ sweep' = 1
  BY DEF IssueChunk, ChunkSize
<1>3. /\ head' = head /\ pending' = pending /\ fpc' = fpc /\ notified' = notified
      /\ done' = done /\ tail' = tail /\ loadComplete' = loadComplete /\ ring' = ring
      /\ cpc' = cpc /\ pos' = pos /\ prevPos' = prevPos /\ lastPage' = lastPage /\ probe' = probe
  BY DEF IssueChunk, fvars, infoVars, compVars
<1>4. /\ size \in Nat \ {0} /\ requested + size <= Total
      /\ requested % PAGE = 0 /\ CutAt(requested + size)
      /\ Phys(requested) + size <= RING
      /\ requested + size <= tail + RING
      /\ \A b \in requested..(requested + size - 1) :
            ReadFlash(flash, DeviceAddr(sre, requested) + (b - requested)) = b
  BY <1>1, <1>2, ChunkFacts
<1>5. /\ requested \in Nat /\ tail \in Nat /\ want \in Nat /\ target \in Nat /\ issued \in Nat
      /\ head \in Nat /\ pos \in Nat /\ requested < Total /\ want > 0
      /\ tail <= pos /\ pos <= head
  BY <1>1, <1>2, LConsts DEF LIInv, LTypeOK, WithinRing, FIInv, FTypeOK, Batch, BatchAt
<1>6. DeviceAddr(sre, requested) \in Nat
  BY <1>5, RangeFacts
<1> HIDE DEF size, L, more
<1>7. /\ c \in Chunk /\ c.off = requested /\ c.len = size
      /\ c.addr = DeviceAddr(sre, requested) /\ c.status = "READY"
  BY <1>4, <1>5, <1>6 DEF Chunk
<1> HIDE DEF c
<1>8. /\ queue' \in [1..Lists -> Seq(Chunk)]
      /\ \A w \in 1..Lists : \A i \in DOMAIN queue'[w] :
            \/ i \in DOMAIN queue[w] /\ queue'[w][i] = queue[w][i]
            \/ w = L /\ i = Len(queue[w]) + 1 /\ queue'[w][i] = c
  <2>1. queue \in [1..Lists -> Seq(Chunk)]
    BY <1>1 DEF LTypeOK
  <2> QED BY <1>2, <1>7, <2>1, QueueAppend, ZenonT(40)
<1>9. BytesOf(c) = requested..(requested + size - 1)
  BY <1>7 DEF BytesOf
<1>10. \A t \in Nat : requested' = t => t = requested + size /\ requested <= t /\ t <= Total /\ t <= tail + RING
  BY <1>2, <1>4, <1>5
<1>11. requested' \in Nat /\ requested' = requested + size /\ requested <= requested' /\ requested' <= Total
  BY <1>2, <1>4, <1>5
<1>12. FIInv'
  BY <1>3, FIInvInductive DEF LIInv, fvars
<1>13. LTypeOK'
  <2>1. requested' \in 0..Total
    BY <1>11, LConsts
  <2>2. issued' \in Nat /\ want' \in Nat /\ target' \in Nat
    BY <1>2, <1>4, <1>5 DEF more
  <2>3. sweep' \in 1..Lists /\ hpc' \in {"request", "issue", "reclaim", "absorb", "end"}
    BY <1>2, LConsts
  <2> HIDE DEF Chunk
  <2> QED BY <1>1, <1>3, <1>8, <2>1, <2>2, <2>3 DEF LTypeOK
<1>14. ASSUME NEW w \in 1..Lists, NEW i \in DOMAIN queue[w]
       PROVE  /\ queue[w][i].off \in Nat /\ queue[w][i].len \in Nat \ {0}
              /\ ChunkOK(queue[w][i]) /\ queue[w][i].off >= tail
              /\ \A b \in BytesOf(queue[w][i]) : b \in Nat /\ b < requested
  <2>1. queue[w][i].off \in Nat /\ queue[w][i].len \in Nat \ {0} /\ ChunkOK(queue[w][i])
    BY <1>1, ChunkType DEF LIInv, QueueOK
  <2>2. queue[w][i].off \in BytesOf(queue[w][i])
    BY <2>1 DEF BytesOf
  <2>3. queue[w][i].off \notin notified
    BY <1>2, <2>2 DEF LIInv, NotYet, Hot
  <2>4. ~ (queue[w][i].off < head)
    BY <1>5, <2>1, <2>3 DEF LIInv, Published
  <2> QED BY <1>5, <2>1, <2>4 DEF ChunkOK, ChunkIn, BytesOf
<1>15. QueueOK'
  <2> SUFFICES ASSUME NEW w \in 1..Lists, NEW i \in DOMAIN queue'[w]
               PROVE  ChunkIn(queue'[w][i], requested')
    BY DEF QueueOK, ChunkOK
  <2>1. CASE i \in DOMAIN queue[w] /\ queue'[w][i] = queue[w][i]
    <3> DEFINE r == queue[w][i]
    <3>1. /\ r.off \in Nat /\ r.len \in Nat \ {0} /\ ChunkOK(r) /\ r.off >= tail
      BY <1>14, <2>1
    <3> HIDE DEF r
    <3>2. \A t \in Nat : requested <= t /\ t <= tail + RING => r.off + r.len <= t /\ t <= r.off + RING
      BY <1>5, <3>1, LConsts DEF ChunkOK, ChunkIn
    <3>3. requested' <= tail + RING
      BY <1>10, <1>11
    <3>4. r.off + r.len <= requested' /\ requested' <= r.off + RING
      BY <3>2, <3>3, <1>11
    <3> QED BY <2>1, <3>1, <3>4 DEF ChunkOK, ChunkIn, BytesOf, r
  <2>2. CASE queue'[w][i] = c
    <3>1. requested + size <= requested + RING
      BY <1>4, <1>5, LPhys, LConsts
    <3>2. /\ c.off % PAGE = 0 /\ CutAt(c.off + c.len)
          /\ c.off + c.len <= requested' /\ requested' <= c.off + RING
          /\ Phys(c.off) + c.len <= RING
          /\ \A b \in BytesOf(c) : ReadFlash(flash, c.addr + (b - c.off)) = b
      BY <1>2, <1>4, <1>5, <1>7, <1>9, <3>1
    <3> QED BY <2>2, <3>2 DEF ChunkOK, ChunkIn, BytesOf
  <2> QED BY <1>8, <2>1, <2>2
<1>16. \A b \in BytesOf(c) : b \in Nat /\ b >= requested
  BY <1>5, <1>9
<1>17. Apart'
  <2> SUFFICES ASSUME NEW w \in 1..Lists, NEW v \in 1..Lists,
                      NEW i \in DOMAIN queue'[w], NEW j \in DOMAIN queue'[v],
                      <<w, i>> # <<v, j>>,
                      NEW b \in BytesOf(queue'[w][i])
               PROVE  b \notin BytesOf(queue'[v][j])
    BY DEF Apart, BytesOf
  <2>1. \/ i \in DOMAIN queue[w] /\ queue'[w][i] = queue[w][i]
        \/ w = L /\ i = Len(queue[w]) + 1 /\ queue'[w][i] = c
    BY <1>8
  <2>2. \/ j \in DOMAIN queue[v] /\ queue'[v][j] = queue[v][j]
        \/ v = L /\ j = Len(queue[v]) + 1 /\ queue'[v][j] = c
    BY <1>8
  <2>3. CASE /\ i \in DOMAIN queue[w] /\ queue'[w][i] = queue[w][i]
             /\ j \in DOMAIN queue[v] /\ queue'[v][j] = queue[v][j]
    BY <2>3 DEF LIInv, Apart
  <2>4. CASE /\ i \in DOMAIN queue[w] /\ queue'[w][i] = queue[w][i]
             /\ queue'[v][j] = c
    <3>1. b \in Nat /\ b < requested
      BY <2>4, <1>14
    <3> QED BY <2>4, <3>1, <1>5, <1>16
  <2>5. CASE /\ queue'[w][i] = c
             /\ j \in DOMAIN queue[v] /\ queue'[v][j] = queue[v][j]
    <3>1. b \in Nat /\ b >= requested
      BY <2>5, <1>16
    <3>2. \A x \in BytesOf(queue'[v][j]) : x \in Nat /\ x < requested
      BY <2>5, <1>14
    <3> QED BY <3>1, <3>2, <1>5
  <2>6. CASE w = L /\ i = Len(queue[w]) + 1 /\ v = L /\ j = Len(queue[v]) + 1
    BY <2>6
  <2> QED BY <2>1, <2>2, <2>3, <2>4, <2>5, <2>6
<1>18. NotYet'
  <2> SUFFICES ASSUME NEW w \in 1..Lists, NEW i \in DOMAIN queue'[w],
                      NEW b \in BytesOf(queue'[w][i])
               PROVE  b \notin notified
    BY <1>3 DEF NotYet, BytesOf
  <2>1. CASE i \in DOMAIN queue[w] /\ queue'[w][i] = queue[w][i]
    BY <1>2, <2>1 DEF LIInv, NotYet, Hot
  <2>2. CASE queue'[w][i] = c
    <3>1. b \in Nat /\ b >= requested
      BY <1>16, <2>2
    <3> QED BY <3>1, <1>5 DEF LIInv, Published
  <2> QED BY <1>8, <2>1, <2>2
<1>19. HandOver' /\ Counted'
  <2>1. hpc' # "absorb"
    BY <1>2
  <2> QED BY <1>2, <1>3, <2>1 DEF LIInv, HandOver, Counted
<1>20. Published'
  <2>1. \A b \in notified : b \in 0..(requested - 1)
    BY DEF LIInv, Published
  <2>2. \A t \in Nat : requested <= t => \A b \in 0..(requested - 1) : b \in 0..(t - 1)
    BY <1>5
  <2>3. \A b \in notified : b \in 0..(requested' - 1)
    BY <1>11, <2>1, <2>2
  <2> QED BY <1>3, <2>3 DEF LIInv, Published
<1>21. EndsCut'
  BY <1>1, <1>2, <1>3, <1>4 DEF EndsCut
<1>22. WithinRing'
  BY <1>2, <1>3, <1>4, <1>5 DEF WithinRing
<1>23. Window'
  <2> SUFFICES ASSUME NEW b \in notified, b >= requested' - RING
               PROVE  ring[Phys(b)] = b /\ (Phys(b) < GHOST => ring[RING + Phys(b)] = b)
    BY <1>3 DEF Window
  <2>1. b \in 0..(requested - 1)
    BY DEF LIInv, Published
  <2>2. \A t \in Nat : requested <= t /\ b >= t - RING => b >= requested - RING
    BY <1>5, <2>1, LConsts
  <2>3. b >= requested - RING
    BY <1>11, <2>2
  <2> QED BY <2>3 DEF LIInv, Window
<1>24. Copied'
  <2> SUFFICES ASSUME NEW w \in 1..Lists, NEW i \in DOMAIN queue'[w],
                      queue'[w][i].status = "WAITING_TIME", NEW b \in BytesOf(queue'[w][i])
               PROVE  ring[Phys(b)] = b
    BY <1>3 DEF Copied, BytesOf
  <2>1. i \in DOMAIN queue[w] /\ queue'[w][i] = queue[w][i]
    BY <1>7, <1>8
  <2> QED BY <2>1 DEF LIInv, Copied
<1>25. Program' /\ CompleteMeansAll'
  BY <1>3 DEF LIInv, Program, PagesIn, CompleteMeansAll
<1>26. Batch'
  <2> SUFFICES ASSUME more PROVE Batch'
    BY <1>2 DEF Batch, BatchAt
  <2>1. BatchAt(requested, want, target, issued, tail) /\ issued + size < target
    BY <1>1, <1>2 DEF Batch, more
  <2>2. /\ want' = target - issued' /\ requested' = requested + size
        /\ issued' = issued + size /\ target' = target /\ tail' = tail
        /\ CutAt(requested')
    BY <1>2, <1>3, <1>4
  <2>3. BatchAt(requested', want', target, issued', tail)
    BY <1>4, <1>5, <2>1, <2>2, BatchRest
  <2> QED BY <2>2, <2>3 DEF Batch
<1> QED BY <1>12, <1>13, <1>15, <1>17, <1>18, <1>19, <1>20, <1>21, <1>22, <1>23, <1>24, <1>25, <1>26
        DEF LIInv

----------------------------------------------------------------------------
(* An slm worker copies *)

(* What slm_work leaves in the ring: the bytes of the request in place,    *)
(* every other byte of the last RING ones and the ghost page as before.    *)
RingWith(r) ==
    [p \in DOMAIN ring |->
        IF p \in Phys(r.off)..(Phys(r.off) + r.len - 1)
        THEN ReadFlash(flash, r.addr + (p - Phys(r.off))) ELSE ring[p]]

LEMMA CopyRing ==
    ASSUME LTypeOK, NEW r \in Chunk, ChunkOK(r), NEW rg, rg = RingWith(r)
    PROVE  /\ rg \in [0..(RING + GHOST - 1) -> Int]
           /\ \A b \in BytesOf(r) : rg[Phys(b)] = b
           /\ \A b \in Nat : requested - RING <= b /\ b < requested /\ b \notin BytesOf(r)
                                => rg[Phys(b)] = ring[Phys(b)]
           /\ \A p \in RING..(RING + GHOST - 1) : rg[p] = ring[p]
<1> DEFINE o == r.off
           n == r.len
           po == Phys(r.off)
<1>1. o \in Nat /\ n \in Nat \ {0} /\ r.addr \in Nat /\ requested \in Nat
  BY LConsts DEF Chunk, LTypeOK
<1>2. /\ o + n <= requested /\ requested <= o + RING /\ po + n <= RING
      /\ \A b \in BytesOf(r) : ReadFlash(flash, r.addr + (b - o)) = b
  BY DEF ChunkOK, ChunkIn
<1>3. BytesOf(r) = o..(o + n - 1)
  BY DEF BytesOf
<1>4. po \in Nat /\ po < RING
  BY <1>1, LPhys
<1>5. DOMAIN ring = 0..(RING + GHOST - 1) /\ \A p \in 0..(RING + GHOST - 1) : ring[p] \in Int
  BY DEF LTypeOK
<1>6. rg = [p \in DOMAIN ring |->
               IF p \in Phys(r.off)..(Phys(r.off) + r.len - 1)
               THEN ReadFlash(flash, r.addr + (p - Phys(r.off))) ELSE ring[p]]
  BY DEF RingWith
<1> HIDE DEF o, n, po
<1>7. ASSUME NEW b \in BytesOf(r)
      PROVE  b \in Nat /\ Phys(b) = po + (b - o) /\ Phys(b) \in po..(po + n - 1)
  <2>1. b \in Nat /\ o <= b /\ b < o + n
    BY <1>1, <1>3
  <2>2. po + (b - o) < RING
    BY <1>1, <1>2, <1>4, <2>1, LConsts
  <2>3. Phys(b) = po + (b - o)
    BY <1>1, <2>1, <2>2, PhysStep DEF o, po
  <2> QED BY <1>1, <1>4, <2>1, <2>3
<1>8. ASSUME NEW p \in po..(po + n - 1)
      PROVE  /\ p \in 0..(RING - 1) /\ o + (p - po) \in BytesOf(r) /\ rg[p] = o + (p - po)
             /\ Phys(o + (p - po)) = p
  <2>1. p \in 0..(RING - 1) /\ p \in DOMAIN ring /\ o + (p - po) \in BytesOf(r)
    BY <1>1, <1>2, <1>3, <1>4, <1>5, LConsts
  <2>2. rg[p] = ReadFlash(flash, r.addr + (p - po))
    BY <1>6, <2>1 DEF po, n
  <2>3. (o + (p - po)) - o = p - po
    BY <1>1, <1>4, <2>1
  <2> DEFINE b == o + (p - po)
  <2>4. b \in BytesOf(r) /\ b - o = p - po
    BY <2>1, <2>3
  <2> HIDE DEF b
  <2>5. ReadFlash(flash, r.addr + (p - po)) = b
    BY <1>2, <2>4
  <2>6. Phys(b) = p
    BY <1>1, <1>4, <1>7, <2>1, <2>4
  <2> QED BY <2>1, <2>2, <2>5, <2>6 DEF b
<1>9. ASSUME NEW p \in 0..(RING + GHOST - 1), p \notin po..(po + n - 1)
      PROVE  rg[p] = ring[p]
  BY <1>5, <1>6, <1>9 DEF po, n
<1>10. rg \in [0..(RING + GHOST - 1) -> Int]
  <2>1. ASSUME NEW p \in 0..(RING + GHOST - 1) PROVE rg[p] \in Int
    <3>1. CASE p \in po..(po + n - 1)
      BY <1>1, <1>4, <1>8, <3>1
    <3>2. CASE p \notin po..(po + n - 1)
      BY <1>5, <1>9, <3>2
    <3> QED BY <3>1, <3>2
  <2>2. rg = [p \in 0..(RING + GHOST - 1) |-> rg[p]]
    BY <1>5, <1>6
  <2> QED BY <2>1, <2>2
<1>11. ASSUME NEW b \in BytesOf(r) PROVE rg[Phys(b)] = b
  <2>1. b \in Nat /\ Phys(b) = po + (b - o) /\ Phys(b) \in po..(po + n - 1)
    BY <1>7
  <2>2. rg[Phys(b)] = o + (Phys(b) - po)
    BY <1>8, <2>1
  <2> QED BY <1>1, <1>4, <2>1, <2>2
<1>12. ASSUME NEW b \in Nat, requested - RING <= b, b < requested, b \notin BytesOf(r)
       PROVE  rg[Phys(b)] = ring[Phys(b)]
  <2>1. Phys(b) \in Nat /\ Phys(b) < RING
    BY LPhys
  <2>2. Phys(b) \in 0..(RING + GHOST - 1)
    BY <2>1, LConsts
  <2>3. Phys(b) \notin po..(po + n - 1)
    <3> SUFFICES ASSUME Phys(b) \in po..(po + n - 1) PROVE FALSE
      OBVIOUS
    <3> DEFINE c == o + (Phys(b) - po)
    <3>1. c \in BytesOf(r) /\ Phys(c) = Phys(b)
      BY <1>8
    <3> HIDE DEF c
    <3>2. c \in Nat /\ o <= c /\ c < o + n
      BY <1>1, <1>3, <3>1
    <3>3. b < c + RING /\ c < b + RING
      BY <1>1, <1>2, <1>12, <3>2, LConsts
    <3>4. b = c
      BY <3>1, <3>2, <3>3, LConsts, ModUnique DEF Phys
    <3> QED BY <1>12, <3>1, <3>4
  <2> QED BY <1>9, <2>2, <2>3
<1>13. ASSUME NEW p \in RING..(RING + GHOST - 1) PROVE rg[p] = ring[p]
  BY <1>1, <1>2, <1>4, <1>9, LConsts
<1> QED BY <1>10, <1>11, <1>12, <1>13

LEMMA LCopy ==
    ASSUME LIInv, NEW w \in 1..Lists, Copy(w)
    PROVE  LIInv'
<1>1. PICK i \in DOMAIN queue[w] :
         /\ queue[w][i].status = "READY"
         /\ ring' = RingWith(queue[w][i])
         /\ queue' = [queue EXCEPT ![w][i].status = "WAITING_TIME"]
  BY DEF Copy, RingWith
<1> DEFINE r == queue[w][i]
<1>2. /\ head' = head /\ pending' = pending /\ fpc' = fpc /\ notified' = notified
      /\ requested' = requested /\ done' = done /\ tail' = tail /\ loadComplete' = loadComplete
      /\ hpc' = hpc /\ issued' = issued /\ want' = want /\ target' = target /\ sweep' = sweep
      /\ cpc' = cpc /\ pos' = pos /\ prevPos' = prevPos /\ lastPage' = lastPage /\ probe' = probe
  BY DEF Copy, fvars, taskVars, helpVars, compVars
<1>3. LTypeOK /\ queue \in [1..Lists -> Seq(Chunk)] /\ requested \in Nat /\ sweep \in 1..Lists
  BY LConsts DEF LIInv, LTypeOK
<1>4. r \in Chunk /\ ChunkOK(r)
  BY <1>3, ChunkType DEF LIInv, QueueOK
<1>5. /\ ring' \in [0..(RING + GHOST - 1) -> Int]
      /\ \A b \in BytesOf(r) : ring'[Phys(b)] = b
      /\ \A b \in Nat : requested - RING <= b /\ b < requested /\ b \notin BytesOf(r)
                           => ring'[Phys(b)] = ring[Phys(b)]
      /\ \A p \in RING..(RING + GHOST - 1) : ring'[p] = ring[p]
  BY <1>1, <1>3, <1>4, CopyRing
<1> HIDE DEF r
<1>6. /\ queue' \in [1..Lists -> Seq(Chunk)]
      /\ \A v \in 1..Lists : DOMAIN queue'[v] = DOMAIN queue[v]
      /\ \A v \in 1..Lists : \A j \in DOMAIN queue[v] :
            /\ queue'[v][j].off = queue[v][j].off
            /\ queue'[v][j].len = queue[v][j].len
            /\ queue'[v][j].addr = queue[v][j].addr
            /\ queue'[v][j].status = queue[v][j].status \/ (v = w /\ j = i)
      /\ queue'[w][i].status = "WAITING_TIME"
  BY <1>1, <1>3, QueueCopied
<1>7. \A v \in 1..Lists : \A j \in DOMAIN queue[v] : BytesOf(queue'[v][j]) = BytesOf(queue[v][j])
  BY <1>6 DEF BytesOf
<1>8. FIInv'
  BY <1>2, FIInvInductive DEF LIInv, fvars
<1>9. LTypeOK'
  <2> HIDE DEF Chunk
  <2> QED BY <1>2, <1>3, <1>5, <1>6 DEF LTypeOK
<1>10. QueueOK'
  <2> SUFFICES ASSUME NEW v \in 1..Lists, NEW j \in DOMAIN queue'[v]
               PROVE  ChunkIn(queue'[v][j], requested')
    BY DEF QueueOK, ChunkOK
  <2>1. j \in DOMAIN queue[v] /\ ChunkIn(queue[v][j], requested)
    BY <1>6 DEF LIInv, QueueOK, ChunkOK
  <2>2. /\ queue'[v][j].off = queue[v][j].off /\ queue'[v][j].len = queue[v][j].len
        /\ queue'[v][j].addr = queue[v][j].addr
    BY <1>6, <2>1
  <2> QED BY <1>2, <2>1, <2>2 DEF ChunkIn, BytesOf
<1>11. Apart'
  <2> SUFFICES ASSUME NEW u \in 1..Lists, NEW v \in 1..Lists,
                      NEW k \in DOMAIN queue'[u], NEW j \in DOMAIN queue'[v],
                      <<u, k>> # <<v, j>>, NEW b \in BytesOf(queue'[u][k])
               PROVE  b \notin BytesOf(queue'[v][j])
    BY DEF Apart, BytesOf
  <2>1. k \in DOMAIN queue[u] /\ j \in DOMAIN queue[v]
    BY <1>6
  <2>2. BytesOf(queue'[u][k]) = BytesOf(queue[u][k]) /\ BytesOf(queue'[v][j]) = BytesOf(queue[v][j])
    BY <1>7, <2>1
  <2> QED BY <2>1, <2>2 DEF LIInv, Apart
<1>12. NotYet'
  <2> SUFFICES ASSUME NEW v \in 1..Lists, NEW j \in DOMAIN queue'[v], ~Hot(v, j),
                      NEW b \in BytesOf(queue'[v][j])
               PROVE  b \notin notified
    BY <1>2 DEF NotYet, BytesOf, Hot
  <2>1. j \in DOMAIN queue[v] /\ b \in BytesOf(queue[v][j])
    BY <1>6, <1>7
  <2> QED BY <2>1 DEF LIInv, NotYet
<1>13. HandOver' /\ Counted'
  <2>1. hpc = "absorb" => /\ 1 \in DOMAIN queue[sweep] /\ queue[sweep][1].status = "WAITING_TIME"
                          /\ BytesOf(queue[sweep][1]) \subseteq notified
    BY DEF LIInv, HandOver
  <2>2. hpc = "absorb" => /\ 1 \in DOMAIN queue'[sweep] /\ queue'[sweep][1].status = "WAITING_TIME"
                          /\ BytesOf(queue'[sweep][1]) = BytesOf(queue[sweep][1])
                          /\ queue'[sweep][1].len = queue[sweep][1].len
    BY <1>3, <1>6, <1>7, <2>1
  <2>3. HandOver'
    BY <1>2, <2>1, <2>2 DEF LIInv, HandOver, BytesOf
  <2> QED BY <1>2, <2>2, <2>3 DEF LIInv, Counted
<1>14. ~Hot(w, i)
  BY <1>1 DEF LIInv, HandOver, Hot
<1>15. \A b \in notified : b \in Nat /\ b < requested /\ b \notin BytesOf(r)
  <2>1. \A b \in BytesOf(r) : b \notin notified
    BY <1>14 DEF LIInv, NotYet, r
  <2> QED BY <1>3, <2>1 DEF LIInv, Published
<1>16. Window'
  <2> SUFFICES ASSUME NEW b \in notified, b >= requested - RING
               PROVE  ring'[Phys(b)] = b /\ (Phys(b) < GHOST => ring'[RING + Phys(b)] = b)
    BY <1>2 DEF Window
  <2>1. ring[Phys(b)] = b /\ (Phys(b) < GHOST => ring[RING + Phys(b)] = b)
    BY DEF LIInv, Window
  <2>2. b \in Nat /\ requested - RING <= b /\ b < requested /\ b \notin BytesOf(r)
    BY <1>3, <1>15, LConsts
  <2>3. ring'[Phys(b)] = ring[Phys(b)]
    BY <1>5, <2>2
  <2>4. Phys(b) < GHOST => RING + Phys(b) \in RING..(RING + GHOST - 1)
    BY <2>2, LPhys, LConsts
  <2> QED BY <1>5, <2>1, <2>3, <2>4
<1>17. Copied'
  <2> SUFFICES ASSUME NEW v \in 1..Lists, NEW j \in DOMAIN queue'[v],
                      queue'[v][j].status = "WAITING_TIME", NEW b \in BytesOf(queue'[v][j])
               PROVE  ring'[Phys(b)] = b
    BY DEF Copied, BytesOf
  <2>1. j \in DOMAIN queue[v] /\ b \in BytesOf(queue[v][j])
    BY <1>6, <1>7
  <2>2. CASE v = w /\ j = i
    BY <1>5, <2>1, <2>2 DEF r
  <2>3. CASE ~(v = w /\ j = i)
    <3>1. queue[v][j].status = "WAITING_TIME"
      BY <1>6, <2>1, <2>3
    <3>2. ring[Phys(b)] = b
      BY <2>1, <3>1 DEF LIInv, Copied
    <3>3. b \notin BytesOf(r)
      BY <2>1, <2>3 DEF LIInv, Apart, r
    <3>4. b \in Nat /\ requested - RING <= b /\ b < requested
      <4>1. ChunkOK(queue[v][j]) /\ queue[v][j].off \in Nat /\ queue[v][j].len \in Nat \ {0}
        BY <1>3, <2>1, ChunkType DEF LIInv, QueueOK
      <4> DEFINE o == queue[v][j].off
                 n == queue[v][j].len
      <4>2. /\ o \in Nat /\ n \in Nat \ {0} /\ o + n <= requested /\ requested <= o + RING
            /\ b \in o..(o + n - 1)
        BY <2>1, <4>1 DEF ChunkOK, ChunkIn, BytesOf
      <4>3. requested \in Nat /\ RING \in Nat
        BY <1>3, LConsts
      <4> HIDE DEF o, n
      <4> QED BY <4>2, <4>3
    <3> QED BY <1>5, <3>2, <3>3, <3>4
  <2> QED BY <2>2, <2>3
<1>18. Published' /\ EndsCut' /\ WithinRing' /\ Batch' /\ Program' /\ CompleteMeansAll'
  BY <1>2 DEF LIInv, Published, EndsCut, WithinRing, Batch, Program, PagesIn, CompleteMeansAll
<1> QED BY <1>8, <1>9, <1>10, <1>11, <1>12, <1>13, <1>16, <1>17, <1>18 DEF LIInv

----------------------------------------------------------------------------
(* The helper reclaims *)

(* What a call of ht_advance_head does to the frontier and to the ends of  *)
(* the stashed ranges before its loop.                                     *)
LEMMA AdvanceEffect ==
    ASSUME FIInv, NEW s \in 0..Total, NEW e \in 0..Total, AdvanceHead(s, e)
    PROVE  /\ FIInv' /\ fpc = "idle" /\ fpc' # "idle"
           /\ head <= head' /\ (head' = head \/ (head' = e /\ s <= head))
           /\ notified' = notified \cup s..(e - 1)
           /\ \A i \in DOMAIN pending' :
                 pending'[i].end = e \/ \E j \in DOMAIN pending : pending'[i].end = pending[j].end
<1>1. FIInv'
  BY FIInvInductive DEF FNext
<1>2. head \in Nat /\ pending \in Seq(Range0)
  BY TotalAssumption DEF FIInv, FTypeOK
<1>3. fpc = "idle" /\ fpc' # "idle" /\ notified' = notified \cup s..(e - 1)
  BY DEF AdvanceHead, ExtendHead, Coalesce, Stash
<1>4. head <= head' /\ (head' = head \/ (head' = e /\ s <= head))
  BY <1>2, TotalAssumption DEF AdvanceHead, ExtendHead, Coalesce, Stash
<1>5. ASSUME NEW i \in DOMAIN pending'
      PROVE  pending'[i].end = e \/ \E j \in DOMAIN pending : pending'[i].end = pending[j].end
  <2>1. CASE pending' = pending
    BY <2>1
  <2>2. CASE Coalesce(s, e)
    <3>1. PICK k \in DOMAIN pending : pending' = [pending EXCEPT ![k] = Widen(@, s, e)]
      BY <2>2 DEF Coalesce
    <3>2. i \in DOMAIN pending /\ (i # k => pending'[i] = pending[i])
      BY <1>2, <3>1
    <3>3. i = k => pending'[i] = Widen(pending[k], s, e)
      BY <1>2, <3>1
    <3>4. Widen(pending[k], s, e).end = e \/ Widen(pending[k], s, e).end = pending[k].end
      BY DEF Widen
    <3> QED BY <3>2, <3>3, <3>4
  <2>3. CASE pending' = Append(pending, [start |-> s, end |-> e])
    <3> DEFINE new == [start |-> s, end |-> e]
    <3>1. new.end = e
      OBVIOUS
    <3>2. pending' = Append(pending, new)
      BY <2>3
    <3>3. new \in Range0
      BY DEF Range0
    <3> HIDE DEF new
    <3>4. pending'[i] = new \/ (i \in DOMAIN pending /\ pending'[i] = pending[i])
      BY <1>2, <3>2, <3>3
    <3> QED BY <3>1, <3>4
  <2> QED BY <2>1, <2>2, <2>3 DEF AdvanceHead, ExtendHead, Stash
<1> QED BY <1>1, <1>3, <1>4, <1>5

(* The ghost copy touches nothing but the ghost page, and leaves there     *)
(* what lies at the start of the ring.                                     *)
LEMMA MirrorRing ==
    ASSUME LTypeOK, NEW r \in Chunk, Phys(r.off) + r.len <= RING, NEW rg, rg = GhostMirror(r)
    PROVE  /\ rg \in [0..(RING + GHOST - 1) -> Int]
           /\ \A p \in 0..(RING - 1) : rg[p] = ring[p]
           /\ \A p \in 0..(GHOST - 1) : rg[RING + p] = ring[p] \/ rg[RING + p] = ring[RING + p]
           /\ \A p \in 0..(GHOST - 1) :
                 p \in Phys(r.off)..(Phys(r.off) + r.len - 1) => rg[RING + p] = ring[p]
<1> DEFINE po == Phys(r.off)
           l == r.len
           n == Lesser(GHOST - po, l)
           In(p) == po < GHOST /\ p \in (RING + po)..(RING + po + n - 1)
<1>1. po \in Nat /\ l \in Nat \ {0} /\ po + l <= RING
  <2>1. r.off \in Nat /\ r.len \in Nat \ {0}
    BY DEF Chunk
  <2> QED BY <2>1, LPhys
<1>2. DOMAIN ring = 0..(RING + GHOST - 1) /\ \A p \in 0..(RING + GHOST - 1) : ring[p] \in Int
  BY DEF LTypeOK
<1>3. rg = [p \in DOMAIN ring |-> IF In(p) THEN ring[p - RING] ELSE ring[p]]
  BY DEF GhostMirror
<1> HIDE DEF po, l
<1>4. ASSUME NEW p \in 0..(RING + GHOST - 1)
      PROVE  /\ In(p) => p - RING \in 0..(GHOST - 1)
             /\ p < RING => ~In(p)
  BY <1>1, LConsts DEF Lesser
<1>5. ASSUME NEW p \in 0..(GHOST - 1), p \in po..(po + l - 1)
      PROVE  In(RING + p)
  BY <1>1, <1>5, LConsts DEF Lesser
<1>6. \A p \in 0..(RING + GHOST - 1) : rg[p] = IF In(p) THEN ring[p - RING] ELSE ring[p]
  BY <1>2, <1>3
<1>7. rg = [p \in 0..(RING + GHOST - 1) |-> rg[p]]
  BY <1>2, <1>3
<1> HIDE DEF In
<1>8. ASSUME NEW p \in 0..(RING + GHOST - 1) PROVE rg[p] \in Int
  <2>1. In(p) => p - RING \in 0..(RING + GHOST - 1)
    BY <1>4, LConsts
  <2> QED BY <1>2, <1>6, <2>1
<1>9. rg \in [0..(RING + GHOST - 1) -> Int]
  BY <1>7, <1>8
<1>10. ASSUME NEW p \in 0..(RING - 1) PROVE rg[p] = ring[p]
  <2>1. p \in 0..(RING + GHOST - 1) /\ p < RING
    BY LConsts
  <2> QED BY <1>4, <1>6, <2>1
<1>11. ASSUME NEW p \in 0..(GHOST - 1)
       PROVE  /\ RING + p \in 0..(RING + GHOST - 1) /\ (RING + p) - RING = p
              /\ rg[RING + p] = IF In(RING + p) THEN ring[p] ELSE ring[RING + p]
  <2>1. RING + p \in 0..(RING + GHOST - 1) /\ (RING + p) - RING = p
    BY LConsts
  <2> QED BY <1>6, <2>1
<1>12. \A p \in 0..(GHOST - 1) : p \in po..(po + l - 1) => rg[RING + p] = ring[p]
  BY <1>5, <1>11
<1>13. \A p \in 0..(GHOST - 1) : rg[RING + p] = ring[p] \/ rg[RING + p] = ring[RING + p]
  BY <1>11
<1> QED BY <1>9, <1>10, <1>12, <1>13 DEF po, l

(* The number of bytes when a range is added that was not there. *)
LEMMA CountRange ==
    ASSUME NEW S, IsFiniteSet(S), NEW o \in Nat, NEW n \in Nat, \A b \in o..(o + n - 1) : b \notin S
    PROVE  Cardinality(S \cup o..(o + n - 1)) = Cardinality(S) + n
<1> DEFINE T == o..(o + n - 1)
<1>1. IsFiniteSet(T) /\ Cardinality(T) = n
  BY FS_Interval
<1>2. S \cap T = {}
  OBVIOUS
<1> HIDE DEF T
<1>3. Cardinality(S) \in Nat /\ Cardinality(S \cap T) = 0
  BY <1>2, FS_CardinalityType, FS_EmptySet
<1>4. Cardinality(S \cup T) = Cardinality(S) + Cardinality(T) - Cardinality(S \cap T)
  BY <1>1, FS_Union
<1> QED BY <1>1, <1>3, <1>4 DEF T

LEMMA LReclaim ==
    ASSUME LIInv, Reclaim
    PROVE  LIInv'
<1> DEFINE r == queue[sweep][1]
           o == r.off
           n == r.len
<1>1. /\ hpc = "reclaim" /\ hpc' = "absorb"
      /\ requested' = requested /\ done' = done /\ tail' = tail /\ loadComplete' = loadComplete
      /\ queue' = queue /\ issued' = issued /\ want' = want /\ target' = target /\ sweep' = sweep
      /\ cpc' = cpc /\ pos' = pos /\ prevPos' = prevPos /\ lastPage' = lastPage /\ probe' = probe
  BY DEF Reclaim, compVars
<1>2. LTypeOK /\ FIInv /\ queue \in [1..Lists -> Seq(Chunk)] /\ requested \in Nat /\ sweep \in 1..Lists
      /\ requested <= Total
  BY LConsts DEF LIInv, LTypeOK
<1>3. 1 \in DOMAIN queue[sweep] /\ Head(queue[sweep]) = r
  <2>1. queue[sweep] \in Seq(Chunk) /\ queue[sweep] # << >>
    BY <1>2 DEF Reclaim
  <2> HIDE DEF Chunk
  <2> QED BY <2>1
<1>4. r.status = "WAITING_TIME" /\ ring' = GhostMirror(r) /\ AdvanceHead(o, o + n)
  BY <1>3 DEF Reclaim
<1>5. r \in Chunk /\ o \in Nat /\ n \in Nat \ {0} /\ ChunkOK(r)
  BY <1>2, <1>3, ChunkType DEF LIInv, QueueOK
<1>6. o + n <= requested /\ requested <= o + RING /\ Phys(o) + n <= RING /\ CutAt(o + n)
  BY <1>5 DEF ChunkOK, ChunkIn
<1>7. BytesOf(r) = o..(o + n - 1)
  BY DEF BytesOf
<1>8. o \in 0..Total /\ o + n \in 0..Total
  <2> HIDE DEF o, n
  <2>1. o \in Nat /\ n \in Nat /\ o + n <= requested
    BY <1>5, <1>6
  <2>2. requested \in Nat /\ requested <= Total /\ Total \in Nat
    BY <1>2, LConsts
  <2> QED BY <2>1, <2>2
<1>9. \A b \in BytesOf(r) : b \notin notified
  BY <1>1, <1>2, <1>3 DEF LIInv, NotYet, Hot
<1>10. /\ FIInv' /\ fpc = "idle" /\ fpc' # "idle"
       /\ head <= head' /\ (head' = head \/ (head' = o + n /\ o <= head))
       /\ notified' = notified \cup o..(o + n - 1)
       /\ \A i \in DOMAIN pending' :
             pending'[i].end = o + n \/ \E j \in DOMAIN pending : pending'[i].end = pending[j].end
  <2> DEFINE e == o + n
  <2>1. e \in 0..Total /\ AdvanceHead(o, e)
    BY <1>4, <1>8
  <2> HIDE DEF e, o
  <2>2. /\ FIInv' /\ fpc = "idle" /\ fpc' # "idle"
        /\ head <= head' /\ (head' = head \/ (head' = e /\ o <= head))
        /\ notified' = notified \cup o..(e - 1)
        /\ \A i \in DOMAIN pending' :
             pending'[i].end = e \/ \E j \in DOMAIN pending : pending'[i].end = pending[j].end
    BY <1>2, <1>8, <2>1, AdvanceEffect
  <2>3. e - 1 = o + n - 1
    <3> HIDE DEF n
    <3> QED BY <1>5 DEF e
  <2> QED BY <2>2, <2>3 DEF e
<1>11. /\ ring' \in [0..(RING + GHOST - 1) -> Int]
       /\ \A p \in 0..(RING - 1) : ring'[p] = ring[p]
       /\ \A p \in 0..(GHOST - 1) : ring'[RING + p] = ring[p] \/ ring'[RING + p] = ring[RING + p]
       /\ \A p \in 0..(GHOST - 1) :
             p \in Phys(r.off)..(Phys(r.off) + r.len - 1) => ring'[RING + p] = ring[p]
  BY <1>2, <1>4, <1>5, <1>6, MirrorRing, SMTT(40)
<1>12. head \in Nat /\ head' \in Nat /\ pos \in Nat
  BY <1>2, <1>10, LConsts DEF FIInv, FTypeOK, LTypeOK
<1> HIDE DEF r, o, n
<1>13. LTypeOK'
  <2> HIDE DEF Chunk
  <2> QED BY <1>1, <1>2, <1>11 DEF LTypeOK
<1>14. QueueOK' /\ Apart'
  BY <1>1 DEF LIInv, QueueOK, Apart, ChunkOK, ChunkIn, BytesOf
<1>15. NotYet'
  <2> SUFFICES ASSUME NEW w \in 1..Lists, NEW i \in DOMAIN queue[w], ~(w = sweep /\ i = 1),
                      NEW b \in BytesOf(queue[w][i])
               PROVE  b \notin notified'
    BY <1>1 DEF NotYet, Hot, BytesOf
  <2>1. b \notin notified
    BY <1>1 DEF LIInv, NotYet, Hot
  <2>2. b \notin BytesOf(r)
    BY <1>2, <1>3 DEF LIInv, Apart, r
  <2> QED BY <1>7, <1>10, <2>1, <2>2
<1>16. HandOver'
  <2>1. BytesOf(r) \subseteq notified'
    BY <1>7, <1>10
  <2> QED BY <1>1, <1>3, <1>4, <1>10, <2>1 DEF HandOver, BytesOf, r
<1>17. Published'
  <2>1. \A b \in notified : b \in 0..(requested - 1)
    BY DEF LIInv, Published
  <2>2. \A b \in 0..(head - 1) : b \in notified
    BY DEF LIInv, Published
  <2>3. \A b \in o..(o + n - 1) : b \in 0..(requested - 1)
    BY <1>2, <1>5, <1>6
  <2>4. ASSUME NEW b \in 0..(head' - 1) PROVE b \in notified'
    <3>1. CASE b < head
      <4>1. b \in 0..(head - 1)
        BY <1>12, <3>1
      <4> QED BY <1>10, <2>2, <4>1
    <3>2. CASE ~(b < head)
      <4>1. head' = o + n /\ o <= head
        <5>1. \A h \in Nat : b \in 0..(h - 1) => h # head
          BY <1>12, <3>2
        <5> QED BY <1>10, <1>12, <5>1
      <4>2. b \in o..(o + n - 1)
        BY <1>5, <1>12, <3>2, <4>1
      <4> QED BY <1>10, <4>2
    <3> QED BY <3>1, <3>2
  <2> QED BY <1>1, <1>10, <2>1, <2>3, <2>4 DEF Published
<1>18. Counted'
  <2>1. Cardinality(notified) = done
    <3>1. Cardinality(notified) = done + 0 /\ done \in Nat
      BY <1>1 DEF LIInv, Counted, LTypeOK
    <3> QED BY <3>1
  <2>2. IsFiniteSet(notified)
    <3>1. IsFiniteSet(0..(Total - 1)) /\ notified \subseteq 0..(Total - 1)
      BY <1>2, LConsts, FS_Interval DEF FIInv, FTypeOK
    <3> QED BY <3>1, FS_Subset
  <2>3. \A b \in o..(o + n - 1) : b \notin notified
    BY <1>7, <1>9
  <2>4. Cardinality(notified \cup o..(o + n - 1)) = Cardinality(notified) + n
    BY <1>5, <2>2, <2>3, CountRange
  <2> QED BY <1>1, <1>10, <2>1, <2>4 DEF Counted, n, r
<1>19. EndsCut'
  <2>1. CutAt(requested) /\ CutAt(head) /\ \A i \in DOMAIN pending : CutAt(pending[i].end)
    BY DEF LIInv, EndsCut
  <2>2. CutAt(head')
    BY <1>6, <1>10, <2>1
  <2>3. \A i \in DOMAIN pending' : CutAt(pending'[i].end)
    BY <1>6, <1>10, <2>1
  <2> QED BY <1>1, <2>1, <2>2, <2>3 DEF EndsCut
<1>20. WithinRing'
  <2>1. pos <= head
    BY DEF LIInv, WithinRing
  <2>2. \A h \in Nat : head <= h => pos <= h
    BY <1>12, <2>1
  <2> QED BY <1>1, <1>10, <1>12, <2>2 DEF LIInv, WithinRing
<1>21. Batch'
  BY <1>1 DEF Batch
<1>22. ASSUME NEW b \in Nat PROVE Phys(b) \in 0..(RING - 1)
  BY LPhys, LConsts
<1>23. Copied'
  <2> SUFFICES ASSUME NEW w \in 1..Lists, NEW i \in DOMAIN queue[w],
                      queue[w][i].status = "WAITING_TIME", NEW b \in BytesOf(queue[w][i])
               PROVE  ring'[Phys(b)] = b
    BY <1>1 DEF Copied, BytesOf
  <2>1. ring[Phys(b)] = b
    BY DEF LIInv, Copied
  <2>2. b \in Nat
    BY <1>2, ChunkType DEF BytesOf
  <2> QED BY <1>11, <1>22, <2>1, <2>2
<1>24. Window'
  <2> SUFFICES ASSUME NEW b \in notified', b >= requested - RING
               PROVE  ring'[Phys(b)] = b /\ (Phys(b) < GHOST => ring'[RING + Phys(b)] = b)
    BY <1>1 DEF Window
  <2>1. CASE b \in notified
    <3>1. ring[Phys(b)] = b /\ (Phys(b) < GHOST => ring[RING + Phys(b)] = b)
      BY <2>1 DEF LIInv, Window
    <3>2. b \in Nat
      BY <2>1 DEF LIInv, Published
    <3>3. Phys(b) \in 0..(RING - 1)
      BY <1>22, <3>2
    <3>4. Phys(b) < GHOST => Phys(b) \in 0..(GHOST - 1)
      BY <3>3, LConsts
    <3> QED BY <1>11, <3>1, <3>3, <3>4
  <2>2. CASE b \in o..(o + n - 1)
    <3>1. ring[Phys(b)] = b
      BY <1>2, <1>3, <1>4, <1>7, <2>2 DEF LIInv, Copied, r
    <3>2. b \in Nat /\ o <= b /\ b - o < n
      BY <1>5, <2>2
    <3>3. Phys(o) \in Nat
      BY <1>5, LPhys
    <3>4. Phys(o) + (b - o) < RING
      BY <1>5, <1>6, <3>2, <3>3, LConsts
    <3>5. Phys(b) = Phys(o) + (b - o)
      BY <1>5, <3>2, <3>4, PhysStep
    <3>6. Phys(b) \in Phys(o)..(Phys(o) + n - 1)
      BY <1>5, <3>2, <3>3, <3>5
    <3>7. Phys(b) \in 0..(RING - 1)
      BY <1>22, <3>2
    <3>8. Phys(b) < GHOST => Phys(b) \in 0..(GHOST - 1)
      BY <3>7, LConsts
    <3> QED BY <1>11, <3>1, <3>6, <3>7, <3>8 DEF o, n
  <2> QED BY <1>10, <2>1, <2>2
<1>25. Program'
  <2>1. \A p : PagesIn(p) => PagesIn(p)'
    <3> SUFFICES ASSUME NEW p, PagesIn(p), NEW b \in 0..(Total - 1), b < (p + 1) * PAGE PROVE b < head'
      BY DEF PagesIn
    <3>1. b < head
      BY DEF PagesIn
    <3>2. \A h \in Nat : head <= h => b < h
      BY <1>12, <3>1
    <3> QED BY <1>10, <1>12, <3>2
  <2> QED BY <1>1, <2>1 DEF LIInv, Program
<1>26. CompleteMeansAll'
  <2>1. ~loadComplete
    <3> SUFFICES ASSUME head = Total PROVE FALSE
      BY DEF LIInv, CompleteMeansAll
    <3>1. o \in 0..(head - 1) /\ o \in o..(o + n - 1)
      BY <1>2, <1>5, <1>6, <1>12
    <3> QED BY <1>7, <1>9, <3>1 DEF LIInv, Published
  <2> QED BY <1>1, <2>1 DEF CompleteMeansAll
<1> QED BY <1>10, <1>13, <1>14, <1>15, <1>16, <1>17, <1>18, <1>19, <1>20, <1>21, <1>23, <1>24, <1>25, <1>26
        DEF LIInv

LEMMA LReclaimAbsorb ==
    ASSUME LIInv, ReclaimAbsorb
    PROVE  LIInv'
<1>1. /\ hpc = "absorb" /\ hpc' = hpc /\ Absorb
      /\ requested' = requested /\ done' = done /\ tail' = tail /\ loadComplete' = loadComplete
      /\ ring' = ring /\ queue' = queue
      /\ issued' = issued /\ want' = want /\ target' = target /\ sweep' = sweep
      /\ cpc' = cpc /\ pos' = pos /\ prevPos' = prevPos /\ lastPage' = lastPage /\ probe' = probe
  BY DEF ReclaimAbsorb, taskVars, infoVars, helpVars, compVars
<1>2. PICK i \in DOMAIN pending :
         /\ head' = IF pending[i].end > head THEN pending[i].end ELSE head
         /\ pending' = SwapRemove(pending, i)
  BY <1>1 DEF Absorb
<1>3. FIInv /\ FIInv' /\ fpc = "absorb" /\ fpc' = "absorb" /\ notified' = notified
  BY <1>1, AbsorbKeeps DEF LIInv, Absorb
<1>4. pending \in Seq(Range0) /\ pending[i] \in Range0 /\ head \in Nat /\ head' \in Nat /\ pos \in Nat
  BY <1>3, LConsts DEF FIInv, FTypeOK, LIInv, LTypeOK
<1>5. head <= head' /\ (head' = head \/ head' = pending[i].end)
  <2>1. pending[i].end \in Nat
    BY <1>4 DEF Range0
  <2> QED BY <1>2, <1>4, <2>1
<1>6. LTypeOK'
  <2> HIDE DEF Chunk
  <2> QED BY <1>1 DEF LIInv, LTypeOK
<1>7. QueueOK' /\ Apart' /\ Copied'
  BY <1>1 DEF LIInv, QueueOK, Apart, Copied, ChunkOK, ChunkIn, BytesOf
<1>8. NotYet' /\ HandOver'
  BY <1>1, <1>3 DEF LIInv, NotYet, HandOver, Hot, BytesOf
<1>9. Counted' /\ Window'
  BY <1>1, <1>3 DEF LIInv, Counted, Window
<1>10. Published'
  <2>1. ASSUME NEW b \in 0..(head' - 1) PROVE b \in notified'
    <3>1. b \in Int /\ Covered(b)'
      BY DEF Covered
    <3> QED BY <1>3, <3>1 DEF FIInv
  <2> QED BY <1>1, <1>3, <2>1 DEF LIInv, Published
<1>11. EndsCut'
  <2>1. CutAt(requested) /\ CutAt(head) /\ \A j \in DOMAIN pending : CutAt(pending[j].end)
    BY DEF LIInv, EndsCut
  <2>2. CutAt(head')
    BY <1>5, <2>1
  <2>3. \A j \in DOMAIN pending' : \E k \in DOMAIN pending : pending'[j] = pending[k]
    BY <1>2, <1>4, SwapRemoveKeepsOthers, Zenon
  <2> QED BY <1>1, <2>1, <2>2, <2>3 DEF EndsCut
<1>12. WithinRing'
  <2>1. pos <= head
    BY DEF LIInv, WithinRing
  <2>2. \A h \in Nat : head <= h => pos <= h
    BY <1>4, <2>1
  <2> QED BY <1>1, <1>4, <1>5, <2>2 DEF LIInv, WithinRing
<1>13. Program'
  <2>1. \A p : PagesIn(p) => PagesIn(p)'
    <3> SUFFICES ASSUME NEW p, PagesIn(p), NEW b \in 0..(Total - 1), b < (p + 1) * PAGE PROVE b < head'
      BY DEF PagesIn
    <3>1. b < head
      BY DEF PagesIn
    <3>2. \A h \in Nat : head <= h => b < h
      BY <1>4, <3>1
    <3> QED BY <1>4, <1>5, <3>2
  <2> QED BY <1>1, <2>1 DEF LIInv, Program
<1>14. Batch'
  BY <1>1 DEF Batch
<1>15. CompleteMeansAll'
  <2>1. pending # << >>
    OBVIOUS
  <2> QED BY <1>1, <2>1 DEF LIInv, CompleteMeansAll
<1> QED BY <1>3, <1>6, <1>7, <1>8, <1>9, <1>10, <1>11, <1>12, <1>13, <1>14, <1>15 DEF LIInv

(* Once as many bytes are published as the stream has, ht_head is at its   *)
(* end and nothing is stashed.                                             *)
LEMMA AllPublished ==
    ASSUME FIInv, AbsorbDone, Cardinality(notified) >= Total
    PROVE  head = Total /\ pending = << >>
<1>1. /\ head \in 0..Total /\ pending \in Seq(Range0) /\ notified \subseteq 0..(Total - 1)
      /\ Total \in Nat /\ fpc # "bug"
  BY TotalAssumption DEF FIInv, FTypeOK, AbsorbDone
<1>2. notified = 0..(Total - 1)
  <2> DEFINE T == 0..(Total - 1)
  <2>1. IsFiniteSet(T) /\ Cardinality(T) = Total
    <3> DEFINE m == Total - 1
    <3>1. m \in Int /\ T = 0..m
      BY <1>1
    <3> HIDE DEF T, m
    <3>2. IsFiniteSet(0..m) /\ Cardinality(0..m) = IF 0 > m THEN 0 ELSE m - 0 + 1
      BY <3>1, FS_Interval
    <3> QED BY <1>1, <3>1, <3>2 DEF m
  <2>2. notified \subseteq T
    BY <1>1
  <2> HIDE DEF T
  <2>3. Cardinality(notified) \in Nat /\ Cardinality(notified) <= Cardinality(T)
        /\ (notified # T => Cardinality(notified) < Cardinality(T))
    <3>1. IsFiniteSet(notified) /\ Cardinality(notified) <= Cardinality(T)
          /\ (Cardinality(notified) = Cardinality(T) => notified = T)
      BY <2>1, <2>2, FS_Subset
    <3>2. Cardinality(notified) \in Nat
      BY <3>1, FS_CardinalityType
    <3> QED BY <1>1, <2>1, <3>1, <3>2
  <2> QED BY <1>1, <2>1, <2>3 DEF T
<1>3. \A i \in DOMAIN pending : pending[i] \in Range0 /\ pending[i].start > head
  BY <1>1 DEF AbsorbDone
<1>4. head = Total
  <2> SUFFICES ASSUME head \in 0..(Total - 1) PROVE FALSE
    BY <1>1
  <2>1. head \in Int /\ Covered(head)
    BY <1>1, <1>2 DEF FIInv
  <2>2. PICK i \in DOMAIN pending : head \in Bytes(pending[i])
    BY <1>1, <2>1 DEF Covered
  <2>3. pending[i].start \in Nat /\ pending[i].start > head
    BY <1>3 DEF Range0
  <2> QED BY <1>1, <2>2, <2>3 DEF Bytes
<1>5. DOMAIN pending = {}
  <2> SUFFICES ASSUME NEW i \in DOMAIN pending PROVE FALSE
    OBVIOUS
  <2>1. pending[i].start \in 0..Total /\ pending[i].start > head
    BY <1>3 DEF Range0
  <2> QED BY <1>1, <1>4, <2>1
<1>6. pending = << >>
  <2> HIDE DEF Range0
  <2> QED BY <1>1, <1>5
<1> QED BY <1>4, <1>6

LEMMA LReclaimFinish ==
    ASSUME LIInv, ReclaimFinish
    PROVE  LIInv'
<1> DEFINE r == queue[sweep][1]
<1>1. /\ hpc = "absorb" /\ hpc' = "reclaim" /\ AbsorbDone
      /\ done' = done + Head(queue[sweep]).len
      /\ loadComplete' = (loadComplete \/ done' >= Total)
      /\ queue' = [queue EXCEPT ![sweep] = Tail(@)]
      /\ requested' = requested /\ tail' = tail /\ ring' = ring
      /\ issued' = issued /\ want' = want /\ target' = target /\ sweep' = sweep
      /\ cpc' = cpc /\ pos' = pos /\ prevPos' = prevPos /\ lastPage' = lastPage /\ probe' = probe
  BY DEF ReclaimFinish, compVars
<1>2. /\ head' = head /\ pending' = pending /\ notified' = notified /\ fpc' = "idle"
  BY <1>1 DEF AbsorbDone
<1>3. /\ LTypeOK /\ FIInv /\ queue \in [1..Lists -> Seq(Chunk)] /\ sweep \in 1..Lists
      /\ 1 \in DOMAIN queue[sweep] /\ done \in Nat
  BY <1>1 DEF LIInv, LTypeOK, HandOver
<1>4. queue[sweep] # << >>
  BY <1>3
<1>5. /\ queue' \in [1..Lists -> Seq(Chunk)]
      /\ \A v \in 1..Lists : v # sweep => queue'[v] = queue[v]
      /\ \A j \in DOMAIN queue'[sweep] :
            j \in Nat /\ j + 1 \in DOMAIN queue[sweep] /\ j # 0 /\ queue'[sweep][j] = queue[sweep][j + 1]
      /\ Head(queue[sweep]) = r
  BY <1>1, <1>3, <1>4, QueuePop
<1>6. r.len \in Nat \ {0} /\ done' = done + r.len /\ done' \in Nat
  <2>1. r.len \in Nat \ {0}
    BY <1>3, ChunkType
  <2> HIDE DEF r
  <2>2. done' = done + r.len
    BY <1>1, <1>5
  <2> QED BY <1>3, <2>1, <2>2
<1> HIDE DEF r
<1> DEFINE Was(v, j) == IF v = sweep THEN j + 1 ELSE j
<1>7. ASSUME NEW v \in 1..Lists, NEW j \in DOMAIN queue'[v]
      PROVE  /\ Was(v, j) \in DOMAIN queue[v] /\ queue'[v][j] = queue[v][Was(v, j)]
             /\ ~Hot(v, Was(v, j)) /\ j \in Nat
  <2>1. CASE v = sweep
    BY <1>5, <2>1 DEF Hot
  <2>2. CASE v # sweep
    <3>1. queue'[v] = queue[v] /\ queue[v] \in Seq(Chunk)
      BY <1>3, <1>5, <2>2
    <3>2. j \in Nat
      <4> HIDE DEF Chunk
      <4> QED BY <3>1
    <3> QED BY <2>2, <3>1, <3>2 DEF Hot
  <2> QED BY <2>1, <2>2
<1>8. FIInv'
  BY <1>1, <1>3, AbsorbDoneKeeps
<1>9. LTypeOK'
  <2>1. loadComplete' \in BOOLEAN
    BY <1>1
  <2> HIDE DEF Chunk
  <2> QED BY <1>1, <1>3, <1>5, <1>6, <2>1 DEF LTypeOK
<1>10. QueueOK'
  <2> SUFFICES ASSUME NEW v \in 1..Lists, NEW j \in DOMAIN queue'[v]
               PROVE  ChunkIn(queue'[v][j], requested')
    BY DEF QueueOK, ChunkOK
  <2>1. Was(v, j) \in DOMAIN queue[v] /\ queue'[v][j] = queue[v][Was(v, j)]
    BY <1>7
  <2> HIDE DEF Was
  <2> QED BY <1>1, <2>1 DEF LIInv, QueueOK, ChunkOK
<1>11. Apart'
  <2> SUFFICES ASSUME NEW u \in 1..Lists, NEW v \in 1..Lists,
                      NEW k \in DOMAIN queue'[u], NEW j \in DOMAIN queue'[v],
                      <<u, k>> # <<v, j>>, NEW b \in BytesOf(queue'[u][k])
               PROVE  b \notin BytesOf(queue'[v][j])
    BY DEF Apart, BytesOf
  <2>1. Was(v, j) \in DOMAIN queue[v] /\ queue'[v][j] = queue[v][Was(v, j)] /\ j \in Nat
    BY <1>7
  <2>2. Was(u, k) \in DOMAIN queue[u] /\ queue'[u][k] = queue[u][Was(u, k)] /\ k \in Nat
    BY <1>7
  <2>3. <<u, Was(u, k)>> # <<v, Was(v, j)>>
    BY <2>1, <2>2
  <2> HIDE DEF Was
  <2> QED BY <2>1, <2>2, <2>3 DEF LIInv, Apart
<1>12. NotYet'
  <2> SUFFICES ASSUME NEW v \in 1..Lists, NEW j \in DOMAIN queue'[v], NEW b \in BytesOf(queue'[v][j])
               PROVE  b \notin notified
    BY <1>2 DEF NotYet, BytesOf
  <2>1. Was(v, j) \in DOMAIN queue[v] /\ queue'[v][j] = queue[v][Was(v, j)] /\ ~Hot(v, Was(v, j))
    BY <1>7
  <2> HIDE DEF Was
  <2> QED BY <2>1 DEF LIInv, NotYet
<1>13. Copied'
  <2> SUFFICES ASSUME NEW v \in 1..Lists, NEW j \in DOMAIN queue'[v],
                      queue'[v][j].status = "WAITING_TIME", NEW b \in BytesOf(queue'[v][j])
               PROVE  ring[Phys(b)] = b
    BY <1>1 DEF Copied, BytesOf
  <2>1. Was(v, j) \in DOMAIN queue[v] /\ queue'[v][j] = queue[v][Was(v, j)]
    BY <1>7
  <2> HIDE DEF Was
  <2> QED BY <2>1 DEF LIInv, Copied
<1>14. HandOver' /\ Batch'
  BY <1>1, <1>2 DEF HandOver, Batch
<1>15. Cardinality(notified) = done'
  BY <1>1, <1>6 DEF LIInv, Counted, r
<1>16. Counted'
  <2>1. done' = done' + 0
    BY <1>6
  <2> QED BY <1>1, <1>2, <1>15, <2>1 DEF Counted
<1>17. Published' /\ EndsCut' /\ WithinRing' /\ Window' /\ Program'
  BY <1>1, <1>2 DEF LIInv, Published, EndsCut, WithinRing, Window, Program, PagesIn
<1>18. CompleteMeansAll'
  <2>1. CASE loadComplete
    BY <1>2, <2>1 DEF LIInv, CompleteMeansAll
  <2>2. CASE done' >= Total
    <3>1. head = Total /\ pending = << >>
      BY <1>1, <1>3, <1>15, <2>2, AllPublished
    <3> QED BY <1>2, <3>1 DEF CompleteMeansAll
  <2> QED BY <1>1, <2>1, <2>2 DEF CompleteMeansAll
<1> QED BY <1>8, <1>9, <1>10, <1>11, <1>12, <1>13, <1>14, <1>16, <1>17, <1>18 DEF LIInv

----------------------------------------------------------------------------
(* The compute program *)

(* The page of a byte between two page ends. *)
LEMMA PageIs ==
    ASSUME NEW n \in Nat, NEW q \in Nat, q * PAGE <= n, n < q * PAGE + PAGE
    PROVE  n \div PAGE = q
<1> DEFINE r == n - q * PAGE
<1>1. q * PAGE \in Nat
  BY LConsts
<1>2. r \in 0..(PAGE - 1) /\ n = q * PAGE + r
  BY <1>1, LConsts
<1> HIDE DEF r
<1>3. (q * PAGE + r) \div PAGE = q
  BY <1>2, LConsts, ModOf
<1> QED BY <1>2, <1>3

LEMMA PageOf ==
    ASSUME NEW n \in Nat
    PROVE  /\ n \div PAGE \in Nat
           /\ (n \div PAGE) * PAGE <= n /\ n < (n \div PAGE) * PAGE + PAGE
  BY LConsts, DivFacts, AlignDownFacts

(* Rounded up to pages. *)
LEMMA PagesUp ==
    ASSUME NEW n \in Nat
    PROVE  /\ DivUp(n, PAGE) \in Nat /\ DivUp(n, PAGE) * PAGE \in Nat
           /\ n <= DivUp(n, PAGE) * PAGE
           /\ n % PAGE = 0 => DivUp(n, PAGE) * PAGE = n
<1> DEFINE m == DivUp(n, PAGE) * PAGE
           k == n + PAGE - 1
<1>1. m = ((n + PAGE - 1) \div PAGE) * PAGE
  BY DEF DivUp
<1>2. k \in Nat
  BY LConsts
<1>3. k \div PAGE \in Nat
  <2> HIDE DEF k
  <2> QED BY <1>2, LConsts, DivFacts
<1>4. DivUp(n, PAGE) \in Nat
  BY <1>3 DEF DivUp
<1> HIDE DEF m
<1>5. m \in Nat /\ n <= m /\ (n % PAGE = 0 => m = n)
  BY <1>1, LConsts, RoundUp
<1> QED BY <1>4, <1>5 DEF m

(* circular_buf_check_data_at: a page that lies below the frontier rounded *)
(* up is in to its last byte, since chunks end at pages.                   *)
LEMMA ReadyMeansIn ==
    ASSUME FIInv, EndsCut, NEW b \in Nat, PageReady(b)
    PROVE  PagesIn(b \div PAGE)
<1> DEFINE p == b \div PAGE
           d == DivUp(head, PAGE)
<1>1. head \in Nat /\ p \in Nat /\ p < d /\ CutAt(head)
  BY LConsts, PageOf DEF FIInv, FTypeOK, PageReady, EndsCut
<1>2. d \in Nat /\ d * PAGE \in Nat /\ (head % PAGE = 0 => d * PAGE = head)
  BY <1>1, PagesUp
<1> HIDE DEF p, d
<1>3. CASE head = Total
  BY <1>3, LConsts DEF PagesIn
<1>4. CASE head % PAGE = 0
  <2>1. (d - (p + 1)) * PAGE >= 0
    BY <1>1, <1>2, LConsts
  <2>2. (p + 1) * PAGE <= d * PAGE /\ (p + 1) * PAGE \in Nat
    BY <1>1, <1>2, <2>1, LConsts
  <2>3. (p + 1) * PAGE <= head
    BY <1>2, <1>4, <2>2
  <2> DEFINE e == (p + 1) * PAGE
  <2>4. e \in Nat /\ e <= head
    BY <2>2, <2>3
  <2> HIDE DEF e
  <2>5. \A x \in 0..(Total - 1) : x < e => x < head
    BY <1>1, <2>4, LConsts
  <2> QED BY <2>5 DEF PagesIn, e, p
<1> QED BY <1>1, <1>3, <1>4 DEF CutAt, p

LEMMA AllMeansIn ==
    ASSUME head = Total, NEW p
    PROVE  PagesIn(p)
  BY LConsts DEF PagesIn

(* The program passes a probe: the pages it reads next are in. *)
LEMMA LAfterProbe ==
    ASSUME LIInv, cpc \in {"probe", "spin"}, PagesIn(probe \div PAGE), AfterProbe,
           UNCHANGED <<fvars, taskVars, infoVars, queue, reqVars, helpVars>>
    PROVE  LIInv'
<1> DEFINE second == probe = 0 /\ Total > PAGE
<1>1. /\ probe' = IF second THEN PAGE ELSE probe
      /\ cpc' = IF second THEN "probe" ELSE "read"
      /\ pos' = pos /\ prevPos' = prevPos /\ lastPage' = lastPage
  BY DEF AfterProbe
<1>2. /\ UNCHANGED <<fvars, requested, done, loadComplete, ring, queue, helpVars>>
      /\ tail' = tail /\ head' = head
  BY DEF fvars, taskVars, infoVars
<1>3. /\ tail \in 0..Total /\ pos \in 0..Total /\ prevPos \in Nat /\ lastPage \in Nat /\ probe \in Nat
      /\ tail <= pos /\ pos <= head
  BY DEF LIInv, LTypeOK, WithinRing
<1>4. /\ pos < Total /\ lastPage = pos \div PAGE
      /\ \/ probe = 0 /\ pos = 0
         \/ probe \div PAGE = lastPage + 1
  BY DEF LIInv, Program
<1>5. 0 \div PAGE = 0 /\ PAGE \div PAGE = 1
  <2>1. 0 * PAGE <= 0 /\ 0 < 0 * PAGE + PAGE /\ 1 * PAGE <= PAGE /\ PAGE < 1 * PAGE + PAGE
    BY LConsts
  <2> QED BY <2>1, LConsts, PageIs
<1>6. probe = 0 => lastPage = 0
  BY <1>3, <1>4, <1>5
<1>7. probe' \in Nat /\ cpc' \in {"probe", "spin", "read", "done"}
  BY <1>1, <1>3, LConsts
<1>8. Program'
  <2>1. CASE second
    <3>1. probe' \div PAGE = lastPage' + 1
      BY <1>1, <1>5, <1>6, <2>1
    <3> QED BY <1>1, <1>4, <2>1, <3>1 DEF Program
  <2>2. CASE ~second
    <3>1. PagesIn(lastPage + 1)
      <4>1. CASE probe \div PAGE = lastPage + 1
        BY <4>1
      <4>2. CASE probe = 0
        <5>1. Total <= PAGE
          BY <2>2, <4>2, LConsts
        <5>2. \A b \in 0..(Total - 1) : b < (0 + 1) * PAGE
          BY <5>1, LConsts
        <5>3. PagesIn(0)
          BY <1>5, <4>2
        <5> QED BY <1>6, <4>2, <5>2, <5>3 DEF PagesIn
      <4> QED BY <1>4, <4>1, <4>2
    <3>2. PagesIn(lastPage + 1)'
      BY <1>1, <1>2, <3>1 DEF PagesIn
    <3> QED BY <1>1, <1>4, <2>2, <3>2 DEF Program
  <2> QED BY <2>1, <2>2
<1>9. tail <= tail' /\ tail' <= pos' /\ pos' <= head
  BY <1>1, <1>2, <1>3, LConsts
<1> QED BY <1>1, <1>2, <1>3, <1>7, <1>8, <1>9, CQuiet

LEMMA LProbes ==
    ASSUME LIInv, ProbeHit \/ SpinEnd
    PROVE  LIInv'
<1>1. /\ cpc \in {"probe", "spin"} /\ AfterProbe /\ (loadComplete \/ PageReady(probe))
      /\ UNCHANGED <<fvars, taskVars, infoVars, queue, reqVars, helpVars>>
  BY DEF ProbeHit, SpinEnd
<1>2. probe \in Nat /\ FIInv /\ EndsCut
  BY DEF LIInv, LTypeOK
<1>3. PagesIn(probe \div PAGE)
  <2>1. CASE loadComplete
    <3>1. head = Total
      BY <2>1 DEF LIInv, CompleteMeansAll
    <3> QED BY <3>1, AllMeansIn
  <2>2. CASE PageReady(probe)
    BY <1>2, <2>2, ReadyMeansIn
  <2> QED BY <1>1, <2>1, <2>2
<1> QED BY <1>1, <1>3, LAfterProbe

LEMMA LProbeMiss ==
    ASSUME LIInv, ProbeMiss
    PROVE  LIInv'
<1>1. /\ cpc = "probe" /\ cpc' = "spin" /\ tail' = tail /\ pos' = pos /\ prevPos' = prevPos
      /\ lastPage' = lastPage /\ probe' = probe /\ head' = head
      /\ UNCHANGED <<fvars, requested, done, loadComplete, ring, queue, helpVars>>
  BY DEF ProbeMiss, fvars, taskVars
<1>2. /\ tail \in 0..Total /\ pos \in 0..Total /\ prevPos \in Nat /\ lastPage \in Nat /\ probe \in Nat
      /\ tail <= pos /\ pos <= head
  BY DEF LIInv, LTypeOK, WithinRing
<1>3. Program'
  BY <1>1 DEF LIInv, Program
<1>4. tail <= tail' /\ tail' <= pos' /\ pos' <= head
  BY <1>1, <1>2, LConsts
<1> QED BY <1>1, <1>2, <1>3, <1>4, CQuiet

(* The bytes of the entry that is read next are published. *)
LEMMA EntryIn ==
    ASSUME LIInv, cpc = "read", NEW n \in EntrySizes, pos + n <= FileEnd(pos)
    PROVE  /\ n \in 1..PAGE /\ pos \in Nat /\ pos + n <= Total /\ pos + n <= head
           /\ lastPage \in Nat /\ pos < Total /\ lastPage = pos \div PAGE /\ PagesIn(lastPage + 1)
<1>1. n \in 1..PAGE /\ pos \in Nat /\ lastPage \in Nat /\ head \in Nat
  BY LConsts DEF LIInv, LTypeOK, FIInv, FTypeOK
<1>2. pos < Total /\ lastPage = pos \div PAGE /\ PagesIn(lastPage + 1)
  BY DEF LIInv, Program
<1>3. FileEnd(pos) \in Nat /\ FileEnd(pos) <= Total
  BY <1>1, <1>2, RangeFacts
<1>4. pos + n <= Total
  BY <1>1, <1>3, LConsts
<1>5. pos < lastPage * PAGE + PAGE
  BY <1>1, <1>2, PageOf
<1>6. ((lastPage + 1) + 1) * PAGE = lastPage * PAGE + PAGE + PAGE /\ lastPage * PAGE \in Nat
  BY <1>1, LConsts
<1> DEFINE x == pos + n - 1
           e == ((lastPage + 1) + 1) * PAGE
<1>7. x \in 0..(Total - 1) /\ x < e
  BY <1>1, <1>4, <1>5, <1>6, LConsts
<1> HIDE DEF x
<1>8. x < head
  BY <1>2, <1>7 DEF PagesIn
<1>9. pos + n <= head
  BY <1>1, <1>7, <1>8 DEF x
<1> QED BY <1>1, <1>2, <1>4, <1>9

LEMMA LReadEntry ==
    ASSUME LIInv, NEW n \in EntrySizes, ReadEntry(n)
    PROVE  LIInv'
<1> DEFINE np == pos + n
           ahead == /\ np < Total /\ np \div PAGE # lastPage
                    /\ lastPage + 1 < DivUp(Total, PAGE)
<1>1. /\ cpc = "read" /\ np <= FileEnd(pos) /\ pos' = np /\ Progress(np)
      /\ probe' = IF ahead THEN NextProbe(np) ELSE probe
      /\ lastPage' = IF ahead THEN np \div PAGE ELSE lastPage
      /\ cpc' = IF np = Total THEN "done" ELSE IF ahead THEN "probe" ELSE "read"
      /\ head' = head
      /\ UNCHANGED <<fvars, requested, done, loadComplete, ring, queue, helpVars>>
  BY DEF ReadEntry, fvars, taskVars
<1>2. /\ n \in 1..PAGE /\ pos \in Nat /\ np <= Total /\ np <= head
      /\ lastPage \in Nat /\ pos < Total /\ lastPage = pos \div PAGE /\ PagesIn(lastPage + 1)
  BY <1>1, EntryIn
<1>3. /\ tail \in Nat /\ tail <= pos /\ tail <= Total /\ prevPos \in Nat /\ probe \in Nat
  BY LConsts DEF LIInv, LTypeOK, WithinRing
<1>4. np \in Nat /\ pos <= np
  BY <1>2, LConsts
<1> HIDE DEF np
<1>5. np \div PAGE \in Nat /\ (np \div PAGE) * PAGE <= np /\ np < (np \div PAGE) * PAGE + PAGE
  BY <1>4, PageOf
<1>6. tail' \in Nat /\ tail <= tail' /\ tail' <= np /\ prevPos' \in Nat
  <2>1. (tail' = tail /\ prevPos' = prevPos) \/ (tail' = Greater(tail, np) /\ prevPos' = np)
    BY <1>1 DEF Progress
  <2>2. Greater(tail, np) \in Nat /\ tail <= Greater(tail, np) /\ Greater(tail, np) <= np
    BY <1>3, <1>4, <1>2 DEF Greater
  <2>3. tail <= tail /\ tail <= np
    BY <1>3, <1>4, <1>2
  <2> QED BY <1>3, <1>4, <2>1, <2>2, <2>3
<1>7. tail' \in 0..Total /\ tail' <= pos' /\ pos' \in 0..Total /\ pos' <= head
  <2>1. \A t \in Nat : t <= np => t \in 0..Total
    BY <1>2, <1>4, LConsts
  <2> QED BY <1>1, <1>2, <1>4, <1>6, <2>1, LConsts
<1>8. lastPage' \in Nat /\ probe' \in Nat /\ cpc' \in {"probe", "spin", "read", "done"}
  <2>1. NextProbe(np) \in Nat
    BY <1>4, LConsts DEF NextProbe
  <2> QED BY <1>1, <1>2, <1>3, <1>5, <2>1
<1>9. Program'
  <2>1. CASE np = Total
    BY <1>1, <2>1 DEF Program
  <2>2. CASE np # Total /\ ahead
    <3> DEFINE q == np \div PAGE
               k == NextProbe(np)
    <3>1. q \in Nat /\ q * PAGE <= np /\ np < q * PAGE + PAGE /\ k = np + PAGE
      BY <1>5 DEF NextProbe
    <3> HIDE DEF q, k
    <3>2. (q + 1) * PAGE = q * PAGE + PAGE /\ q * PAGE \in Nat
      BY <3>1, LConsts
    <3>3. k \in Nat /\ q + 1 \in Nat /\ (q + 1) * PAGE <= k /\ k < (q + 1) * PAGE + PAGE
      BY <1>4, <3>1, <3>2, LConsts
    <3>4. k \div PAGE = q + 1
      BY <3>3, PageIs
    <3>5. probe' = k /\ lastPage' = q /\ cpc' = "probe" /\ pos' = np
      BY <1>1, <2>2 DEF k, q
    <3>6. pos' < Total /\ lastPage' = pos' \div PAGE /\ probe' \div PAGE = lastPage' + 1
      BY <2>2, <3>4, <3>5 DEF q
    <3> QED BY <3>5, <3>6 DEF Program
  <2>3. CASE np # Total /\ ~ahead
    <3>1. np < Total
      BY <1>2, <1>4, <2>3, LConsts
    <3>2. np \div PAGE = lastPage
      <4> SUFFICES ASSUME ~(lastPage + 1 < DivUp(Total, PAGE)) PROVE np \div PAGE = lastPage
        BY <2>3, <3>1
      <4> DEFINE d == DivUp(Total, PAGE)
      <4>1. d \in Nat /\ Total <= d * PAGE
        BY LConsts, PagesUp
      <4>2. d <= lastPage + 1
        BY <1>2, <4>1
      <4> HIDE DEF d
      <4>3. ((lastPage + 1) - d) * PAGE >= 0
        BY <1>2, <4>1, <4>2, LConsts
      <4>4. d * PAGE <= lastPage * PAGE + PAGE /\ lastPage * PAGE \in Nat /\ d * PAGE \in Nat
        BY <1>2, <4>1, <4>3, LConsts
      <4>5. lastPage * PAGE <= pos
        BY <1>2, PageOf
      <4>6. lastPage * PAGE <= np /\ np < lastPage * PAGE + PAGE
        BY <1>2, <1>4, <3>1, <4>1, <4>4, <4>5, LConsts
      <4> QED BY <1>2, <1>4, <4>6, PageIs
    <3>3. cpc' = "read" /\ pos' = np /\ lastPage' = lastPage
      BY <1>1, <2>3
    <3>4. PagesIn(lastPage + 1)'
      BY <1>1, <1>2, <3>3 DEF PagesIn
    <3> QED BY <3>1, <3>2, <3>3, <3>4 DEF Program
  <2> QED BY <2>1, <2>2, <2>3
<1> QED BY <1>1, <1>6, <1>7, <1>8, <1>9, CQuiet

----------------------------------------------------------------------------
(* Every step of the load keeps the invariant. *)
LEMMA LStep ==
    ASSUME LIInv, [Next]_vars
    PROVE  LIInv'
<1>1. CASE UNCHANGED vars
  <2>1. /\ UNCHANGED <<fvars, requested, done, loadComplete, ring, queue, helpVars>>
        /\ tail' = tail /\ pos' = pos /\ prevPos' = prevPos /\ lastPage' = lastPage
        /\ probe' = probe /\ cpc' = cpc /\ head' = head
    BY <1>1 DEF vars, fvars, taskVars, infoVars, compVars
  <2>2. /\ tail \in 0..Total /\ pos \in 0..Total /\ prevPos \in Nat /\ lastPage \in Nat /\ probe \in Nat
        /\ tail <= pos /\ pos <= head /\ cpc \in {"probe", "spin", "read", "done"}
    BY DEF LIInv, LTypeOK, WithinRing
  <2>3. Program'
    BY <2>1 DEF LIInv, Program, PagesIn
  <2>4. tail <= tail' /\ tail' <= pos' /\ pos' <= head
    BY <2>1, <2>2, LConsts
  <2> QED BY <2>1, <2>2, <2>3, <2>4, CQuiet
<1>2. CASE Helper
  BY <1>2, LStartBatch, LQuietSteps, LIssueChunk, LReclaim, LReclaimAbsorb, LReclaimFinish DEF Helper
<1>3. CASE \E w \in 1..Lists : Copy(w)
  BY <1>3, LCopy
<1>4. CASE Compute
  BY <1>4, LProbes, LProbeMiss, LReadEntry DEF Compute
<1> QED BY <1>1, <1>2, <1>3, <1>4 DEF Next

(* The inductive invariant of the load holds in every state of every       *)
(* execution, whatever the sizes, the extents of the files and the order   *)
(* in which the lists complete.                                            *)
THEOREM LIInvAlways == Spec => []LIInv
BY LInit, LStep, PTL DEF Spec

(* load_complete is only ever set when the whole stream is published.      *)
THEOREM CompleteAlwaysMeansAll == Spec => []CompleteMeansAll
<1>1. LIInv => CompleteMeansAll
  BY DEF LIInv
<1> QED BY <1>1, LIInvAlways, PTL

(* In the running load, ht_head and ht_pending lose, invent and hide       *)
(* nothing of what __reclaim_io_req hands over.                            *)
THEOREM FrontierAlwaysSound == Spec => []FrontierSound
<1>1. ASSUME LIInv PROVE FrontierSound
  <2>1. FIInv
    BY <1>1 DEF LIInv
  <2> QED BY <2>1, CoversPointwise, ExactPointwise DEF FrontierSound, FIInv
<1> QED BY <1>1, LIInvAlways, PTL

(* An entry the program is about to decode lies in the ring byte by byte,  *)
(* also where it continues behind the ring end.                            *)
THEOREM ReadsAlwaysInPlace == Spec => []ReadsInPlace
<1>1. ASSUME LIInv PROVE ReadsInPlace
  <2> SUFFICES ASSUME cpc = "read", NEW n \in EntrySizes, pos + n <= FileEnd(pos),
                      NEW b \in pos..(pos + n - 1)
               PROVE  ring[ReadFrom(pos, b)] = b
    BY DEF ReadsInPlace
  <2>1. n \in 1..PAGE /\ pos \in Nat /\ pos + n <= Total /\ pos + n <= head
    BY <1>1, EntryIn
  <2>2. head \in Nat /\ tail \in Nat /\ requested \in Nat /\ tail <= pos /\ requested <= tail + RING
    BY <1>1, LConsts DEF LIInv, LTypeOK, WithinRing, FIInv, FTypeOK
  <2> DEFINE d == b - pos
  <2>3. d \in Nat /\ b = pos + d /\ d < PAGE /\ b \in Nat /\ b \in 0..(head - 1) /\ b >= requested - RING
    BY <2>1, <2>2, LConsts
  <2>4. b \in notified
    BY <1>1, <2>3 DEF LIInv, Published
  <2>5. ring[Phys(b)] = b /\ (Phys(b) < GHOST => ring[RING + Phys(b)] = b)
    BY <1>1, <2>3, <2>4 DEF LIInv, Window
  <2>6. Phys(pos) \in Nat /\ Phys(pos) < RING
    BY <2>1, LPhys
  <2>7. ReadFrom(pos, b) = Phys(pos) + d
    BY DEF ReadFrom
  <2> HIDE DEF d
  <2>8. CASE Phys(pos) + d < RING
    <3>1. (pos % RING) + d < RING
      BY <2>8 DEF Phys
    <3>2. (pos + d) % RING = (pos % RING) + d
      BY <2>1, <2>3, <3>1, LConsts, ModStep
    <3>3. Phys(b) = Phys(pos) + d
      BY <2>3, <3>2 DEF Phys
    <3> QED BY <2>5, <2>7, <3>3
  <2>9. CASE Phys(pos) + d >= RING
    <3>0. Phys(pos) + d < RING + RING
      BY <2>3, <2>6, LConsts
    <3>1. (pos % RING) + d >= RING /\ (pos % RING) + d < RING + RING
      BY <2>9, <3>0 DEF Phys
    <3>2. (pos + d) % RING = (pos % RING) + d - RING
      BY <2>1, <2>3, <3>1, LConsts, ModWrap
    <3>3. Phys(b) = Phys(pos) + d - RING
      BY <2>3, <3>2 DEF Phys
    <3>4. Phys(b) < GHOST /\ RING + Phys(b) = Phys(pos) + d
      BY <2>3, <2>6, <3>3, LConsts
    <3> QED BY <2>5, <2>7, <3>4
  <2> QED BY <2>3, <2>6, <2>8, <2>9, LConsts
<1> QED BY <1>1, LIInvAlways, PTL

=============================================================================
