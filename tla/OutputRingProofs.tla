-------------------------- MODULE OutputRingProofs --------------------------
(***************************************************************************)
(* Circular output rings, for every ring, page, grain and ghost size and   *)
(* every stream.  First what the writer keeps, whoever reads: RingInv is   *)
(* preserved by each call of the circular_output_* routines, and a reader  *)
(* that stays between the consumed frontier and what is written finds      *)
(* every byte in place (WindowRead).  Then the two readers: HostReadout,   *)
(* where the invariant adds the order of the four offsets and what is      *)
(* known at each step of a read, and CrcStage, where it adds that nothing  *)
(* beyond the reader's position is reported, where a position lies within  *)
(* its SSTable and data block, and how far the availability check before   *)
(* each step has looked ahead.  Last the way of a host read's bytes into   *)
(* host memory: what a walk over PRPs has stored after each round          *)
(* (WalkOf), and what the DMA path has moved after each transfer (DmaOf).  *)
(***************************************************************************)
EXTENDS CrcStage, HostTransfer, NumberFacts, SequenceTheorems

(* The last RING bytes written are in place, those in the first GHOST      *)
(* bytes of the ring also behind its end.                                  *)
WindowHolds ==
    \A b \in 0..(written - 1) :
        b >= written - RING /\ b \notin Padding =>
            /\ ring[Phys(b)] = b
            /\ Phys(b) < GHOST => ring[RING + Phys(b)] = b

(* What is known at each store of circular_output_finalize. *)
WriterPhase ==
    /\ wpc # "write" => written = OutTotal
    /\ wpc \notin {"write", "head"} => head = OutTotal
    /\ outTotal # 0 => outTotal = OutTotal /\ wpc \in {"complete", "logical", "end"}
    /\ loadComplete => wpc \in {"logical", "end"}

(* Until then only whole grains are published. *)
HeadAligned == wpc \in {"write", "head"} => head % PAGE = 0

(* The writer stays within one ring of what the reader has reported. *)
WriterWithin == head <= written /\ written <= tail + RING

RingInv == RingTypeOK /\ WriterWithin /\ WriterPhase /\ HeadAligned /\ WindowHolds

(* What a step of the writer does to the fields a reader looks at. *)
WriterMoves ==
    /\ tail' = tail /\ head <= head' /\ written <= written'
    /\ loadComplete => loadComplete'
    /\ outTotal # 0 => outTotal' = outTotal

----------------------------------------------------------------------------
(* The constants, one by one. *)
LEMMA ConstTypes ==
    /\ PAGE \in Nat \ {0} /\ GRAIN \in Nat \ {0} /\ RING \in Nat \ {0}
    /\ GHOST \in Nat \ {0} /\ OutTotal \in Nat \ {0} /\ InTotal \in Nat \ {0}
    /\ SstSize \in Nat \ {0}
    /\ OutTotal <= InTotal /\ GHOST <= RING
    /\ WriteSizes \subseteq 1..RING
    /\ PAGE <= GHOST
  BY RingAssumption

LEMMA PhysRange ==
    ASSUME NEW b \in Nat
    PROVE  Phys(b) \in Nat /\ Phys(b) < RING
  BY ConstTypes, DivFacts DEF Phys

(* circular_output_wait_for_space leaves the write within one ring of the  *)
(* consumed frontier.                                                      *)
LEMMA SpaceBound ==
    ASSUME written \in Nat, tail \in Nat, NEW n \in Nat \ {0}, SpaceFor(n)
    PROVE  written + n <= tail + RING
<1> DEFINE w == written + n - 1
<1>1. w \in Nat
  OBVIOUS
<1>2. (w \div PAGE) * PAGE \in Nat /\ w < (w \div PAGE) * PAGE + PAGE
  BY <1>1, ConstTypes, AlignDownFacts
<1>3. (w \div PAGE) * PAGE + PAGE <= tail + RING
  BY DEF SpaceFor, AlignDown
<1> HIDE DEF w
<1>4. w < tail + RING
  BY <1>1, <1>2, <1>3, ConstTypes
<1> QED BY <1>4, ConstTypes DEF w

(* notify_circular_output_produced never publishes more than was written,  *)
(* nor takes anything back.                                                *)
LEMMA PublishedBound ==
    ASSUME head \in Nat, NEW w \in Nat, head <= w
    PROVE  Published(w) \in Nat /\ head <= Published(w) /\ Published(w) <= w
<1>1. AlignDown(w, GRAIN) \in Nat /\ AlignDown(w, GRAIN) <= w
  BY ConstTypes, AlignDownFacts DEF AlignDown
<1> QED BY <1>1 DEF Published, Greater

(* What one location holds after a write: the new byte if the location     *)
(* belongs to one, and the old contents if it belongs to a byte of the     *)
(* window that stays.                                                      *)
LEMMA WriteAt ==
    ASSUME written \in Nat, NEW n \in 1..RING,
           NEW p \in DOMAIN ring, NEW b \in Nat,
           Phys(b) = (IF p < RING THEN p ELSE p - RING),
           b >= written + n - RING, b < written + n
    PROVE  WithWrite(n)[p] = IF b >= written THEN b ELSE ring[p]
<1> DEFINE new == written..(written + n - 1)
           loc == IF p < RING THEN p ELSE p - RING
<1>1. WithWrite(n)[p] = IF \E c \in new : Phys(c) = loc
                        THEN CHOOSE c \in new : Phys(c) = loc
                        ELSE ring[p]
  BY DEF WithWrite
<1>2. ASSUME NEW c \in new, Phys(c) = loc
      PROVE  c = b
  <2>1. c \in Nat /\ c < b + RING /\ b < c + RING
    BY ConstTypes
  <2>2. c % RING = b % RING
    BY <1>2 DEF Phys
  <2> QED BY <2>1, <2>2, ConstTypes, ModUnique
<1>3. CASE b >= written
  <2>1. b \in new /\ Phys(b) = loc
    BY <1>3, ConstTypes
  <2> HIDE DEF new, loc
  <2>2. (CHOOSE c \in new : Phys(c) = loc) = b
    BY <1>2, <2>1
  <2> QED BY <1>1, <1>3, <2>1, <2>2
<1>4. CASE b < written
  <2>1. ~ \E c \in new : Phys(c) = loc
    BY <1>2, <1>4
  <2> QED BY <1>1, <1>4, <2>1
<1> QED BY <1>3, <1>4

(* A write keeps the type of the memory. *)
LEMMA WriteType ==
    ASSUME written \in Nat, NEW n \in Nat \ {0}, written + n <= OutTotal,
           ring \in [0..(RING + GHOST - 1) -> -1..(OutTotal - 1)]
    PROVE  WithWrite(n) \in [0..(RING + GHOST - 1) -> -1..(OutTotal - 1)]
<1> DEFINE new == written..(written + n - 1)
           loc(p) == IF p < RING THEN p ELSE p - RING
           val(p) == IF \E b \in new : Phys(b) = loc(p)
                     THEN CHOOSE b \in new : Phys(b) = loc(p)
                     ELSE ring[p]
<1>1. WithWrite(n) = [p \in DOMAIN ring |-> val(p)]
  BY DEF WithWrite
<1>2. new \subseteq -1..(OutTotal - 1)
  BY ConstTypes
<1>3. ASSUME NEW p \in DOMAIN ring
      PROVE  val(p) \in -1..(OutTotal - 1)
  <2>1. CASE \E b \in new : Phys(b) = loc(p)
    <3> HIDE DEF new, loc
    <3>1. (CHOOSE b \in new : Phys(b) = loc(p)) \in new
      BY <2>1
    <3> QED BY <2>1, <3>1, <1>2
  <2>2. CASE ~ \E b \in new : Phys(b) = loc(p)
    BY <2>2
  <2> QED BY <2>1, <2>2
<1> HIDE DEF val
<1> QED BY <1>1, <1>3

(* A write keeps the window: old bytes that stay in it are not touched,    *)
(* new bytes are at their place.                                           *)
LEMMA WriteWindow ==
    ASSUME RingTypeOK, WindowHolds, NEW n \in 1..RING,
           written' = written + n, ring' = WithWrite(n)
    PROVE  WindowHolds'
<1> SUFFICES ASSUME NEW b \in 0..(written' - 1), b >= written' - RING, b \notin Padding
             PROVE  /\ ring'[Phys(b)] = b
                    /\ Phys(b) < GHOST => ring'[RING + Phys(b)] = b
  BY DEF WindowHolds, Phys, Padding, SstEnd
<1>1. written \in Nat /\ b \in Nat /\ DOMAIN ring = 0..(RING + GHOST - 1)
  BY ConstTypes DEF RingTypeOK
<1>2. b >= written + n - RING /\ b < written + n
  BY <1>1, ConstTypes
<1>3. Phys(b) \in Nat /\ Phys(b) < RING
  BY <1>1, PhysRange
<1>4. ring'[Phys(b)] = IF b >= written THEN b ELSE ring[Phys(b)]
  BY <1>1, <1>2, <1>3, ConstTypes, WriteAt
<1>5. ASSUME Phys(b) < GHOST
      PROVE  ring'[RING + Phys(b)] = IF b >= written THEN b ELSE ring[RING + Phys(b)]
  <2> DEFINE p == RING + Phys(b)
  <2>1. p \in DOMAIN ring /\ Phys(b) = (IF p < RING THEN p ELSE p - RING)
    BY <1>1, <1>3, <1>5, ConstTypes
  <2> HIDE DEF p
  <2>2. ring'[p] = IF b >= written THEN b ELSE ring[p]
    BY <1>1, <1>2, <2>1, WriteAt
  <2> QED BY <2>2 DEF p
<1>6. CASE b >= written
  BY <1>4, <1>5, <1>6
<1>7. CASE b < written
  <2>1. b \in 0..(written - 1) /\ b >= written - RING
    BY <1>1, <1>2, <1>7, ConstTypes
  <2>2. /\ ring[Phys(b)] = b
        /\ Phys(b) < GHOST => ring[RING + Phys(b)] = b
    BY <2>1 DEF WindowHolds
  <2> QED BY <1>1, <1>4, <1>5, <1>7, <2>2
<1> QED BY <1>1, <1>6, <1>7

(* The padding behind a full SSTable. *)
LEMMA PadFacts ==
    ASSUME NEW p \in PadAt
    PROVE  /\ p \in Nat /\ SstEnd(p) \in Nat
           /\ p < SstEnd(p) /\ SstEnd(p) <= OutTotal
           /\ p..(SstEnd(p) - 1) \subseteq Padding
<1>1. p \in Nat /\ SstEnd(p) <= OutTotal
  BY RingAssumption
<1>2. (p \div SstSize) * SstSize \in Nat /\ p < (p \div SstSize) * SstSize + SstSize
  BY <1>1, ConstTypes, AlignDownFacts
<1>3. p \div SstSize \in Nat
  BY <1>1, ConstTypes, DivFacts
<1>4. SstEnd(p) = (p \div SstSize) * SstSize + SstSize
  BY <1>3, ConstTypes DEF SstEnd
<1>5. SstEnd(p) \in Nat /\ p < SstEnd(p)
  BY <1>2, <1>4, ConstTypes
<1>6. p..(SstEnd(p) - 1) \subseteq Padding
  BY DEF Padding
<1> QED BY <1>1, <1>5, <1>6

(* WindowHolds only looks at the stream position and the memory. *)
LEMMA WindowUnchanged ==
    ASSUME WindowHolds, UNCHANGED <<written, ring>>
    PROVE  WindowHolds'
  BY DEF WindowHolds, Phys

(* Whole grains are whole pages. *)
LEMMA PublishedAligned ==
    ASSUME head \in Nat, head % PAGE = 0, NEW w \in Nat
    PROVE  Published(w) % PAGE = 0
<1>0. PAGE \in Nat \ {0} /\ GRAIN \in Nat \ {0} /\ GRAIN % PAGE = 0
  BY ConstTypes, RingAssumption
<1>1. PICK g \in Nat : GRAIN = g * PAGE
  BY <1>0, MultipleOf
<1> DEFINE q == w \div GRAIN
           n == q * GRAIN
<1>2. q \in Nat
  BY <1>0, DivFacts
<1> HIDE DEF q
<1>3. q * g \in Nat /\ n \in Nat /\ n = (q * g) * PAGE
  BY <1>0, <1>1, <1>2
<1>4. n = AlignDown(w, GRAIN)
  BY DEF n, q, AlignDown
<1> HIDE DEF n
<1>5. n % PAGE = 0
  BY <1>0, <1>3, MultipleOf
<1> QED BY <1>4, <1>5 DEF Published, Greater

----------------------------------------------------------------------------
(* The ring before the first write. *)
LEMMA RingStart == RingInit => RingInv
<1> SUFFICES ASSUME RingInit PROVE RingInv
  OBVIOUS
<1> USE ConstTypes DEF RingInit
<1>1. RingTypeOK
  <2>1. ring \in [0..(RING + GHOST - 1) -> -1..(OutTotal - 1)]
    OBVIOUS
  <2>2. head \in 0..OutTotal /\ tail \in 0..(InTotal + PAGE) /\ written \in head..OutTotal
    OBVIOUS
  <2> QED BY <2>1, <2>2 DEF RingTypeOK
<1>2. WriterWithin /\ WriterPhase
  BY DEF WriterWithin, WriterPhase
<1>3. HeadAligned
  BY DEF HeadAligned
<1>4. WindowHolds
  BY DEF WindowHolds
<1> QED BY <1>1, <1>2, <1>3, <1>4 DEF RingInv

(* circular_output_set_data. *)
LEMMA WriteDataKeeps ==
    ASSUME RingInv, NEW n \in WriteSizes, WriteData(n)
    PROVE  RingInv' /\ WriterMoves
<1>1. /\ n \in 1..RING /\ n \in Nat \ {0}
      /\ written \in Nat /\ tail \in Nat /\ head \in Nat /\ head <= written
      /\ written + n <= OutTotal /\ written + n \in Nat
  BY ConstTypes DEF RingInv, RingTypeOK, WriteData
<1>2. written + n <= tail + RING
  BY <1>1, SpaceBound DEF WriteData
<1>3. /\ written' = written + n /\ ring' = WithWrite(n)
      /\ head' = Published(written') /\ wpc = "write"
      /\ UNCHANGED <<tail, producerDone, outTotal, loadComplete, logicalTotal, wpc>>
  BY DEF WriteData
<1>4. head' \in Nat /\ head <= head' /\ head' <= written'
  BY <1>1, <1>3, PublishedBound
<1>5. RingTypeOK'
  <2>1. ring' \in [0..(RING + GHOST - 1) -> -1..(OutTotal - 1)]
    BY <1>1, <1>3, WriteType DEF RingInv, RingTypeOK
  <2> QED BY <1>1, <1>3, <1>4, <2>1, ConstTypes DEF RingInv, RingTypeOK
<1>6. WriterWithin'
  BY <1>1, <1>2, <1>3, <1>4 DEF WriterWithin
<1>7. WriterPhase'
  BY <1>3 DEF RingInv, WriterPhase
<1>8. HeadAligned'
  <2>1. head % PAGE = 0
    BY <1>3 DEF RingInv, HeadAligned
  <2>2. written' \in Nat
    BY <1>1, <1>3
  <2>3. head' % PAGE = 0
    BY <1>1, <1>3, <2>1, <2>2, PublishedAligned
  <2> QED BY <2>3 DEF HeadAligned
<1>9. WindowHolds'
  BY <1>1, <1>3, WriteWindow DEF RingInv
<1>10. WriterMoves
  BY <1>1, <1>3, <1>4 DEF WriterMoves
<1> QED BY <1>5, <1>6, <1>7, <1>8, <1>9, <1>10 DEF RingInv

(* circular_output_notify_range: what enters the window is padding. *)
LEMMA NotifyRangeKeeps ==
    ASSUME RingInv, NotifyRange
    PROVE  RingInv' /\ WriterMoves
<1> DEFINE n == SstEnd(written) - written
<1>1. /\ written \in Nat /\ tail \in Nat /\ head \in Nat /\ head <= written
      /\ SstEnd(written) \in Nat /\ n \in Nat \ {0} /\ written + n = SstEnd(written)
      /\ SstEnd(written) <= OutTotal
      /\ written..(SstEnd(written) - 1) \subseteq Padding
  <2>1. written \in Nat /\ tail \in Nat /\ head \in Nat /\ head <= written
    BY ConstTypes DEF RingInv, RingTypeOK
  <2>2. written \in PadAt
    BY DEF NotifyRange
  <2>3. /\ SstEnd(written) \in Nat /\ written < SstEnd(written)
        /\ SstEnd(written) <= OutTotal
        /\ written..(SstEnd(written) - 1) \subseteq Padding
    BY <2>2, PadFacts
  <2> QED BY <2>1, <2>3
<1>2. SpaceFor(n)
  BY DEF NotifyRange
<1>3. /\ written' = SstEnd(written)
      /\ head' = Published(written') /\ wpc = "write"
      /\ UNCHANGED <<tail, producerDone, outTotal, loadComplete, logicalTotal, ring, wpc>>
  BY DEF NotifyRange
<1> HIDE DEF n
<1>4. written' <= tail + RING
  BY <1>1, <1>2, <1>3, SpaceBound
<1>5. head' \in Nat /\ head <= head' /\ head' <= written' /\ written < written'
  <2>1. written < written' /\ head <= written' /\ written' \in Nat
    BY <1>1, <1>3
  <2> QED BY <1>1, <1>3, <2>1, PublishedBound
<1>6. RingTypeOK'
  BY <1>1, <1>3, <1>5, ConstTypes DEF RingInv, RingTypeOK
<1>7. WriterWithin'
  BY <1>1, <1>3, <1>4, <1>5 DEF WriterWithin
<1>8. WriterPhase'
  BY <1>3 DEF RingInv, WriterPhase
<1>9. HeadAligned'
  <2>1. head % PAGE = 0
    BY <1>3 DEF RingInv, HeadAligned
  <2>2. written' \in Nat
    BY <1>1, <1>3
  <2>3. head' % PAGE = 0
    BY <1>1, <1>3, <2>1, <2>2, PublishedAligned
  <2> QED BY <2>3 DEF HeadAligned
<1>10. WindowHolds'
  <2> SUFFICES ASSUME NEW b \in 0..(written' - 1), b >= written' - RING, b \notin Padding
               PROVE  /\ ring[Phys(b)] = b
                      /\ Phys(b) < GHOST => ring[RING + Phys(b)] = b
    BY <1>3 DEF WindowHolds, Phys, Padding, SstEnd
  <2>1. b \in 0..(written - 1) /\ b >= written - RING
    BY <1>1, <1>3, <1>5, ConstTypes
  <2> QED BY <2>1 DEF RingInv, WindowHolds
<1>11. WriterMoves
  BY <1>1, <1>3, <1>5 DEF WriterMoves
<1> QED BY <1>6, <1>7, <1>8, <1>9, <1>10, <1>11 DEF RingInv

(* circular_output_finalize: no store of it touches the data. *)
LEMMA FinalizeKeeps ==
    ASSUME RingInv,
           \/ FinalizeBegin \/ FinalizeHead \/ FinalizeDone
           \/ FinalizeTotal \/ FinalizeComplete \/ FinalizeLogical
    PROVE  RingInv' /\ WriterMoves
<1> USE ConstTypes
        DEF RingInv, FinalizeBegin, FinalizeHead, FinalizeDone, FinalizeTotal,
            FinalizeComplete, FinalizeLogical, ringVars
<1>1. UNCHANGED <<written, ring, tail>>
  OBVIOUS
<1>2. RingTypeOK'
  <2>1. head' \in head..OutTotal /\ written' \in head'..OutTotal
    BY DEF RingTypeOK, WriterPhase
  <2>2. producerDone' \in BOOLEAN /\ loadComplete' \in BOOLEAN
    BY DEF RingTypeOK
  <2>3. outTotal' \in {0, OutTotal} /\ logicalTotal' \in {InTotal, OutTotal}
    BY DEF RingTypeOK, WriterPhase
  <2>4. wpc' \in {"write", "head", "done", "total", "complete", "logical", "end"}
    OBVIOUS
  <2> QED BY <1>1, <2>1, <2>2, <2>3, <2>4 DEF RingTypeOK
<1>3. WriterWithin'
  BY <1>1 DEF WriterWithin, RingTypeOK
<1>4. WriterPhase'
  BY <1>1 DEF WriterPhase
<1>5. HeadAligned'
  BY DEF HeadAligned
<1>6. WindowHolds'
  BY <1>1, WindowUnchanged
<1>7. WriterMoves
  BY <1>1 DEF WriterMoves, RingTypeOK, WriterPhase
<1> QED BY <1>2, <1>3, <1>4, <1>5, <1>6, <1>7

(* Every step of the writer keeps the ring as its readers expect it. *)
LEMMA WriterKeeps ==
    ASSUME RingInv, Writer
    PROVE  RingInv' /\ WriterMoves
  BY WriteDataKeeps, NotifyRangeKeeps, FinalizeKeeps DEF Writer

(* A reader that reports progress gives space and takes none. *)
LEMMA ReaderKeeps ==
    ASSUME RingInv, tail' \in 0..(InTotal + PAGE), tail <= tail', UNCHANGED writerVars,
           UNCHANGED <<head, producerDone, outTotal, loadComplete, logicalTotal, ring>>
    PROVE  RingInv'
<1> USE DEF writerVars
<1>1. RingTypeOK'
  BY DEF RingInv, RingTypeOK
<1>2. WriterWithin'
  <2>1. tail \in Int /\ tail' \in Int /\ written \in Int /\ RING \in Int
    BY ConstTypes DEF RingInv, RingTypeOK
  <2>2. head' = head /\ written' = written
    OBVIOUS
  <2>3. head <= written /\ written <= tail + RING
    BY DEF RingInv, WriterWithin
  <2>4. \A t \in Int : tail <= t => written <= t + RING
    BY <2>1, <2>3
  <2>5. written <= tail' + RING
    BY <2>1, <2>4
  <2> QED BY <2>2, <2>3, <2>5 DEF WriterWithin
<1>3. WriterPhase' /\ HeadAligned'
  BY DEF RingInv, WriterPhase, HeadAligned
<1>4. WindowHolds'
  BY WindowUnchanged DEF RingInv
<1> QED BY <1>1, <1>2, <1>3, <1>4 DEF RingInv

(* A byte that is written and not yet reported as consumed is found in any *)
(* contiguous window of at most a ghost page beyond the ring end.          *)
LEMMA WindowRead ==
    ASSUME RingInv, NEW s \in Nat, NEW b \in Nat, s <= b, tail <= b, b < written,
           Phys(s) + (b - s) < RING + GHOST
    PROVE  Holds(s, b)
<1> DEFINE d == b - s
<1>1. d \in Nat /\ b = s + d /\ Phys(s) + d < RING + GHOST
  OBVIOUS
<1>2. b \in 0..(written - 1) /\ b >= written - RING
  BY ConstTypes DEF RingInv, RingTypeOK, WriterWithin
<1>3. Phys(s) \in Nat /\ Phys(s) < RING
  BY PhysRange
<1> HIDE DEF d
<1>5. Phys(s) + d \in DOMAIN ring
  BY <1>1, <1>3, ConstTypes DEF RingInv, RingTypeOK
<1>6. ASSUME b \notin Padding
      PROVE  ring[Phys(s) + d] = b
  <2>1. ring[Phys(b)] = b /\ (Phys(b) < GHOST => ring[RING + Phys(b)] = b)
    BY <1>2, <1>6 DEF RingInv, WindowHolds
  <2>2. CASE Phys(s) + d < RING
    <3>1. Phys(b) = Phys(s) + d
      <4>1. (s % RING) + d < RING /\ RING \in Nat \ {0}
        BY <2>2, ConstTypes DEF Phys
      <4>2. (s + d) % RING = (s % RING) + d
        BY <1>1, <4>1, ModStep, Zenon
      <4> QED BY <1>1, <4>2 DEF Phys
    <3> QED BY <2>1, <3>1
  <2>3. CASE Phys(s) + d >= RING
    <3>1. Phys(s) + d < RING + RING
      BY <1>1, <1>3, ConstTypes
    <3>2. Phys(b) = Phys(s) + d - RING
      <4>1. /\ (s % RING) + d >= RING /\ (s % RING) + d < RING + RING
            /\ RING \in Nat \ {0}
        BY <2>3, <3>1, ConstTypes DEF Phys
      <4>2. (s + d) % RING = (s % RING) + d - RING
        BY <1>1, <4>1, ModWrap, Zenon
      <4> QED BY <1>1, <4>2 DEF Phys
    <3>3. Phys(b) < GHOST /\ RING + Phys(b) = Phys(s) + d
      BY <1>1, <1>3, <3>2, ConstTypes
    <3> QED BY <2>1, <3>3
  <2> QED BY <1>1, <1>3, <2>2, <2>3, ConstTypes
<1> QED BY <1>5, <1>6 DEF Holds, d

-----------------------------------------------------------------------------
(* The host reads out the ring. *)

ReadPhase ==
    /\ IF hpc = "tail" THEN consumed = received + clamped ELSE consumed = received
    /\ hpc \in {"copy", "notify"} => consumed + clamped <= head
    /\ hpc \in {"total", "head", "copy"} => Phys(received) + len <= RING + GHOST
    /\ hpc \in {"total", "head", "copy"} => len > 0
    /\ hpc = "head" => clamped > 0
    /\ hpc \in {"copy", "notify", "tail"} /\ clamped = 0 => outTotal # 0 /\ received = OutTotal
    /\ hpc = "done" => outTotal # 0 /\ received = OutTotal

HIInv == HostTypeOK /\ RingInv /\ WithinRing /\ ReadPhase

----------------------------------------------------------------------------
(* The initial state. *)
LEMMA HInit == HostInit => HIInv
<1> SUFFICES ASSUME HostInit PROVE HIInv
  OBVIOUS
<1> USE ConstTypes DEF HostInit
<1>1. RingInv
  BY RingStart
<1>2. HostTypeOK
  BY <1>1 DEF RingInv, HostTypeOK
<1>3. WithinRing /\ ReadPhase
  BY DEF WithinRing, ReadPhase, RingInit
<1> QED BY <1>1, <1>2, <1>3 DEF HIInv

(* The writer, while the read stands where it is. *)
LEMMA HWriter ==
    ASSUME HIInv, Writer, UNCHANGED hostVars
    PROVE  HIInv'
<1>1. RingInv' /\ WriterMoves
  BY WriterKeeps DEF HIInv
<1>2. UNCHANGED <<hpc, len, clamped, consumed, received>>
  BY DEF hostVars
<1>3. HostTypeOK'
  BY <1>1, <1>2 DEF HIInv, RingInv, HostTypeOK
<1>4. /\ head \in Nat /\ head' \in Nat /\ tail' = tail /\ head <= head'
      /\ consumed \in Nat /\ clamped \in Nat
      /\ outTotal # 0 => outTotal' # 0
  BY <1>1, <1>3, ConstTypes DEF WriterMoves, HIInv, HostTypeOK, RingInv, RingTypeOK
<1>5. WithinRing'
  BY <1>1, <1>2, <1>4 DEF HIInv, RingInv, WriterWithin, WithinRing
<1>6. ReadPhase'
  BY <1>2, <1>4 DEF HIInv, ReadPhase, Phys
<1> QED BY <1>1, <1>3, <1>5, <1>6 DEF HIInv

(* The read command, from the host to the notification. *)
LEMMA HRead ==
    ASSUME HIInv, Device \/ \E n \in HostLens : Submit(n)
    PROVE  HIInv'
<1> USE ConstTypes, HostAssumption DEF HIInv, ringVars, writerVars, Lesser, Greater
<1>0. ASSUME UNCHANGED ringVars, UNCHANGED writerVars
      PROVE  RingInv'
  BY <1>0, ReaderKeeps DEF RingInv, RingTypeOK
<1>1. ASSUME NEW n \in HostLens, Submit(n)
      PROVE  HIInv'
  <2> USE <1>1 DEF Submit
  <2>1. RingInv'
    BY <1>0
  <2>2. HostTypeOK'
    BY <2>1 DEF RingInv, HostTypeOK, RingTypeOK, ReadPhase
  <2>3. WithinRing'
    BY DEF WithinRing, ReadPhase, HostTypeOK, RingTypeOK
  <2>4. ReadPhase'
    BY DEF ReadPhase, HostTypeOK, RingTypeOK, Phys
  <2> QED BY <2>1, <2>2, <2>3, <2>4
<1>2. CASE CheckTotal
  <2> USE <1>2 DEF CheckTotal
  <2>1. RingInv'
    BY <1>0
  <2>2. HostTypeOK'
    BY <2>1 DEF RingInv, HostTypeOK, RingTypeOK, ReadPhase
  <2>3. WithinRing'
    BY DEF WithinRing, ReadPhase, HostTypeOK, RingTypeOK
  <2>4. ReadPhase'
    BY DEF ReadPhase, HostTypeOK, RingTypeOK, Phys, WriterPhase, RingInv, WithinRing
  <2> QED BY <2>1, <2>2, <2>3, <2>4
<1>3. CASE CheckHead
  <2> USE <1>3 DEF CheckHead
  <2>1. RingInv'
    BY <1>0
  <2>2. HostTypeOK'
    BY <2>1 DEF RingInv, HostTypeOK, RingTypeOK, ReadPhase
  <2>3. WithinRing'
    BY DEF WithinRing, ReadPhase, HostTypeOK, RingTypeOK
  <2>4. ReadPhase'
    BY DEF ReadPhase, HostTypeOK, RingTypeOK, Phys
  <2> QED BY <2>1, <2>2, <2>3, <2>4
<1>4. CASE Defer
  <2> USE <1>4 DEF Defer
  <2>1. RingInv'
    BY <1>0
  <2>2. HostTypeOK'
    BY <2>1 DEF RingInv, HostTypeOK, RingTypeOK, ReadPhase
  <2>3. WithinRing'
    BY DEF WithinRing, ReadPhase, HostTypeOK, RingTypeOK
  <2>4. ReadPhase'
    BY DEF ReadPhase, HostTypeOK, RingTypeOK, Phys
  <2> QED BY <2>1, <2>2, <2>3, <2>4
<1>5. CASE CopyOut
  <2> USE <1>5 DEF CopyOut
  <2>1. RingInv'
    BY <1>0
  <2>2. HostTypeOK'
    BY <2>1 DEF RingInv, HostTypeOK, RingTypeOK, ReadPhase
  <2>3. WithinRing'
    BY DEF WithinRing, ReadPhase, HostTypeOK, RingTypeOK
  <2>4. ReadPhase'
    BY DEF ReadPhase, HostTypeOK, RingTypeOK, Phys
  <2> QED BY <2>1, <2>2, <2>3, <2>4
<1>6. CASE NotifyConsumed
  <2> USE <1>6 DEF NotifyConsumed
  <2>1. RingInv'
    BY <1>0
  <2>2. HostTypeOK'
    BY <2>1 DEF RingInv, HostTypeOK, RingTypeOK, ReadPhase
  <2>3. WithinRing'
    BY DEF WithinRing, ReadPhase, HostTypeOK, RingTypeOK
  <2>4. ReadPhase'
    BY DEF ReadPhase, HostTypeOK, RingTypeOK, Phys
  <2> QED BY <2>1, <2>2, <2>3, <2>4
<1>7. CASE NotifyTail
  <2> USE <1>7 DEF NotifyTail
  <2>1. RingInv'
    <3>1. tail' \in 0..(InTotal + PAGE) /\ tail <= tail'
      BY DEF HostTypeOK, RingTypeOK, WithinRing
    <3> QED BY <3>1, ReaderKeeps
  <2>2. HostTypeOK'
    BY <2>1 DEF RingInv, HostTypeOK, RingTypeOK, ReadPhase
  <2>3. WithinRing'
    BY DEF WithinRing, ReadPhase, HostTypeOK, RingTypeOK
  <2>4. ReadPhase'
    BY DEF ReadPhase, HostTypeOK, RingTypeOK, Phys
  <2> QED BY <2>1, <2>2, <2>3, <2>4
<1> QED BY <1>1, <1>2, <1>3, <1>4, <1>5, <1>6, <1>7 DEF Device

(* Every step preserves the invariant. *)
LEMMA HStep == HIInv /\ [HostNext]_hostReadVars => HIInv'
<1> SUFFICES ASSUME HIInv, [HostNext]_hostReadVars PROVE HIInv'
  OBVIOUS
<1>1. CASE Writer /\ UNCHANGED hostVars
  BY <1>1, HWriter
<1>2. CASE Device \/ \E n \in HostLens : Submit(n)
  BY <1>2, HRead
<1>3. CASE UNCHANGED hostReadVars
  <2> USE <1>3 DEF hostReadVars, ringVars, writerVars, hostVars, HIInv
  <2>1. RingInv'
    BY ReaderKeeps DEF RingInv, RingTypeOK
  <2>2. HostTypeOK'
    BY <2>1 DEF RingInv, HostTypeOK
  <2>3. WithinRing' /\ ReadPhase'
    BY DEF WithinRing, ReadPhase, Phys
  <2> QED BY <2>1, <2>2, <2>3
<1> QED BY <1>1, <1>2, <1>3 DEF HostNext

(* The bytes of an accepted read are in the window and contiguous. *)
LEMMA HReadsInPlace == HIInv => HostReadsInPlace
<1> SUFFICES ASSUME HIInv, hpc = "copy", NEW b \in received..(received + clamped - 1)
             PROVE  Holds(received, b)
  BY DEF HostReadsInPlace
<1>1. /\ received \in Nat /\ b \in Nat /\ received <= b /\ b < received + clamped
      /\ received = consumed /\ consumed + clamped <= head
      /\ tail \in Nat /\ written \in Nat /\ head \in Nat /\ clamped \in Nat /\ len \in Nat
      /\ clamped <= len
  BY ConstTypes, HostAssumption DEF HIInv, HostTypeOK, RingTypeOK, ReadPhase
<1>2. b < written /\ tail <= b
  BY <1>1 DEF HIInv, WithinRing
<1>3. Phys(received) \in Nat /\ Phys(received) + len <= RING + GHOST
  BY <1>1, PhysRange DEF HIInv, ReadPhase
<1>4. Phys(received) + (b - received) < RING + GHOST
  BY <1>1, <1>3, ConstTypes
<1> QED BY <1>1, <1>2, <1>4, WindowRead DEF HIInv

----------------------------------------------------------------------------
(* The inductive invariant holds in every reachable state, for any sizes.  *)
THEOREM HIInvAlways == HostSpec => []HIInv
  BY HInit, HStep, PTL DEF HostSpec

(* Type correctness of the ring, its writer and the read command. *)
THEOREM HostTypeCorrect == HostSpec => []HostTypeOK
<1>1. HIInv => HostTypeOK
  BY DEF HIInv
<1> QED BY <1>1, HIInvAlways, PTL

(* The writer never laps the host: circular_output_wait_for_space against  *)
(* notify_output_consumed, for any page and ring size.                     *)
THEOREM WithinRingAlways == HostSpec => []WithinRing
<1>1. HIInv => WithinRing
  BY DEF HIInv
<1> QED BY <1>1, HIInvAlways, PTL

(* A read the dispatcher accepts delivers the bytes of its place in the    *)
(* stream, also across the ring end, for any sizes.                        *)
THEOREM HostReadsInPlaceAlways == HostSpec => []HostReadsInPlace
  BY HReadsInPlace, HIInvAlways, PTL

(* The empty answer is only ever given at the end of the whole output. *)
THEOREM DoneMeansAllAlways == HostSpec => []DoneMeansAll
<1>1. HIInv => DoneMeansAll
  BY DEF HIInv, RingInv, ReadPhase, WriterPhase, DoneMeansAll
<1> QED BY <1>1, HIInvAlways, PTL

-----------------------------------------------------------------------------
(* The CRC stage reads the ring. *)

(* The stream is written up to n, as far as it goes. *)
Reached(n) == Lesser(n, OutTotal) <= written

(* The position is the start of a data block or of a later entry of it. *)
InBlock ==
    \/ pos = bstart
    \/ /\ bstart \in DOMAIN blocks
       /\ \E j \in 0..(blocks[bstart].count - 1) : pos = bstart + j * blocks[bstart].entry

(* The part of the SSTable behind its data blocks is there as a whole. *)
MetaFits ==
    /\ pos = bstart /\ pos + (SstSize - outOff) <= OutTotal
    /\ OnePiece(pos, pos + (SstSize - outOff))

(* output_offset is the place of the block within its SSTable. *)
InSst == outOff <= bstart /\ (bstart - outOff) % SstSize = 0

CrcPhase ==
    /\ cpc \in {"first", "top", "ahead", "entry", "block", "meta", "metacopy"} => InSst
    /\ cpc \in {"first", "top", "ahead", "entry", "block"} => outOff < Threshold
    /\ cpc \in {"first", "top", "ahead", "entry"} => InBlock
    /\ cpc = "entry" => Reached(pos + PAGE + 1)
    /\ cpc = "block" => /\ bstart \in DOMAIN blocks /\ to = bstart + BlockSize(bstart)
                        /\ pos <= to /\ Reached(to)
    /\ cpc \in {"meta", "metacopy"} => MetaFits
    /\ cpc = "metacopy" => to = pos + (SstSize - outOff) /\ Reached(to)
    /\ cpc = "again" => Reached(pos + PAGE)
    /\ cpc = "again" /\ ~loadComplete => pos < OutTotal
    /\ cpc = "page" => to = pos + PAGE /\ Reached(to)
    /\ cpc = "left" => pos <= to

CIInv == TypeOK /\ RingInv /\ tail <= pos /\ CrcPhase

----------------------------------------------------------------------------
(* The constants of this stage. *)
LEMMA CrcConsts ==
    /\ Threshold \in Nat \ {0} /\ MARK \in Nat \ {0} /\ Threshold <= SstSize
  BY CrcAssumption

(* The variables, as the proofs below need them. *)
LEMMA CrcTypes ==
    ASSUME TypeOK
    PROVE  /\ head \in Nat /\ tail \in Nat /\ written \in Nat /\ logicalTotal \in Nat
           /\ pos \in Nat /\ prevPos \in Nat /\ bstart \in Nat /\ outOff \in Nat /\ to \in Nat
           /\ prevPos <= pos /\ bstart <= OutTotal /\ outOff <= SstSize
           /\ logicalTotal <= InTotal /\ blocks \in Streams
  BY ConstTypes DEF TypeOK, RingTypeOK

(* One data block of a stream. *)
LEMMA BlockFacts ==
    ASSUME NEW blks \in Streams, NEW s \in DOMAIN blks
    PROVE  /\ blks[s].entry \in Nat \ {0} /\ blks[s].count \in Nat \ {0}
           /\ blks[s].entry + MARK <= PAGE + 1
           /\ s \in Nat /\ BytesOf(blks[s]) \in Nat \ {0}
           /\ s + BytesOf(blks[s]) <= OutTotal /\ s + BytesOf(blks[s]) <= SstEnd(s)
           /\ OnePiece(s, s + BytesOf(blks[s]))
           /\ s + BytesOf(blks[s]) >= SstEnd(s) - SstSize + Threshold =>
                 SstEnd(s) <= OutTotal /\ OnePiece(s + BytesOf(blks[s]), SstEnd(s))
<1>1. /\ blks[s].entry \in Nat \ {0} /\ blks[s].count \in Nat \ {0}
      /\ blks[s].entry + MARK <= PAGE + 1
      /\ s \in Nat
      /\ s + BytesOf(blks[s]) <= OutTotal /\ s + BytesOf(blks[s]) <= SstEnd(s)
      /\ OnePiece(s, s + BytesOf(blks[s]))
      /\ s + BytesOf(blks[s]) >= SstEnd(s) - SstSize + Threshold =>
            SstEnd(s) <= OutTotal /\ OnePiece(s + BytesOf(blks[s]), SstEnd(s))
  BY CrcAssumption
<1>2. blks[s].entry * blks[s].count \in Nat
  BY <1>1
<1>3. BytesOf(blks[s]) \in Nat \ {0}
  BY <1>2, CrcConsts DEF BytesOf
<1> QED BY <1>1, <1>3

(* circular_buf_check_data_at: when it returns for byte b, the stream is   *)
(* written up to and including b, or to its end.                           *)
LEMMA AvailableReached ==
    ASSUME RingInv, NEW b \in Nat, Available(b)
    PROVE  Reached(b + 1)
<1>0. /\ PAGE \in Nat \ {0} /\ OutTotal \in Nat /\ head \in Nat /\ written \in Nat
      /\ head <= written
  BY ConstTypes DEF RingInv, RingTypeOK, WriterWithin
<1>1. CASE loadComplete
  <2>1. written = OutTotal
    BY <1>1 DEF RingInv, WriterPhase
  <2> QED BY <1>0, <2>1 DEF Reached, Lesser
<1>2. CASE wpc \notin {"write", "head"}
  <2>1. written = OutTotal
    BY <1>2 DEF RingInv, WriterPhase
  <2> QED BY <1>0, <2>1 DEF Reached, Lesser
<1>3. CASE wpc \in {"write", "head"} /\ ~loadComplete
  <2>1. head % PAGE = 0
    BY <1>3 DEF RingInv, HeadAligned
  <2>2. PICK q \in Nat : head = q * PAGE
    BY <1>0, <2>1, MultipleOf
  <2>3. DivUp(head, PAGE) = q
    <3> DEFINE r == PAGE - 1
    <3>1. r \in 0..(PAGE - 1) /\ head + PAGE - 1 = q * PAGE + r
      BY <1>0, <2>2
    <3> HIDE DEF r
    <3>2. (q * PAGE + r) \div PAGE = q
      BY <1>0, <3>1, ModOf
    <3> QED BY <3>1, <3>2 DEF DivUp
  <2> DEFINE p == b \div PAGE
  <2>4. p < q
    BY <1>3, <2>3 DEF Available
  <2>5. p \in Nat /\ b < p * PAGE + PAGE
    <3>1. p \in Nat
      BY <1>0, DivFacts
    <3>2. b < p * PAGE + PAGE
      BY <1>0, AlignDownFacts
    <3> QED BY <3>1, <3>2
  <2> HIDE DEF p
  <2>6. (q - (p + 1)) * PAGE >= 0
    BY <1>0, <2>2, <2>4, <2>5
  <2>7. p * PAGE + PAGE <= q * PAGE
    BY <1>0, <2>2, <2>5, <2>6
  <2>8. q * PAGE \in Nat /\ p * PAGE \in Nat
    BY <1>0, <2>2, <2>5
  <2>9. b + 1 <= head
    BY <1>0, <2>2, <2>5, <2>7, <2>8
  <2> QED BY <1>0, <2>9 DEF Reached, Lesser
<1> QED BY <1>1, <1>2, <1>3

(* Before the end of the stream is announced it returns for no byte a page *)
(* beyond it.                                                              *)
LEMMA AvailableBelow ==
    ASSUME RingInv, NEW b \in Nat, Available(b), ~loadComplete
    PROVE  b < OutTotal + PAGE
<1>0. /\ PAGE \in Nat \ {0} /\ OutTotal \in Nat /\ head \in Nat /\ head <= OutTotal
  BY ConstTypes DEF RingInv, RingTypeOK
<1> DEFINE n == head + PAGE - 1
           q == n \div PAGE
           p == b \div PAGE
<1>1. p < q
  BY DEF Available, DivUp
<1>2. n \in Nat /\ n <= OutTotal + PAGE - 1
  BY <1>0
<1> HIDE DEF n
<1>3. q \in Nat
  BY <1>0, <1>2, DivFacts
<1>4. q * PAGE \in Nat /\ q * PAGE <= n
  BY <1>0, <1>2, AlignDownFacts
<1>5. p \in Nat
  BY <1>0, DivFacts
<1>6. b < p * PAGE + PAGE
  BY <1>0, AlignDownFacts
<1> HIDE DEF p, q
<1>7. (q - (p + 1)) * PAGE >= 0
  BY <1>0, <1>1, <1>3, <1>5
<1>8. p * PAGE + PAGE <= q * PAGE
  BY <1>0, <1>3, <1>5, <1>7
<1>9. p * PAGE \in Nat
  BY <1>0, <1>5
<1> QED BY <1>0, <1>2, <1>4, <1>6, <1>8, <1>9

(* An entry and the marker behind it lie within their data block. *)
LEMMA EntryFits ==
    ASSUME TypeOK, InBlock, bstart \in DOMAIN blocks
    PROVE  /\ pos + blocks[bstart].entry + MARK <= bstart + BlockSize(bstart)
           /\ bstart <= pos
           /\ (pos + blocks[bstart].entry) - bstart # BlockSize(bstart) - MARK =>
                 \E j \in 0..(blocks[bstart].count - 1) :
                     pos + blocks[bstart].entry = bstart + j * blocks[bstart].entry
<1> DEFINE e == blocks[bstart].entry
           c == blocks[bstart].count
<1>1. e \in Nat \ {0} /\ c \in Nat \ {0} /\ bstart \in Nat /\ MARK \in Nat
  BY CrcTypes, BlockFacts, CrcConsts
<1>2. \E j \in 0..(c - 1) : pos = bstart + j * e
  <2>1. CASE pos = bstart
    <3>1. 0 \in 0..(c - 1) /\ pos = bstart + 0 * e
      BY <1>1, <2>1
    <3> QED BY <3>1
  <2>2. CASE pos # bstart
    BY <2>2 DEF InBlock
  <2> QED BY <2>1, <2>2
<1>3. PICK j \in 0..(c - 1) : pos = bstart + j * e
  BY <1>2
<1>4. BlockSize(bstart) = e * c + MARK
  BY DEF BlockSize, BytesOf
<1> HIDE DEF e, c
<1>5. /\ (c - (j + 1)) * e >= 0 /\ j * e \in Nat /\ e * c \in Nat
      /\ (j + 1) * e = j * e + e /\ e * c = (c - (j + 1)) * e + (j * e + e)
  BY <1>1, <1>3
<1>6. pos + e + MARK <= bstart + BlockSize(bstart) /\ bstart <= pos
  BY <1>1, <1>3, <1>4, <1>5
<1>7. ASSUME (pos + e) - bstart # BlockSize(bstart) - MARK
      PROVE  \E i \in 0..(c - 1) : pos + e = bstart + i * e
  <2>1. j + 1 # c
    <3> SUFFICES ASSUME j + 1 = c PROVE FALSE
      OBVIOUS
    <3>1. (j + 1) * e = e * c
      BY <1>1
    <3>2. j * e + e = e * c
      BY <1>5, <3>1
    <3>3. (pos + e) - bstart = j * e + e
      BY <1>1, <1>3, <1>5
    <3>4. BlockSize(bstart) - MARK = e * c
      BY <1>1, <1>4, <1>5
    <3> QED BY <1>7, <3>2, <3>3, <3>4
  <2>2. j + 1 \in 0..(c - 1) /\ pos + e = bstart + (j + 1) * e
    BY <1>1, <1>3, <1>5, <2>1
  <2> QED BY <2>2
<1> QED BY <1>6, <1>7 DEF e, c

(* Where the SSTable of a data block ends. *)
LEMMA EndOfSst ==
    ASSUME TypeOK, InSst, outOff < SstSize
    PROVE  SstEnd(bstart) = bstart + (SstSize - outOff)
<1>0. /\ bstart \in Nat /\ outOff \in Nat /\ SstSize \in Nat \ {0}
      /\ outOff <= bstart /\ outOff \in 0..(SstSize - 1)
  BY CrcTypes, ConstTypes DEF InSst
<1> DEFINE m == bstart - outOff
<1>1. m \in Nat /\ m % SstSize = 0 /\ bstart = m + outOff
  BY <1>0 DEF InSst
<1> HIDE DEF m
<1>2. PICK k \in Nat : m = k * SstSize
  BY <1>0, <1>1, MultipleOf
<1>3. (k * SstSize + outOff) \div SstSize = k
  BY <1>0, ModOf
<1>4. SstEnd(bstart) = (k + 1) * SstSize
  BY <1>1, <1>2, <1>3 DEF SstEnd
<1>5. (k + 1) * SstSize = k * SstSize + SstSize /\ k * SstSize \in Nat
  BY <1>0
<1> QED BY <1>0, <1>1, <1>2, <1>4, <1>5

----------------------------------------------------------------------------
(* The initial state. *)
LEMMA CInit == Init => CIInv
<1> SUFFICES ASSUME Init PROVE CIInv
  OBVIOUS
<1>1. RingInv
  BY RingStart DEF Init
<1>2. TypeOK
  BY <1>1, ConstTypes DEF RingInv, TypeOK, Init
<1>3. InSst
  <2>1. 0 % SstSize = 0
    BY ConstTypes, DivFacts
  <2> QED BY <2>1 DEF Init, InSst
<1>4. CrcPhase
  BY <1>3, CrcConsts DEF Init, CrcPhase, InBlock
<1>5. tail <= pos
  BY DEF Init, RingInit
<1> QED BY <1>1, <1>2, <1>4, <1>5 DEF CIInv

(* The writer, while the stage stands where it is. *)
LEMMA CWriter ==
    ASSUME CIInv, Writer, UNCHANGED readerVars
    PROVE  CIInv'
<1>1. RingInv' /\ WriterMoves
  BY WriterKeeps DEF CIInv
<1>2. UNCHANGED <<blocks, cpc, pos, prevPos, bstart, outOff, to>>
  BY DEF readerVars
<1>3. TypeOK'
  BY <1>1, <1>2 DEF CIInv, RingInv, TypeOK
<1>4. /\ written \in Nat /\ written' \in Nat /\ written <= written' /\ tail' = tail
      /\ loadComplete => loadComplete'
  BY <1>1, <1>3, CrcTypes, ConstTypes DEF WriterMoves, CIInv, TypeOK, RingTypeOK
<1>5. \A n \in Nat : Lesser(n, OutTotal) <= written => Lesser(n, OutTotal) <= written'
  BY <1>4, ConstTypes DEF Lesser
<1>6. /\ pos + PAGE + 1 \in Nat /\ pos + PAGE \in Nat /\ to \in Nat
  BY CrcTypes, ConstTypes DEF CIInv
<1>7. InBlock' <=> InBlock
  BY <1>2 DEF InBlock
<1>8. (InSst' <=> InSst) /\ (MetaFits' <=> MetaFits)
  BY <1>2 DEF InSst, MetaFits, OnePiece, Phys
<1>9. CrcPhase'
  BY <1>2, <1>4, <1>5, <1>6, <1>7, <1>8 DEF CIInv, CrcPhase, Reached, BlockSize
<1> QED BY <1>1, <1>2, <1>3, <1>4, <1>9 DEF CIInv

(* A step that only reads the ring. *)
LEMMA ReadOnlyKeeps ==
    ASSUME TypeOK, RingInv, ReadOnly
    PROVE  /\ RingInv'
           /\ UNCHANGED <<head, tail, written, loadComplete, logicalTotal>>
<1>1. UNCHANGED writerVars /\ UNCHANGED <<head, producerDone, outTotal, loadComplete, logicalTotal, ring>>
  BY DEF ReadOnly, ringVars
<1>2. tail' = tail
  BY DEF ReadOnly, ringVars
<1>3. tail' \in 0..(InTotal + PAGE) /\ tail <= tail'
  BY <1>2, ConstTypes DEF TypeOK, RingTypeOK
<1>4. RingInv'
  BY <1>1, <1>3, ReaderKeeps
<1> QED BY <1>1, <1>2, <1>4 DEF writerVars

(* circular_buf_notify_progress: nothing beyond b is reported. *)
LEMMA ReportsKeeps ==
    ASSUME TypeOK, RingInv, NEW b \in 0..(InTotal + PAGE), tail <= b, prevPos <= b, Reports(b)
    PROVE  /\ RingInv' /\ tail' <= b /\ prevPos' \in 0..b
           /\ UNCHANGED <<head, written, loadComplete, logicalTotal>>
<1>1. UNCHANGED writerVars /\ UNCHANGED <<head, producerDone, outTotal, loadComplete, logicalTotal, ring>>
  BY DEF Reports
<1>2. /\ tail \in Nat /\ prevPos \in Nat /\ tail \in 0..(InTotal + PAGE) /\ b \in Nat
  BY CrcTypes, ConstTypes DEF TypeOK, RingTypeOK
<1>3. (tail' = tail /\ prevPos' = prevPos) \/ (tail' = b /\ prevPos' = b)
  BY <1>2 DEF Reports, Progress, Greater
<1>4. tail' \in 0..(InTotal + PAGE) /\ tail <= tail' /\ tail' <= b /\ prevPos' \in 0..b
  BY <1>2, <1>3
<1>5. RingInv'
  BY <1>1, <1>4, ReaderKeeps
<1> QED BY <1>1, <1>4, <1>5 DEF writerVars

(* Steps that only move the program on: waits that end, and loop tests. *)
LEMMA CWaits ==
    ASSUME CIInv, UNCHANGED blocks,
           \/ FirstData \/ LoopEnds \/ NextPage \/ NoMoreBlocks
           \/ RestOver \/ RestOpen \/ RestHere \/ RestNext
    PROVE  CIInv'
<1> USE DEF FirstData, LoopEnds, NextPage, NoMoreBlocks, RestOver, RestOpen, RestHere, RestNext
<1>1. ReadOnly /\ UNCHANGED <<blocks, pos, prevPos, bstart, outOff, to>>
  OBVIOUS
<1>2. RingInv' /\ UNCHANGED <<head, tail, written, loadComplete, logicalTotal>>
  BY <1>1, ReadOnlyKeeps DEF CIInv
<1>3. TypeOK'
  <2>1. cpc' \in {"top", "rest", "entry", "final", "here", "next", "again"}
    OBVIOUS
  <2> QED BY <1>1, <1>2, <2>1 DEF CIInv, RingInv, TypeOK
<1>4. (InSst' <=> InSst) /\ (MetaFits' <=> MetaFits) /\ (InBlock' <=> InBlock)
  BY <1>1 DEF InSst, MetaFits, OnePiece, Phys, InBlock
<1>5. pos + PAGE \in Nat /\ pos \in Nat /\ PAGE \in Nat /\ OutTotal \in Nat /\ written \in Nat
  BY CrcTypes, ConstTypes DEF CIInv
<1>6. Available(pos + PAGE) => Reached(pos + PAGE + 1)
  BY <1>5, AvailableReached DEF CIInv
<1>7. Reached(pos + PAGE + 1) => Reached(pos + PAGE)
  BY <1>5 DEF Reached, Lesser
<1>8. Available(pos + PAGE) /\ ~loadComplete => pos < OutTotal
  <2> SUFFICES ASSUME Available(pos + PAGE), ~loadComplete PROVE pos < OutTotal
    OBVIOUS
  <2>1. pos + PAGE < OutTotal + PAGE
    BY <1>5, AvailableBelow DEF CIInv
  <2> QED BY <1>5, <2>1
<1>9. (Reached(pos + PAGE + 1)' <=> Reached(pos + PAGE + 1)) /\ (Reached(pos + PAGE)' <=> Reached(pos + PAGE))
  BY <1>1, <1>2 DEF Reached
<1>10. CrcPhase'
  BY <1>1, <1>2, <1>4, <1>6, <1>7, <1>8, <1>9 DEF CIInv, CrcPhase
<1> QED BY <1>1, <1>2, <1>3, <1>10 DEF CIInv

(* The loop head reports the position. *)
LEMMA CLoopTop ==
    ASSUME CIInv, UNCHANGED blocks, LoopTop
    PROVE  CIInv'
<1>1. /\ Reports(pos) /\ cpc = "top" /\ cpc' = "ahead"
      /\ UNCHANGED <<blocks, pos, bstart, outOff, to>>
  BY DEF LoopTop
<1>2. pos \in 0..(InTotal + PAGE) /\ tail <= pos /\ prevPos <= pos
  BY CrcTypes DEF CIInv, TypeOK
<1>3. /\ RingInv' /\ tail' <= pos /\ prevPos' \in 0..pos
      /\ UNCHANGED <<head, written, loadComplete, logicalTotal>>
  BY <1>1, <1>2, ReportsKeeps DEF CIInv
<1>4. TypeOK'
  BY <1>1, <1>3 DEF CIInv, RingInv, TypeOK
<1>5. (InSst' <=> InSst) /\ (InBlock' <=> InBlock)
  BY <1>1 DEF InSst, InBlock
<1>6. CrcPhase'
  BY <1>1, <1>5 DEF CIInv, CrcPhase
<1> QED BY <1>1, <1>3, <1>4, <1>6 DEF CIInv

(* An entry is decoded. *)
LEMMA CEntry ==
    ASSUME CIInv, UNCHANGED blocks, Entry
    PROVE  CIInv'
<1> DEFINE e == blocks[bstart].entry
<1>1. /\ ReadOnly /\ cpc = "entry" /\ bstart \in DOMAIN blocks
      /\ UNCHANGED <<blocks, prevPos, bstart, outOff>>
  BY DEF Entry
<1>2. RingInv' /\ UNCHANGED <<head, tail, written, loadComplete, logicalTotal>>
  BY <1>1, ReadOnlyKeeps DEF CIInv
<1>3. /\ pos \in Nat /\ tail \in Nat /\ prevPos \in Nat /\ bstart \in Nat /\ e \in Nat \ {0}
      /\ MARK \in Nat \ {0} /\ prevPos <= pos /\ written \in Nat /\ OutTotal \in Nat
      /\ InTotal \in Nat /\ PAGE \in Nat /\ OutTotal <= InTotal
      /\ BlockSize(bstart) \in Nat /\ e + MARK <= PAGE + 1
      /\ bstart + BlockSize(bstart) <= OutTotal
  BY <1>1, CrcTypes, BlockFacts, CrcConsts, ConstTypes DEF CIInv, BlockSize
<1>4. InBlock
  BY <1>1 DEF CIInv, CrcPhase
<1>5. pos + e + MARK <= bstart + BlockSize(bstart) /\ bstart <= pos
  BY <1>1, <1>4, EntryFits DEF CIInv
<1>6. Reached(pos + PAGE + 1)
  BY <1>1 DEF CIInv, CrcPhase
<1>7. InSst /\ InSst' /\ outOff < Threshold
  BY <1>1 DEF CIInv, CrcPhase, InSst
<1>8. CASE (pos + e) - bstart = BlockSize(bstart) - MARK
  <2>1. cpc' = "block" /\ to' = pos + e + MARK /\ pos' = pos
    BY <1>8 DEF Entry
  <2> HIDE DEF e
  <2>2. to' = bstart + BlockSize(bstart)
    BY <1>3, <1>8, <2>1
  <2>3. TypeOK'
    <3>1. to' \in 0..(InTotal + PAGE)
      BY <1>3, <2>2
    <3> QED BY <1>1, <1>2, <2>1, <3>1 DEF CIInv, RingInv, TypeOK
  <2>4. pos' <= to' /\ to' <= pos + PAGE + 1 /\ to' <= OutTotal
    BY <1>3, <2>1, <2>2
  <2>5. Reached(to)'
    BY <1>2, <1>3, <1>6, <2>1, <2>2, <2>4 DEF Reached, Lesser
  <2>6. CrcPhase'
    BY <1>1, <1>7, <2>1, <2>2, <2>4, <2>5 DEF CrcPhase, BlockSize
  <2> QED BY <1>2, <2>1, <2>3, <2>6 DEF CIInv
<1>9. CASE (pos + e) - bstart # BlockSize(bstart) - MARK
  <2>1. cpc' = "top" /\ to' = to /\ pos' = pos + e
    BY <1>9 DEF Entry
  <2>2. \E j \in 0..(blocks[bstart].count - 1) : pos + e = bstart + j * e
    BY <1>1, <1>4, <1>9, EntryFits DEF CIInv
  <2>3. InBlock'
    BY <1>1, <2>1, <2>2 DEF InBlock
  <2> HIDE DEF e
  <2>4. pos' \in 0..(InTotal + PAGE) /\ prevPos' \in 0..pos' /\ pos <= pos' /\ pos' \in Nat
    BY <1>1, <1>3, <1>5, <2>1
  <2>5. TypeOK'
    BY <1>1, <1>2, <2>1, <2>4 DEF CIInv, RingInv, TypeOK
  <2>6. CrcPhase'
    BY <1>1, <1>7, <2>1, <2>3 DEF CrcPhase
  <2>7. tail' <= pos'
    <3>1. tail <= pos
      BY DEF CIInv
    <3> QED BY <1>2, <1>3, <2>4, <3>1
  <2> QED BY <1>2, <2>5, <2>6, <2>7 DEF CIInv
<1> QED BY <1>8, <1>9

(* A data block is copied; behind the threshold the metadata follows. *)
LEMMA CCopyBlock ==
    ASSUME CIInv, UNCHANGED blocks, CopyBlock
    PROVE  CIInv'
<1> DEFINE n == BytesOf(blocks[bstart])
           rest == SstSize - outOff
<1>1. /\ ReadOnly /\ cpc = "block" /\ pos' = to /\ bstart' = to
      /\ outOff' = outOff + (to - bstart)
      /\ cpc' = IF outOff' >= Threshold THEN "meta" ELSE "top"
      /\ UNCHANGED <<blocks, prevPos, to>>
  BY DEF CopyBlock
<1>2. RingInv' /\ UNCHANGED <<head, tail, written, loadComplete, logicalTotal>>
  BY <1>1, ReadOnlyKeeps DEF CIInv
<1>3. /\ bstart \in DOMAIN blocks /\ to = bstart + n /\ pos <= to
      /\ InSst /\ outOff < Threshold
  BY <1>1 DEF CIInv, CrcPhase, BlockSize
<1>4. /\ pos \in Nat /\ tail \in Nat /\ prevPos \in Nat /\ bstart \in Nat /\ outOff \in Nat
      /\ prevPos <= pos /\ to \in Nat /\ outOff <= SstSize /\ SstSize \in Nat
      /\ OutTotal \in Nat /\ InTotal \in Nat /\ OutTotal <= InTotal /\ PAGE \in Nat
      /\ Threshold \in Nat /\ Threshold <= SstSize
  BY CrcTypes, CrcConsts, ConstTypes DEF CIInv
<1>5. SstEnd(bstart) = bstart + rest
  BY <1>3, <1>4, EndOfSst DEF CIInv
<1>6. /\ n \in Nat \ {0} /\ bstart + n <= OutTotal /\ bstart + n <= SstEnd(bstart)
      /\ bstart + n >= SstEnd(bstart) - SstSize + Threshold =>
            SstEnd(bstart) <= OutTotal /\ OnePiece(bstart + n, SstEnd(bstart))
  BY <1>3, BlockFacts DEF CIInv, TypeOK
<1> HIDE DEF n
<1>7. outOff' = outOff + n /\ outOff' \in 0..SstSize /\ to <= OutTotal
  BY <1>1, <1>3, <1>4, <1>5, <1>6
<1>8. TypeOK'
  <2>1. pos' \in 0..(InTotal + PAGE) /\ prevPos' \in 0..pos' /\ bstart' \in 0..OutTotal
        /\ to' \in 0..(InTotal + PAGE)
    BY <1>1, <1>3, <1>4, <1>7
  <2> QED BY <1>1, <1>2, <1>7, <2>1 DEF CIInv, RingInv, TypeOK
<1>9. InSst'
  <2>1. outOff' <= bstart' /\ bstart' - outOff' = bstart - outOff
    BY <1>1, <1>3, <1>4, <1>6, <1>7 DEF InSst
  <2> QED BY <1>3, <2>1 DEF InSst
<1>10. InBlock'
  BY <1>1 DEF InBlock
<1>11. ASSUME outOff' >= Threshold
       PROVE  MetaFits'
  <2>1. bstart + n >= SstEnd(bstart) - SstSize + Threshold
    BY <1>4, <1>5, <1>6, <1>7, <1>11
  <2>2. pos' = bstart' /\ pos' + (SstSize - outOff') = SstEnd(bstart)
    BY <1>1, <1>3, <1>4, <1>5, <1>6, <1>7
  <2>3. SstEnd(bstart) <= OutTotal /\ OnePiece(bstart + n, SstEnd(bstart)) /\ pos' = bstart + n
    BY <1>1, <1>3, <1>6, <2>1
  <2>4. OnePiece(pos, pos + (SstSize - outOff))'
    BY <2>2, <2>3 DEF OnePiece, Phys
  <2> QED BY <2>2, <2>3, <2>4 DEF MetaFits
<1>12. CrcPhase'
  <2>1. CASE outOff' >= Threshold
    BY <1>1, <1>9, <1>11, <2>1 DEF CrcPhase
  <2>2. CASE ~ (outOff' >= Threshold)
    <3>1. outOff' < Threshold
      BY <1>4, <1>7, <2>2
    <3> QED BY <1>1, <1>9, <1>10, <2>2, <3>1 DEF CrcPhase
  <2> QED BY <2>1, <2>2
<1>13. tail' <= pos'
  <2>1. tail <= pos
    BY DEF CIInv
  <2> QED BY <1>1, <1>2, <1>3, <1>4, <2>1
<1> QED BY <1>2, <1>8, <1>12, <1>13 DEF CIInv

(* The metadata of an SSTable is there as a whole. *)
LEMMA CMetaReady ==
    ASSUME CIInv, UNCHANGED blocks, MetaReady
    PROVE  CIInv'
<1> DEFINE last == pos + (SstSize - outOff) - 1
<1>1. /\ ReadOnly /\ cpc = "meta" /\ Available(last) /\ cpc' = "metacopy"
      /\ to' = pos + (SstSize - outOff)
      /\ UNCHANGED <<blocks, pos, prevPos, bstart, outOff>>
  BY DEF MetaReady
<1>2. RingInv' /\ UNCHANGED <<head, tail, written, loadComplete, logicalTotal>>
  BY <1>1, ReadOnlyKeeps DEF CIInv
<1>3. InSst /\ InSst' /\ MetaFits /\ MetaFits'
  BY <1>1 DEF CIInv, CrcPhase, InSst, MetaFits, OnePiece, Phys
<1>4. /\ pos \in Nat /\ outOff \in Nat /\ outOff <= SstSize /\ SstSize \in Nat
      /\ OutTotal \in Nat /\ InTotal \in Nat /\ OutTotal <= InTotal /\ PAGE \in Nat
      /\ written \in Nat /\ pos + (SstSize - outOff) <= OutTotal
  BY <1>3, CrcTypes, ConstTypes DEF CIInv, MetaFits
<1>5. to' \in 0..(InTotal + PAGE)
  BY <1>1, <1>4
<1>6. TypeOK'
  BY <1>1, <1>2, <1>5 DEF CIInv, RingInv, TypeOK
<1>7. Reached(to)'
  <2>1. CASE last \in Nat
    <3>1. last + 1 = to'
      BY <1>1, <1>4
    <3> HIDE DEF last
    <3>2. Reached(last + 1)
      BY <1>1, <2>1, AvailableReached DEF CIInv
    <3> QED BY <1>2, <3>1, <3>2 DEF Reached
  <2>2. CASE last \notin Nat
    <3>1. to' = 0
      BY <1>1, <1>4, <2>2
    <3> QED BY <1>2, <1>4, <3>1 DEF Reached, Lesser
  <2> QED BY <2>1, <2>2
<1>8. CrcPhase'
  BY <1>1, <1>3, <1>7 DEF CrcPhase
<1> QED BY <1>1, <1>2, <1>6, <1>8 DEF CIInv

(* It is copied, and the next SSTable begins. *)
LEMMA CCopyMeta ==
    ASSUME CIInv, UNCHANGED blocks, CopyMeta
    PROVE  CIInv'
<1>1. /\ Reports(to) /\ cpc = "metacopy" /\ cpc' = "top"
      /\ pos' = to /\ bstart' = to /\ outOff' = 0 /\ UNCHANGED <<blocks, to>>
  BY DEF CopyMeta
<1>2. InSst /\ MetaFits /\ to = pos + (SstSize - outOff)
  BY <1>1 DEF CIInv, CrcPhase
<1>3. /\ pos \in Nat /\ tail \in Nat /\ prevPos \in Nat /\ bstart \in Nat /\ outOff \in Nat
      /\ prevPos <= pos /\ to \in Nat /\ outOff <= SstSize /\ SstSize \in Nat \ {0}
      /\ OutTotal \in Nat /\ InTotal \in Nat /\ OutTotal <= InTotal /\ PAGE \in Nat
      /\ Threshold > 0 /\ tail <= pos
  BY CrcTypes, CrcConsts, ConstTypes DEF CIInv
<1>4. /\ to \in 0..(InTotal + PAGE) /\ pos <= to /\ tail <= to /\ prevPos <= to
      /\ to \in 0..OutTotal
  BY <1>2, <1>3 DEF MetaFits
<1>5. /\ RingInv' /\ tail' <= to /\ prevPos' \in 0..to
      /\ UNCHANGED <<head, written, loadComplete, logicalTotal>>
  BY <1>1, <1>4, ReportsKeeps DEF CIInv
<1>6. TypeOK'
  BY <1>1, <1>3, <1>4, <1>5 DEF CIInv, RingInv, TypeOK
<1>7. InSst'
  <2> DEFINE m == bstart - outOff
  <2>1. m \in Nat /\ m % SstSize = 0 /\ to = m + SstSize
    BY <1>2, <1>3 DEF InSst, MetaFits
  <2>2. SstSize % SstSize = 0
    <3>1. SstSize = 1 * SstSize
      BY <1>3
    <3> QED BY <1>3, <3>1, MultipleOf
  <2> HIDE DEF m
  <2>3. to % SstSize = 0
    BY <1>3, <2>1, <2>2, MultipleSum
  <2>4. outOff' <= bstart' /\ bstart' - outOff' = to
    BY <1>1, <1>3
  <2> QED BY <2>3, <2>4 DEF InSst
<1>8. InBlock'
  BY <1>1 DEF InBlock
<1>9. CrcPhase'
  BY <1>1, <1>3, <1>7, <1>8 DEF CrcPhase
<1> QED BY <1>1, <1>5, <1>6, <1>9 DEF CIInv

(* The rest is copied page by page, then what is left of it. *)
LEMMA CRest ==
    ASSUME CIInv, UNCHANGED blocks, RestAgain \/ SizeLeftover
    PROVE  CIInv'
<1>1. /\ ReadOnly /\ UNCHANGED <<blocks, pos, prevPos, bstart, outOff>>
      /\ \/ cpc = "again" /\ ~loadComplete /\ cpc' = "page" /\ to' = pos + PAGE
         \/ cpc = "final" /\ cpc' = "left" /\ to' = Greater(pos, logicalTotal)
  BY DEF RestAgain, SizeLeftover
<1>2. RingInv' /\ UNCHANGED <<head, tail, written, loadComplete, logicalTotal>>
  BY <1>1, ReadOnlyKeeps DEF CIInv
<1>3. /\ pos \in 0..(InTotal + PAGE) /\ pos \in Nat /\ InTotal \in Nat /\ PAGE \in Nat
      /\ logicalTotal \in Nat /\ logicalTotal <= InTotal /\ OutTotal \in Nat
      /\ OutTotal <= InTotal
  BY CrcTypes, ConstTypes DEF CIInv, TypeOK
<1>4. cpc = "again" => Reached(pos + PAGE) /\ (~loadComplete => pos < OutTotal)
  BY DEF CIInv, CrcPhase
<1>5. to' \in 0..(InTotal + PAGE) /\ pos <= to'
  BY <1>1, <1>3, <1>4 DEF Greater
<1>6. TypeOK'
  BY <1>1, <1>2, <1>5 DEF CIInv, RingInv, TypeOK
<1>7. CrcPhase'
  BY <1>1, <1>2, <1>4, <1>5 DEF CrcPhase, Reached
<1> QED BY <1>1, <1>2, <1>6, <1>7 DEF CIInv

LEMMA CCopyRest ==
    ASSUME CIInv, UNCHANGED blocks, CopyPage \/ CopyLeftover
    PROVE  CIInv'
<1>1. /\ Reports(to) /\ pos' = to /\ UNCHANGED <<blocks, bstart, outOff, to>>
      /\ cpc \in {"page", "left"} /\ cpc' \in {"rest", "done"}
  BY DEF CopyPage, CopyLeftover
<1>2. /\ pos \in Nat /\ tail \in Nat /\ prevPos \in Nat /\ to \in Nat /\ PAGE \in Nat
      /\ prevPos <= pos /\ tail <= pos /\ to \in 0..(InTotal + PAGE)
  BY CrcTypes, ConstTypes DEF CIInv, TypeOK
<1>3. pos <= to
  BY <1>1, <1>2 DEF CIInv, CrcPhase
<1>4. tail <= to /\ prevPos <= to
  BY <1>2, <1>3
<1>5. /\ RingInv' /\ tail' <= to /\ prevPos' \in 0..to
      /\ UNCHANGED <<head, written, loadComplete, logicalTotal>>
  BY <1>1, <1>2, <1>4, ReportsKeeps DEF CIInv
<1>6. TypeOK'
  BY <1>1, <1>2, <1>5 DEF CIInv, RingInv, TypeOK
<1>7. CrcPhase'
  BY <1>1 DEF CrcPhase
<1> QED BY <1>1, <1>5, <1>6, <1>7 DEF CIInv

(* Every step preserves the invariant. *)
LEMMA CStep == CIInv /\ [Next]_vars => CIInv'
<1> SUFFICES ASSUME CIInv, [Next]_vars PROVE CIInv'
  OBVIOUS
<1>1. CASE Writer /\ UNCHANGED readerVars
  BY <1>1, CWriter
<1>2. CASE Crc
  <2>1. UNCHANGED blocks
    BY <1>2 DEF Crc
  <2> QED BY <1>2, <2>1, CWaits, CLoopTop, CEntry, CCopyBlock, CMetaReady, CCopyMeta,
             CRest, CCopyRest DEF Crc
<1>3. CASE UNCHANGED vars
  <2>1. ReadOnly /\ UNCHANGED <<blocks, cpc, pos, prevPos, bstart, outOff, to>>
    BY <1>3 DEF vars, ReadOnly, readerVars
  <2>2. RingInv' /\ UNCHANGED <<head, tail, written, loadComplete, logicalTotal>>
    BY <2>1, ReadOnlyKeeps DEF CIInv
  <2>3. TypeOK'
    BY <2>1, <2>2 DEF CIInv, RingInv, TypeOK
  <2>4. CrcPhase'
    BY <2>1, <2>2 DEF CIInv, CrcPhase, InSst, InBlock, MetaFits, OnePiece, Phys, Reached, BlockSize
  <2> QED BY <2>1, <2>2, <2>3, <2>4 DEF CIInv
<1> QED BY <1>1, <1>2, <1>3 DEF Next

----------------------------------------------------------------------------
(* What is decoded is in the window. *)
LEMMA CEntryInPlace == CIInv => EntryInPlace
<1> SUFFICES ASSUME CIInv, cpc = "entry", bstart \in DOMAIN blocks,
                    NEW b \in pos..(pos + blocks[bstart].entry + MARK - 1)
             PROVE  Holds(pos, b)
  BY DEF EntryInPlace
<1> DEFINE e == blocks[bstart].entry
<1>1. /\ pos \in Nat /\ tail \in Nat /\ written \in Nat /\ tail <= pos /\ e \in Nat
      /\ MARK \in Nat /\ PAGE \in Nat /\ e + MARK <= PAGE + 1 /\ OutTotal \in Nat
      /\ bstart \in Nat /\ BlockSize(bstart) \in Nat /\ bstart + BlockSize(bstart) <= OutTotal
      /\ PAGE <= GHOST /\ RING \in Nat /\ GHOST \in Nat
  BY CrcTypes, BlockFacts, CrcConsts, ConstTypes DEF CIInv, BlockSize
<1>2. pos + e + MARK <= bstart + BlockSize(bstart)
  BY EntryFits DEF CIInv, CrcPhase
<1>3. Reached(pos + PAGE + 1)
  BY DEF CIInv, CrcPhase
<1>4. b \in pos..(pos + e + MARK - 1)
  OBVIOUS
<1> HIDE DEF e
<1>5. b \in Nat /\ pos <= b /\ b - pos <= PAGE /\ b < OutTotal /\ b < pos + PAGE + 1
  BY <1>1, <1>2, <1>4
<1>6. b < written
  BY <1>1, <1>3, <1>5 DEF Reached, Lesser
<1>7. Phys(pos) \in Nat /\ Phys(pos) < RING
  BY <1>1, PhysRange
<1>8. Phys(pos) + (b - pos) < RING + GHOST
  BY <1>1, <1>5, <1>7
<1>9. tail <= b
  BY <1>1, <1>5
<1> QED BY <1>1, <1>5, <1>6, <1>8, <1>9, WindowRead DEF CIInv

(* What is copied and not reported stays in the window. *)
LEMMA CUnreportedIntact == CIInv => UnreportedIntact
<1> DEFINE from == IF cpc = "block" THEN bstart ELSE pos
<1> SUFFICES ASSUME CIInv, cpc \in {"block", "metacopy", "page"},
                    NEW b \in Greater(from, tail)..(Lesser(to, OutTotal) - 1)
             PROVE  Holds(from, b)
  BY DEF UnreportedIntact
<1>1. /\ pos \in Nat /\ tail \in Nat /\ written \in Nat /\ bstart \in Nat /\ to \in Nat
      /\ outOff \in Nat /\ outOff <= SstSize /\ SstSize \in Nat
      /\ PAGE \in Nat /\ OutTotal \in Nat /\ PAGE <= GHOST /\ RING \in Nat /\ GHOST \in Nat
  BY CrcTypes, ConstTypes DEF CIInv
<1>2. Reached(to)
  BY DEF CIInv, CrcPhase
<1>3. from \in Nat
  BY <1>1
<1>4. Phys(from) \in Nat /\ Phys(from) < RING
  BY <1>3, PhysRange
<1>5. Phys(from) + (to - from) <= RING + GHOST
  <2>1. CASE cpc = "block"
    <3>1. bstart \in DOMAIN blocks /\ to = bstart + BytesOf(blocks[bstart]) /\ from = bstart
      BY <2>1 DEF CIInv, CrcPhase, BlockSize
    <3>2. OnePiece(bstart, bstart + BytesOf(blocks[bstart]))
      BY <3>1, BlockFacts DEF CIInv, TypeOK
    <3>3. OnePiece(from, to)
      BY <3>1, <3>2
    <3> QED BY <3>3 DEF OnePiece
  <2>2. CASE cpc = "metacopy"
    <3>1. OnePiece(pos, to) /\ from = pos
      BY <2>2 DEF CIInv, CrcPhase, MetaFits
    <3> QED BY <3>1 DEF OnePiece
  <2>3. CASE cpc = "page"
    <3>1. to = pos + PAGE /\ from = pos
      BY <2>3 DEF CIInv, CrcPhase
    <3> HIDE DEF from
    <3> QED BY <1>1, <1>4, <3>1
  <2> QED BY <2>1, <2>2, <2>3
<1> HIDE DEF from
<1>6. b \in Nat /\ from <= b /\ tail <= b /\ b < to /\ b < written
  BY <1>1, <1>2, <1>3 DEF Reached, Lesser, Greater
<1>7. Phys(from) + (b - from) < RING + GHOST
  BY <1>1, <1>3, <1>4, <1>5, <1>6
<1> QED BY <1>3, <1>6, <1>7, WindowRead DEF CIInv

----------------------------------------------------------------------------
(* The inductive invariant holds in every reachable state, for any sizes   *)
(* and any stream.                                                         *)
THEOREM CIInvAlways == Spec => []CIInv
  BY CInit, CStep, PTL DEF Spec

(* circular_buf_check_data_at one page ahead is enough: whatever the ring, *)
(* page and grain sizes, the CRC stage decodes every entry and its marker  *)
(* from the bytes written for this place of the stream.                    *)
THEOREM EntryAlwaysInPlace == Spec => []EntryInPlace
  BY CEntryInPlace, CIInvAlways, PTL

(* The writer's space wait never lets it overwrite bytes that a copy of    *)
(* the CRC stage still needs, however long the copy is held up.            *)
THEOREM UnreportedAlwaysIntact == Spec => []UnreportedIntact
  BY CUnreportedIntact, CIInvAlways, PTL

-----------------------------------------------------------------------------
(* The way of an answer into host memory.                                  *)

(* FlattenSeq adds the sequences one by one. *)
FlattenRec(s, g) == g[0] = << >> /\ \A i \in 1..Len(s) : g[i] = g[i - 1] \o s[i]

LEMMA FlattenIs ==
    ASSUME NEW V, NEW s \in Seq(Seq(V)), NEW g \in [0..Len(s) -> Seq(V)], FlattenRec(s, g)
    PROVE  FlattenSeq(s) = g[Len(s)]
<1> DEFINE n == Len(s)
           Eq(f) == f = [i \in 1..n |-> IF i = 1 THEN s[i] ELSE f[i - 1] \o s[i]]
           F == CHOOSE f : Eq(f)
           h == [i \in 1..n |-> g[i]]
<1>0. n \in Nat /\ \A i \in 1..n : s[i] \in Seq(V)
  OBVIOUS
<1>1. CASE n = 0
  <2>1. s = << >>
    BY <1>1
  <2> QED BY <1>1, <2>1 DEF FlattenSeq, FlattenRec
<1>2. CASE n # 0
  <2>1. FlattenSeq(s) = F[n]
    BY <1>2 DEF FlattenSeq
  <2>2. Eq(h)
    <3>1. ASSUME NEW i \in 1..n PROVE h[i] = IF i = 1 THEN s[i] ELSE h[i - 1] \o s[i]
      <4>1. CASE i = 1
        <5>1. 1 \in 1..n /\ 1 - 1 = 0 /\ h[i] = g[1] /\ s[1] \in Seq(V)
          BY <1>0, <4>1
        <5>2. g[1] = << >> \o s[1]
          BY <5>1 DEF FlattenRec
        <5> QED BY <4>1, <5>1, <5>2
      <4>2. CASE i # 1
        <5>1. i - 1 \in 1..n /\ h[i - 1] = g[i - 1] /\ h[i] = g[i]
          BY <1>0, <4>2
        <5> QED BY <4>2, <5>1 DEF FlattenRec
      <4> QED BY <4>1, <4>2
    <3> DEFINE R == [i \in 1..n |-> IF i = 1 THEN s[i] ELSE h[i - 1] \o s[i]]
    <3>2. DOMAIN h = 1..n /\ h = [i \in 1..n |-> h[i]]
      OBVIOUS
    <3> HIDE DEF h
    <3> QED BY <3>1, <3>2
  <2>3. Eq(F)
    <3> HIDE DEF Eq, h
    <3> QED BY <2>2
  <2> HIDE DEF F
  <2>4. \A i \in 1..n : F[i] = IF i = 1 THEN s[i] ELSE F[i - 1] \o s[i]
    BY <2>3
  <2> DEFINE T == {i \in Nat : i + 1 \in 1..n => F[i + 1] = g[i + 1]}
  <2>5. 0 \in T
    <3>1. 1 \in 1..n /\ 1 - 1 = 0
      BY <1>0, <1>2
    <3>2. F[1] = s[1] /\ g[1] = << >> \o s[1] /\ s[1] \in Seq(V)
      BY <1>0, <2>4, <3>1 DEF FlattenRec
    <3> QED BY <3>2
  <2>6. ASSUME NEW i \in T PROVE i + 1 \in T
    <3> SUFFICES ASSUME (i + 1) + 1 \in 1..n PROVE F[(i + 1) + 1] = g[(i + 1) + 1]
      BY <2>6
    <3>1. i + 1 \in 1..n /\ F[i + 1] = g[i + 1] /\ ((i + 1) + 1) - 1 = i + 1 /\ (i + 1) + 1 # 1
      BY <1>0, <2>6
    <3> DEFINE j == (i + 1) + 1
    <3>2. j \in 1..n /\ j # 1 /\ j - 1 = i + 1
      BY <3>1
    <3> HIDE DEF j
    <3>3. F[j] = F[j - 1] \o s[j] /\ g[j] = g[j - 1] \o s[j]
      BY <2>4, <3>2 DEF FlattenRec
    <3> QED BY <3>1, <3>2, <3>3 DEF j
  <2>7. \A i \in Nat : i \in T
    <3>1. T \in SUBSET Nat
      OBVIOUS
    <3> HIDE DEF T
    <3> QED BY <2>5, <2>6, <3>1, SetInduction
  <2>8. n - 1 \in Nat /\ (n - 1) + 1 = n /\ n \in 1..n
    BY <1>0, <1>2
  <2> QED BY <2>1, <2>7, <2>8
<1> QED BY <1>1, <1>2

LEMMA FlattenExists ==
    ASSUME NEW V, NEW s
    PROVE  s \in Seq(Seq(V)) => \E g \in [0..Len(s) -> Seq(V)] : FlattenRec(s, g)
<1>1. ASSUME s \in Seq(Seq(V)) PROVE \E g \in [0..Len(s) -> Seq(V)] : FlattenRec(s, g)
  <2> DEFINE n == Len(s)
             S == Seq(V)
             c == << >>
             st == [i \in 1..n |-> [y \in S |-> y \o s[i]]]
  <2>1. n \in Nat /\ c \in S
    BY <1>1
  <2>2. \A i \in 1..n : \A y \in S : y \o s[i] \in S
    BY <1>1
  <2> HIDE DEF n, c, S
  <2>3. st \in [1..n -> [S -> S]]
    <3>1. \A i \in 1..n : [y \in S |-> y \o s[i]] \in [S -> S]
      BY <2>2
    <3> QED BY <3>1
  <2>4. \A i \in 1..n, y \in S : st[i][y] = y \o s[i]
    OBVIOUS
  <2> HIDE DEF st
  <2>5. PICK g \in [0..n -> S] : g[0] = c /\ \A i \in 1..n : g[i] = st[i][g[i - 1]]
    BY <2>1, <2>3, RecExists
  <2>6. \A i \in 1..n : g[i - 1] \in S
    BY <2>1, <2>5
  <2>7. g[0] = c /\ \A i \in 1..n : g[i] = g[i - 1] \o s[i]
    BY <2>4, <2>5, <2>6
  <2> QED BY <2>5, <2>7 DEF FlattenRec, n, S, c
<1> QED BY <1>1

LEMMA FlattenAppend ==
    ASSUME NEW V, NEW s \in Seq(Seq(V)), NEW x \in Seq(V)
    PROVE  FlattenSeq(Append(s, x)) = FlattenSeq(s) \o x /\ FlattenSeq(s) \in Seq(V)
<1> DEFINE n == Len(s)
           t == Append(s, x)
<1>1. PICK g \in [0..n -> Seq(V)] : FlattenRec(s, g)
  BY FlattenExists
<1>2. FlattenSeq(s) = g[n]
  BY <1>1, FlattenIs
<1>3. n \in Nat /\ t \in Seq(Seq(V)) /\ Len(t) = n + 1 /\ t[n + 1] = x /\ \A i \in 1..n : t[i] = s[i]
  OBVIOUS
<1> DEFINE h == [i \in 0..(n + 1) |-> IF i <= n THEN g[i] ELSE g[n] \o x]
<1> HIDE DEF t, n
<1>4. g[n] \in Seq(V) /\ g[n] \o x \in Seq(V)
  BY <1>1, <1>3
<1>5. h \in [0..Len(t) -> Seq(V)]
  <2>1. \A i \in 0..(n + 1) : i <= n => i \in 0..n
    BY <1>3
  <2> QED BY <1>1, <1>3, <1>4, <2>1
<1>6. FlattenRec(t, h)
  <2>1. h[0] = << >>
    BY <1>1, <1>3 DEF FlattenRec
  <2>2. ASSUME NEW i \in 1..(n + 1) PROVE h[i] = h[i - 1] \o t[i]
    <3>1. CASE i <= n
      <4>1. i \in 1..n /\ h[i] = g[i] /\ h[i - 1] = g[i - 1] /\ t[i] = s[i]
        BY <1>3, <3>1
      <4> QED BY <1>1, <4>1 DEF FlattenRec, n
    <3>2. CASE i = n + 1
      <4>1. h[i] = g[n] \o x /\ h[i - 1] = g[n] /\ t[i] = x
        BY <1>3, <3>2
      <4> QED BY <4>1
    <3>3. i <= n \/ i = n + 1
      BY <1>3
    <3> QED BY <3>1, <3>2, <3>3
  <2> QED BY <1>3, <2>1, <2>2 DEF FlattenRec
<1>7. FlattenSeq(t) = h[Len(t)]
  <2> HIDE DEF h
  <2> QED BY <1>3, <1>5, <1>6, FlattenIs
<1>8. h[n + 1] = g[n] \o x
  BY <1>3
<1> QED BY <1>2, <1>3, <1>4, <1>7, <1>8 DEF t

(* The pieces of a transfer. *)
PieceOf == [addr : Nat, size : Nat]

Row(a, n) == [b \in 1..n |-> a + b - 1]

Spread(x) == Row(x.addr, x.size)

LEMMA BytesAppend ==
    ASSUME NEW done \in Seq(PieceOf), NEW x \in PieceOf
    PROVE  /\ Bytes(Append(done, x)) = Bytes(done) \o Spread(x)
           /\ Bytes(done) \in Seq(Nat) /\ Spread(x) \in Seq(Nat)
<1> DEFINE sp(y) == [b \in 1..y.size |-> IF y.addr = Nowhere THEN Nowhere ELSE y.addr + b - 1]
           M(d) == [i \in DOMAIN d |-> sp(d[i])]
           t == Append(done, x)
<1>1. \A y \in PieceOf : sp(y) = Spread(y) /\ Spread(y) \in Seq(Nat)
  <2> SUFFICES ASSUME NEW y \in PieceOf PROVE sp(y) = Spread(y) /\ Spread(y) \in Seq(Nat)
    OBVIOUS
  <2>1. y.addr \in Nat /\ y.size \in Nat /\ y.addr # Nowhere
    BY DEF PieceOf, Nowhere
  <2>2. \A b \in 1..y.size : y.addr + b - 1 \in Nat
    BY <2>1
  <2> QED BY <2>1, <2>2 DEF Spread, Row
<1>2. /\ t \in Seq(PieceOf) /\ Len(t) = Len(done) + 1 /\ t[Len(done) + 1] = x
      /\ \A i \in 1..Len(done) : t[i] = done[i]
  OBVIOUS
<1>3. Bytes(done) = FlattenSeq(M(done)) /\ Bytes(t) = FlattenSeq(M(t))
  BY DEF Bytes
<1>4. ASSUME NEW d \in Seq(PieceOf) PROVE M(d) = [i \in 1..Len(d) |-> Spread(d[i])] /\ M(d) \in Seq(Seq(Nat)) /\ Len(M(d)) = Len(d)
  <2>1. DOMAIN d = 1..Len(d) /\ Len(d) \in Nat /\ \A i \in 1..Len(d) : d[i] \in PieceOf
    OBVIOUS
  <2> HIDE DEF sp
  <2>2. M(d) = [i \in 1..Len(d) |-> Spread(d[i])]
    BY <1>1, <2>1
  <2>3. \A i \in 1..Len(d) : Spread(d[i]) \in Seq(Nat)
    BY <1>1, <2>1
  <2> HIDE DEF M
  <2> QED BY <2>1, <2>2, <2>3
<1> HIDE DEF M, sp, t
<1>5. M(t) = Append(M(done), Spread(x))
  <2> DEFINE A == Append(M(done), Spread(x))
  <2>1. /\ A \in Seq(Seq(Nat)) /\ Len(A) = Len(done) + 1 /\ A[Len(done) + 1] = Spread(x)
        /\ \A i \in 1..Len(done) : A[i] = Spread(done[i])
    BY <1>1, <1>4
  <2>2. /\ M(t) \in Seq(Seq(Nat)) /\ Len(M(t)) = Len(done) + 1
        /\ \A i \in 1..(Len(done) + 1) : M(t)[i] = Spread(t[i])
    BY <1>2, <1>4
  <2> HIDE DEF A
  <2>3. \A i \in 1..(Len(done) + 1) : A[i] = M(t)[i]
    <3> SUFFICES ASSUME NEW i \in 1..(Len(done) + 1) PROVE A[i] = M(t)[i]
      OBVIOUS
    <3>0. Len(done) \in Nat
      OBVIOUS
    <3>1. i \in 1..Len(done) \/ i = Len(done) + 1
      BY <3>0
    <3> QED BY <1>2, <2>1, <2>2, <3>1
  <2>4. A = M(t)
    BY <2>1, <2>2, <2>3, SeqEqual
  <2> QED BY <2>4 DEF A
<1>6. FlattenSeq(M(t)) = FlattenSeq(M(done)) \o Spread(x) /\ FlattenSeq(M(done)) \in Seq(Nat)
  BY <1>1, <1>4, <1>5, FlattenAppend
<1> QED BY <1>1, <1>3, <1>6 DEF t

LEMMA BytesEmpty == Bytes(<< >>) = << >>
<1>1. [i \in DOMAIN << >> |-> [b \in 1..(<< >>)[i].size |->
          IF (<< >>)[i].addr = Nowhere THEN Nowhere ELSE (<< >>)[i].addr + b - 1]] = << >>
  OBVIOUS
<1> QED BY <1>1 DEF Bytes, FlattenSeq

(* The host's buffer.  k pages hold Passed(off, k) bytes, and the next     *)
(* page begins at PageAt.                                                  *)
Passed(off, k) == IF k = 0 THEN 0 ELSE k * HostPage - off

PageAt(off, pages, k) == pages[k] * HostPage + (IF k = 1 THEN off ELSE 0)

LEMMA PageFacts ==
    ASSUME NEW off \in 0..(HostPage - 1), NEW k \in Nat
    PROVE  /\ HostPage \in Nat \ {0} /\ off \in Nat
           /\ Passed(off, k) \in Nat /\ Passed(off, 0) = 0
           /\ k > 0 => Passed(off, k) + off = k * HostPage
           /\ k > 0 => Passed(off, k + 1) = Passed(off, k) + HostPage
           /\ Passed(off, 1) = HostPage - off
<1>0. HostPage \in Nat \ {0} /\ off \in Nat /\ off < HostPage
  BY HostPageAssumption
<1>1. k * HostPage \in Nat /\ (k > 0 => k * HostPage >= HostPage)
  BY <1>0
<1>2. (k + 1) * HostPage = k * HostPage + HostPage
  BY <1>0
<1>3. 1 * HostPage = HostPage
  BY <1>0
<1>4. PICK m \in Nat : m = k * HostPage
  BY <1>1
<1> QED BY <1>0, <1>1, <1>2, <1>3, <1>4 DEF Passed

LEMMA HostByteIs ==
    ASSUME NEW off \in 0..(HostPage - 1), NEW k \in Nat, NEW pages, pages[k + 1] \in Nat,
           NEW b \in Nat \ {0}, b + (IF k = 0 THEN off ELSE 0) <= HostPage
    PROVE  HostByte(off, pages, Passed(off, k) + b - 1) = PageAt(off, pages, k + 1) + b - 1
<1> DEFINE r == (IF k = 0 THEN off ELSE 0) + b - 1
           x == pages[k + 1] * HostPage
<1>0. HostPage \in Nat \ {0} /\ off \in Nat
  BY HostPageAssumption
<1>1. r \in 0..(HostPage - 1)
  BY <1>0
<1>2. off + (Passed(off, k) + b - 1) = k * HostPage + r
  <2>1. CASE k = 0
    BY <1>0, <2>1, PageFacts
  <2>2. CASE k > 0
    <3>1. PICK m \in Nat, z \in Nat : m = Passed(off, k) /\ z = k * HostPage /\ m + off = z
      <4>1. Passed(off, k) \in Nat /\ Passed(off, k) + off = k * HostPage
        BY <2>2, PageFacts
      <4>2. k * HostPage \in Nat
        BY <1>0
      <4> QED BY <4>1, <4>2
    <3> QED BY <1>0, <2>2, <3>1
  <2> QED BY <2>1, <2>2
<1> HIDE DEF r
<1>3. (k * HostPage + r) % HostPage = r /\ (k * HostPage + r) \div HostPage = k
  BY <1>0, <1>1, ModOf
<1>4. HostByte(off, pages, Passed(off, k) + b - 1) = x + r
  BY <1>2, <1>3 DEF HostByte
<1>5. x \in Nat
  BY <1>0
<1>6. PageAt(off, pages, k + 1) = x + (IF k = 0 THEN off ELSE 0)
  <2>1. k + 1 = 1 <=> k = 0
    OBVIOUS
  <2> QED BY <2>1 DEF PageAt
<1> HIDE DEF x
<1> QED BY <1>0, <1>4, <1>5, <1>6 DEF r

(* The n bytes from m on lie in a row. *)
Straight(off, pages, m, n, a) == \A b \in 1..n : HostByte(off, pages, m + b - 1) = a + b - 1

LEMMA InOrderGrows ==
    ASSUME NEW off, NEW pages, NEW m \in Nat, NEW n \in Nat, NEW a \in Nat,
           Straight(off, pages, m, n, a),
           InOrder(off, pages, m) \in Seq(Nat)
    PROVE  /\ InOrder(off, pages, m) \o Row(a, n) = InOrder(off, pages, m + n)
           /\ InOrder(off, pages, m + n) \in Seq(Nat)
<1> DEFINE A == InOrder(off, pages, m)
           B == Row(a, n)
           C == A \o B
           D == InOrder(off, pages, m + n)
<1>1. B \in Seq(Nat) /\ Len(B) = n /\ \A b \in 1..n : B[b] = a + b - 1
  <2>1. \A b \in 1..n : a + b - 1 \in Nat
    OBVIOUS
  <2> QED BY <2>1 DEF Row
<1>2. A = [i \in 1..m |-> HostByte(off, pages, i - 1)] /\ Len(A) = m
  BY DEF InOrder
<1>3. D = [i \in 1..(m + n) |-> HostByte(off, pages, i - 1)]
  BY DEF InOrder
<1>0. A \in Seq(Nat)
  OBVIOUS
<1> HIDE DEF A, B, D
<1>4. C \in Seq(Nat) /\ Len(C) = m + n /\ \A i \in 1..(m + n) : C[i] = IF i <= m THEN A[i] ELSE B[i - m]
  <2>1. C \in Seq(Nat) /\ Len(C) = Len(A) + Len(B)
    BY <1>0, <1>1, ConcatProperties
  <2>2. \A i \in 1..(Len(A) + Len(B)) : C[i] = IF i <= Len(A) THEN A[i] ELSE B[i - Len(A)]
    BY <1>0, <1>1, ConcatProperties
  <2> HIDE DEF C
  <2> QED BY <1>1, <1>2, <2>1, <2>2
<1> HIDE DEF C
<1>5. \A i \in 1..(m + n) : C[i] = HostByte(off, pages, i - 1)
  <2> SUFFICES ASSUME NEW i \in 1..(m + n) PROVE C[i] = HostByte(off, pages, i - 1)
    OBVIOUS
  <2>1. CASE i <= m
    <3>1. i \in 1..m
      BY <2>1
    <3> QED BY <1>2, <1>4, <2>1, <3>1
  <2>2. CASE i > m
    <3> DEFINE b == i - m
    <3>1. b \in 1..n /\ m + b - 1 = i - 1 /\ ~(i <= m)
      BY <2>2
    <3>2. C[i] = B[b]
      BY <1>4, <3>1
    <3> HIDE DEF b
    <3>3. B[b] = HostByte(off, pages, m + b - 1)
      BY <1>1, <3>1 DEF Straight
    <3> QED BY <3>1, <3>2, <3>3
  <2> QED BY <2>1, <2>2
<1>6. C = [i \in 1..(m + n) |-> C[i]]
  BY <1>4
<1>7. C = D
  BY <1>3, <1>5, <1>6
<1> QED BY <1>4, <1>7 DEF C, A, B, D

(* A buffer with a page for each of n bytes, wherever it starts. *)
Roomy(pages, n) == pages \in Seq(Nat) /\ n \in Nat \ {0} /\ n + HostPage - 1 <= Len(pages) * HostPage

Used(off, n) == (off + n + HostPage - 1) \div HostPage

LEMMA TimesLess ==
    ASSUME NEW a \in Int, NEW b \in Int, NEW h \in Nat \ {0}, a * h < b * h
    PROVE  a < b
<1> SUFFICES ASSUME b <= a PROVE FALSE
  OBVIOUS
<1>1. PICK d \in Nat : a = b + d
  <2>1. a - b \in Nat /\ a = b + (a - b)
    OBVIOUS
  <2> QED BY <2>1
<1>2. (b + d) * h = b * h + d * h /\ d * h >= 0 /\ b * h \in Int /\ d * h \in Int
  OBVIOUS
<1>3. PICK x \in Int, y \in Int : x = b * h /\ y = d * h
  BY <1>2
<1> QED BY <1>1, <1>2, <1>3

LEMMA UsedFacts ==
    ASSUME NEW off \in 0..(HostPage - 1), NEW n \in Nat \ {0}
    PROVE  /\ Used(off, n) \in Nat \ {0}
           /\ off + n <= Used(off, n) * HostPage
           /\ Used(off, n) * HostPage < off + n + HostPage
<1> DEFINE t == off + n + HostPage - 1
           q == t \div HostPage
           x == HostPage * q
           m == t % HostPage
<1>0. HostPage \in Nat \ {0} /\ off \in Nat /\ t \in Nat
  BY HostPageAssumption
<1>1. q \in Nat /\ t = x + m /\ m \in 0..(HostPage - 1)
  <2> HIDE DEF t
  <2> QED BY <1>0, DivFacts
<1>2. Used(off, n) = q
  BY DEF Used
<1>3. q * HostPage = x /\ x \in Nat
  BY <1>0, <1>1
<1>4. q # 0
  <2> SUFFICES ASSUME q = 0 PROVE FALSE
    OBVIOUS
  <2>1. x = 0
    BY <1>0
  <2>2. t < HostPage
    BY <1>0, <1>1, <2>1
  <2> QED BY <1>0, <2>2
<1> HIDE DEF q, x, m
<1>5. off + n <= x /\ x < off + n + HostPage
  BY <1>0, <1>1, <1>3
<1> QED BY <1>1, <1>2, <1>3, <1>4, <1>5

(* The pages a transfer comes to are among those of the command. *)
LEMMA PageNamed ==
    ASSUME NEW off \in 0..(HostPage - 1), NEW pages, NEW n, Roomy(pages, n),
           NEW k \in Nat, Passed(off, k) < n
    PROVE  /\ k + 1 <= Used(off, n) /\ k + 1 <= Len(pages) /\ pages[k + 1] \in Nat
           /\ Used(off, n) <= Len(pages)
<1>0. HostPage \in Nat \ {0} /\ off \in Nat /\ off < HostPage /\ n \in Nat \ {0} /\ pages \in Seq(Nat)
  BY HostPageAssumption DEF Roomy
<1> DEFINE u == Used(off, n)
           L == Len(pages)
<1>1. u \in Nat \ {0} /\ off + n <= u * HostPage /\ u * HostPage < off + n + HostPage
  BY <1>0, UsedFacts
<1>2. L \in Nat /\ n + HostPage - 1 <= L * HostPage
  BY <1>0 DEF Roomy
<1> HIDE DEF u, L
<1>3. k < u
  <2>1. k * HostPage < off + n
    <3>1. CASE k = 0
      BY <1>0, <3>1
    <3>2. CASE k > 0
      <4>1. Passed(off, k) + off = k * HostPage /\ Passed(off, k) \in Nat
        BY <3>2, PageFacts
      <4>2. PICK m \in Nat : m = Passed(off, k)
        BY <4>1
      <4>3. m + off < off + n
        BY <1>0, <4>2
      <4> QED BY <4>1, <4>2, <4>3
    <3> QED BY <3>1, <3>2
  <2>2. k * HostPage < u * HostPage
    <3>1. k * HostPage \in Int /\ u * HostPage \in Int
      BY <1>0, <1>1
    <3> QED BY <1>0, <1>1, <2>1, <3>1
  <2> QED BY <1>0, <1>1, <2>2, TimesLess
<1>4. u <= L
  <2>1. (L + 1) * HostPage = L * HostPage + HostPage /\ L * HostPage \in Int /\ u * HostPage \in Int
    BY <1>0, <1>1, <1>2
  <2>2. PICK x \in Int, y \in Int : x = L * HostPage /\ y = u * HostPage
    BY <2>1
  <2>3. y < off + n + HostPage /\ n + HostPage - 1 <= x
    BY <1>1, <1>2, <2>2
  <2>4. y < x + HostPage
    BY <1>0, <2>3
  <2>5. u * HostPage < (L + 1) * HostPage
    BY <2>1, <2>2, <2>4
  <2>6. u < L + 1
    BY <1>0, <1>1, <1>2, <2>5, TimesLess
  <2> QED BY <1>1, <1>2, <2>6
<1>5. k + 1 <= u /\ k + 1 <= L /\ k + 1 \in 1..L
  BY <1>1, <1>2, <1>3, <1>4
<1> QED BY <1>0, <1>4, <1>5 DEF u, L

LEMMA PrpsAre ==
    ASSUME NEW off \in 0..(HostPage - 1), NEW pages, NEW n, Roomy(pages, n), NEW p, p = Prps(off, pages, n)
    PROVE  /\ p.prp1 = PageAt(off, pages, 1)
           /\ Used(off, n) = 2 => Direct(p) = PageAt(off, pages, 2)
           /\ Used(off, n) >= 3 => \A i \in 1..(Used(off, n) - 1) : ListEntry(p, i) = PageAt(off, pages, i + 1)
<1> DEFINE addr(i) == pages[i] * HostPage
           u == Used(off, n)
           two == CASE u = 1 -> [kind |-> "none"]
                    [] u = 2 -> [kind |-> "page", addr |-> addr(2)]
                    [] OTHER -> [kind |-> "list", addrs |-> [i \in 1..(u - 1) |-> addr(i + 1)]]
<1>0. HostPage \in Nat \ {0} /\ off \in Nat /\ n \in Nat \ {0} /\ pages \in Seq(Nat)
  BY HostPageAssumption DEF Roomy
<1>1. u \in Nat \ {0}
  BY <1>0, UsedFacts
<1>2. p = [prp1 |-> addr(1) + off, prp2 |-> two]
  BY DEF Prps, Used
<1>3. p.prp1 = addr(1) + off /\ p.prp2 = two
  BY <1>2
<1>4. p.prp1 = PageAt(off, pages, 1)
  BY <1>3 DEF PageAt
<1>5. \A j \in 2..u : PageAt(off, pages, j) = addr(j)
  <2> SUFFICES ASSUME NEW j \in 2..u PROVE PageAt(off, pages, j) = addr(j)
    OBVIOUS
  <2>1. u <= Len(pages)
    BY <1>0, PageFacts, PageNamed
  <2>2. pages[j] \in Nat
    BY <1>0, <1>1, <2>1
  <2>3. pages[j] * HostPage \in Nat
    BY <1>0, <2>2
  <2> QED BY <2>3 DEF PageAt
<1>6. ASSUME u = 2 PROVE Direct(p) = PageAt(off, pages, 2)
  <2>1. two = [kind |-> "page", addr |-> addr(2)]
    BY <1>6
  <2> QED BY <1>3, <1>5, <2>1 DEF Direct
<1>7. ASSUME u >= 3, NEW i \in 1..(u - 1) PROVE ListEntry(p, i) = PageAt(off, pages, i + 1)
  <2>1. two = [kind |-> "list", addrs |-> [j \in 1..(u - 1) |-> addr(j + 1)]]
    BY <1>1, <1>7
  <2>2. ListEntry(p, i) = addr(i + 1)
    BY <1>3, <1>7, <2>1 DEF ListEntry
  <2> QED BY <1>1, <1>5, <1>7, <2>2
<1> QED BY <1>4, <1>6, <1>7

(* The device finds the page, by the bytes that remain or by the flag. *)
LEMMA PieceFound ==
    ASSUME NEW off \in 0..(HostPage - 1), NEW pages, NEW n, Roomy(pages, n), NEW p, p = Prps(off, pages, n),
           NEW d \in 0..n, NEW adjusted \in BOOLEAN, adjusted => n > 2 * HostPage, ~adjusted => d = n,
           NEW k \in Nat, NEW rem \in Nat \ {0}, Passed(off, k) + rem = d
    PROVE  /\ PieceAddr(p, k + 1, rem, adjusted) = PageAt(off, pages, k + 1)
           /\ pages[k + 1] \in Nat /\ k + 1 <= Used(off, n)
<1> DEFINE u == Used(off, n)
           a == Passed(off, k)
<1>0. HostPage \in Nat \ {0} /\ off \in Nat /\ off < HostPage /\ n \in Nat \ {0}
  BY HostPageAssumption DEF Roomy
<1>1. a \in Nat /\ a < n
  BY <1>0, PageFacts
<1>2. pages[k + 1] \in Nat /\ k + 1 <= u
  BY <1>1, PageNamed
<1>3. u \in Nat \ {0} /\ off + n <= u * HostPage /\ u * HostPage < off + n + HostPage
  BY <1>0, UsedFacts
<1>4. /\ p.prp1 = PageAt(off, pages, 1)
      /\ u = 2 => Direct(p) = PageAt(off, pages, 2)
      /\ u >= 3 => \A i \in 1..(u - 1) : ListEntry(p, i) = PageAt(off, pages, i + 1)
  BY PrpsAre
<1> SUFFICES PieceAddr(p, k + 1, rem, adjusted) = PageAt(off, pages, k + 1)
  BY <1>2
<1> HIDE DEF u
<1>5. CASE k = 0
  BY <1>2, <1>4, <1>5 DEF PieceAddr
<1>6. CASE k = 1
  <2>1. a = HostPage - off
    BY <1>6, PageFacts
  <2>2. CASE rem > HostPage \/ adjusted
    <3>1. off + n > 2 * HostPage
      BY <1>0, <2>1, <2>2
    <3>2. u >= 3
      <4>1. 2 * HostPage < u * HostPage
        <5>1. u * HostPage \in Int
          BY <1>0, <1>3
        <5> QED BY <1>0, <1>3, <3>1, <5>1
      <4>2. 2 < u
        BY <1>0, <1>3, <4>1, TimesLess
      <4> QED BY <1>3, <4>2
    <3>3. 1 \in 1..(u - 1) /\ ListEntry(p, 1) = PageAt(off, pages, 2)
      BY <1>3, <1>4, <3>2
    <3>4. PieceAddr(p, 2, rem, adjusted) = ListEntry(p, 1)
      BY <2>2 DEF PieceAddr
    <3> QED BY <1>2, <1>6, <3>3, <3>4
  <2>3. CASE ~(rem > HostPage \/ adjusted)
    <3>1. d = n /\ off + n <= 2 * HostPage /\ off + n > HostPage
      BY <1>0, <2>1, <2>3
    <3>2. u = 2
      <4>1. u * HostPage < 3 * HostPage /\ 1 * HostPage < u * HostPage
        <5>1. u * HostPage \in Int
          BY <1>0, <1>3
        <5> QED BY <1>0, <1>3, <3>1, <5>1
      <4>2. u < 3 /\ 1 < u
        BY <1>0, <1>3, <4>1, TimesLess
      <4> QED BY <1>3, <4>2
    <3>3. PieceAddr(p, 2, rem, adjusted) = Direct(p)
      BY <2>3 DEF PieceAddr
    <3> QED BY <1>2, <1>4, <1>6, <3>2, <3>3
  <2> QED BY <2>2, <2>3
<1>7. CASE k >= 2
  <2>1. u >= 3 /\ k \in 1..(u - 1)
    BY <1>2, <1>3, <1>7
  <2>2. PieceAddr(p, k + 1, rem, adjusted) = ListEntry(p, (k + 1) - 1)
    BY <1>7 DEF PieceAddr
  <2>3. (k + 1) - 1 = k
    OBVIOUS
  <2> QED BY <1>2, <1>4, <2>1, <2>2, <2>3
<1> QED BY <1>5, <1>6, <1>7

LEMMA PieceSizeIs ==
    ASSUME NEW off \in 0..(HostPage - 1), NEW pages, NEW k \in Nat, pages[k + 1] \in Nat, NEW rem \in Nat \ {0}
    PROVE  /\ PageAt(off, pages, k + 1) \in Nat
           /\ PieceSize(PageAt(off, pages, k + 1), rem) = AtMost(rem, HostPage - (IF k = 0 THEN off ELSE 0))
<1> DEFINE r == IF k = 0 THEN off ELSE 0
           x == pages[k + 1] * HostPage
<1>0. HostPage \in Nat \ {0} /\ r \in 0..(HostPage - 1)
  BY HostPageAssumption
<1>1. PageAt(off, pages, k + 1) = x + r
  <2>1. k + 1 = 1 <=> k = 0
    OBVIOUS
  <2> QED BY <2>1 DEF PageAt
<1>2. (x + r) % HostPage = r
  <2> HIDE DEF r
  <2> QED BY <1>0, ModOf
<1>3. x \in Nat
  BY <1>0
<1> HIDE DEF x, r
<1>4. PieceSize(x + r, rem) = AtMost(rem, HostPage - r)
  BY <1>0, <1>2 DEF PieceSize, AtMost
<1>5. x + r \in Nat
  BY <1>0, <1>3
<1> QED BY <1>1, <1>4, <1>5 DEF r

(* A walk for d bytes, between two rounds: what it has done so far is in   *)
(* the order of the buffer, and it stands at the beginning of a page.      *)
WalkOf(off, pages, d) ==
    {w \in [rem : 0..d, done : Seq(PieceOf)] :
        /\ Bytes(w.done) = InOrder(off, pages, d - w.rem)
        /\ w.rem > 0 => d - w.rem = Passed(off, Len(w.done))
        /\ w.rem = 0 => d <= Passed(off, Len(w.done))
        /\ \A j \in 1..Len(w.done) : w.done[j].addr = PageAt(off, pages, j) /\ pages[j] \in Nat}

LEMMA WalkStart ==
    ASSUME NEW off \in 0..(HostPage - 1), NEW pages, NEW d \in Nat
    PROVE  [rem |-> d, done |-> << >>] \in WalkOf(off, pages, d)
<1> DEFINE w == [rem |-> d, done |-> << >>]
<1>1. w \in [rem : 0..d, done : Seq(PieceOf)] /\ w.rem = d /\ w.done = << >> /\ Len(w.done) = 0 /\ d - w.rem = 0
  OBVIOUS
<1>2. InOrder(off, pages, 0) = << >>
  BY DEF InOrder
<1>3. Passed(off, 0) = 0
  BY DEF Passed
<1>4. 1..0 = {}
  OBVIOUS
<1> HIDE DEF w
<1> QED BY <1>1, <1>2, <1>3, <1>4, BytesEmpty DEF WalkOf, w

LEMMA WalkStep ==
    ASSUME NEW off \in 0..(HostPage - 1), NEW pages, NEW n, Roomy(pages, n), NEW p, p = Prps(off, pages, n),
           NEW d \in 0..n, NEW adjusted \in BOOLEAN, adjusted => n > 2 * HostPage, ~adjusted => d = n,
           NEW w \in WalkOf(off, pages, d)
    PROVE  /\ Round(p, adjusted, w) \in WalkOf(off, pages, d)
           /\ w.rem = 0 => Round(p, adjusted, w) = w
           /\ w.rem > 0 => Round(p, adjusted, w).rem < w.rem
<1>0. HostPage \in Nat \ {0} /\ off \in Nat /\ n \in Nat /\ d \in Nat
  BY HostPageAssumption DEF Roomy
<1>1. /\ w.rem \in 0..d /\ w.done \in Seq(PieceOf)
      /\ Bytes(w.done) = InOrder(off, pages, d - w.rem)
      /\ w.rem > 0 => d - w.rem = Passed(off, Len(w.done))
      /\ \A j \in 1..Len(w.done) : w.done[j].addr = PageAt(off, pages, j) /\ pages[j] \in Nat
  BY DEF WalkOf
<1>2. CASE w.rem = 0
  <2>1. Round(p, adjusted, w) = w
    BY <1>2 DEF Round
  <2> QED BY <1>2, <2>1
<1>3. CASE w.rem > 0
  <2> DEFINE k == Len(w.done)
             m == d - w.rem
             a == PieceAddr(p, k + 1, w.rem, adjusted)
             s == PieceSize(a, w.rem)
             x == [addr |-> a, size |-> s]
             v == [rem |-> w.rem - s, done |-> Append(w.done, x)]
             z == IF k = 0 THEN off ELSE 0
             c == HostPage - z
  <2>0. Round(p, adjusted, w) = v
    BY <1>3 DEF Round
  <2>1. k \in Nat /\ m \in Nat /\ m = Passed(off, k) /\ w.rem \in Nat \ {0} /\ Passed(off, k) + w.rem = d
    BY <1>0, <1>1, <1>3
  <2>2. a = PageAt(off, pages, k + 1) /\ pages[k + 1] \in Nat
    BY <2>1, PieceFound
  <2>3. a \in Nat /\ s = AtMost(w.rem, c)
    BY <2>1, <2>2, PieceSizeIs
  <2>4. c \in 1..HostPage /\ Passed(off, k + 1) = Passed(off, k) + c
    <3>1. CASE k = 0
      BY <1>0, <3>1, PageFacts
    <3>2. CASE k > 0
      <4>1. c = HostPage
        BY <1>0, <3>2
      <4>2. Passed(off, k + 1) = Passed(off, k) + HostPage
        BY <2>1, <3>2, PageFacts
      <4> QED BY <1>0, <4>1, <4>2
    <3> QED BY <2>1, <3>1, <3>2
  <2>5. Append(w.done, x) \in Seq(PieceOf) /\ Len(Append(w.done, x)) = k + 1 /\ x \in PieceOf
        /\ Append(w.done, x)[k + 1] = x /\ \A j \in 1..k : Append(w.done, x)[j] = w.done[j]
    <3>1. s \in Nat
      BY <2>1, <2>3, <2>4 DEF AtMost
    <3>2. x \in PieceOf
      BY <2>3, <3>1 DEF PieceOf
    <3> HIDE DEF x
    <3> QED BY <1>1, <3>2
  <2>6. x.addr = a /\ x.size = s /\ v.rem = w.rem - s /\ v.done = Append(w.done, x)
    OBVIOUS
  <2> HIDE DEF a, s, x, v
  <2>7. s \in 1..w.rem /\ s <= c /\ (s < w.rem => s = c) /\ w.rem - s \in 0..d /\ d - (w.rem - s) = m + s
    <3> HIDE DEF c
    <3>1. PICK r \in Nat \ {0}, y \in Nat \ {0} : r = w.rem /\ y = c
      BY <1>0, <2>1, <2>4
    <3>2. r \in 0..d /\ m = d - r /\ s = IF r <= y THEN r ELSE y
      BY <1>1, <2>3, <3>1 DEF AtMost
    <3> HIDE DEF m
    <3>3. s \in 1..r /\ s <= y /\ (s < r => s = y) /\ r - s \in 0..d /\ d - (r - s) = m + s
      BY <1>0, <3>2
    <3> QED BY <3>1, <3>3
  <2>8. Bytes(v.done) = InOrder(off, pages, m + s)
    <3>1. Straight(off, pages, m, s, a)
      <4> SUFFICES ASSUME NEW b \in 1..s PROVE HostByte(off, pages, m + b - 1) = a + b - 1
        BY DEF Straight
      <4>1. b \in Nat \ {0} /\ b + z <= HostPage
        <5>1. z \in Nat /\ c = HostPage - z
          BY <1>0
        <5>2. PICK r \in Nat : r = w.rem
          BY <2>1
        <5>3. s \in 1..r /\ s <= c
          BY <2>7, <5>2
        <5> HIDE DEF z, c
        <5> QED BY <1>0, <5>1, <5>3
      <4>2. HostByte(off, pages, Passed(off, k) + b - 1) = PageAt(off, pages, k + 1) + b - 1
        BY <2>1, <2>2, <4>1, HostByteIs
      <4> QED BY <2>1, <2>2, <4>2
    <3>2. Bytes(Append(w.done, x)) = Bytes(w.done) \o Spread(x) /\ Bytes(w.done) \in Seq(Nat)
      BY <1>1, <2>5, BytesAppend
    <3>3. Spread(x) = Row(a, s)
      BY <2>6 DEF Spread
    <3>4. InOrder(off, pages, m) \o Row(a, s) = InOrder(off, pages, m + s)
      <4>1. m \in Nat /\ a \in Nat /\ s \in Nat /\ InOrder(off, pages, m) \in Seq(Nat)
        BY <1>1, <2>1, <2>3, <2>7, <3>2
      <4> HIDE DEF m
      <4> QED BY <3>1, <4>1, InOrderGrows, Zenon
    <3> QED BY <1>1, <2>6, <3>2, <3>3, <3>4
  <2>9. v \in [rem : 0..d, done : Seq(PieceOf)]
    BY <2>5, <2>7 DEF v
  <2>10. Bytes(v.done) = InOrder(off, pages, d - v.rem)
    BY <2>6, <2>7, <2>8
  <2>11. v.rem > 0 => d - v.rem = Passed(off, Len(v.done))
    <3>1. ASSUME v.rem > 0 PROVE d - v.rem = Passed(off, k + 1)
      <4>1. s = c
        BY <1>1, <2>1, <2>6, <2>7, <3>1
      <4> HIDE DEF m, c
      <4> QED BY <2>1, <2>4, <2>6, <2>7, <4>1
    <3> QED BY <2>5, <2>6, <3>1
  <2>12. v.rem = 0 => d <= Passed(off, Len(v.done))
    <3>1. ASSUME v.rem = 0 PROVE d <= Passed(off, k + 1)
      <4>1. s = w.rem
        BY <1>1, <2>1, <2>6, <2>7, <3>1
      <4>2. d = m + s
        BY <1>0, <2>1, <4>1
      <4> HIDE DEF m, c
      <4> QED BY <2>1, <2>4, <2>7, <4>2
    <3> QED BY <2>5, <2>6, <3>1
  <2>13. \A j \in 1..Len(v.done) : v.done[j].addr = PageAt(off, pages, j) /\ pages[j] \in Nat
    <3> SUFFICES ASSUME NEW j \in 1..(k + 1)
                 PROVE  Append(w.done, x)[j].addr = PageAt(off, pages, j) /\ pages[j] \in Nat
      BY <2>5, <2>6
    <3>1. CASE j \in 1..k
      BY <1>1, <2>5, <3>1
    <3>2. CASE j = k + 1
      BY <2>2, <2>5, <2>6, <3>2
    <3>3. j \in 1..k \/ j = k + 1
      BY <2>1
    <3> QED BY <3>1, <3>2, <3>3
  <2>14. v \in WalkOf(off, pages, d)
    BY <2>9, <2>10, <2>11, <2>12, <2>13 DEF WalkOf
  <2>15. v.rem < w.rem
    BY <1>1, <2>1, <2>6, <2>7
  <2> QED BY <1>3, <2>0, <2>14, <2>15
<1>4. w.rem = 0 \/ w.rem > 0
  BY <1>0, <1>1
<1> QED BY <1>2, <1>3, <1>4

(* n rounds are enough for n bytes. *)
LEMMA WalkEnds ==
    ASSUME NEW off \in 0..(HostPage - 1), NEW pages, NEW n, Roomy(pages, n), NEW p, p = Prps(off, pages, n),
           NEW d \in 0..n, NEW adjusted \in BOOLEAN, adjusted => n > 2 * HostPage, ~adjusted => d = n
    PROVE  \E w \in WalkOf(off, pages, d) : w.rem = 0 /\ Pieces(p, d, adjusted) = w.done
<1> DEFINE S == WalkOf(off, pages, d)
           c == [rem |-> d, done |-> << >>]
           R(w) == Round(p, adjusted, w)
           st == [i \in 1..d |-> [w \in S |-> R(w)]]
           Eq(f) == f = [i \in 0..d |-> IF i = 0 THEN c ELSE R(f[i - 1])]
           F == CHOOSE f : Eq(f)
<1>0. d \in Nat /\ n \in Nat
  BY DEF Roomy
<1>1. c \in S
  BY <1>0, WalkStart
<1>2. \A w \in S : R(w) \in S /\ (w.rem = 0 => R(w) = w) /\ (w.rem > 0 => R(w).rem < w.rem)
  BY WalkStep
<1>3. \A w \in S : w.rem \in 0..d
  BY DEF WalkOf
<1>4. Pieces(p, d, adjusted) = F[d].done
  BY DEF Pieces
<1>5. c.rem = d
  OBVIOUS
<1> HIDE DEF S, c, R
<1>6. st \in [1..d -> [S -> S]] /\ \A i \in 1..d, w \in S : st[i][w] = R(w)
  <2>1. [w \in S |-> R(w)] \in [S -> S]
    BY <1>2
  <2> QED BY <2>1
<1> HIDE DEF st
<1>7. PICK g \in [0..d -> S] : g[0] = c /\ \A i \in 1..d : g[i] = st[i][g[i - 1]]
  BY <1>0, <1>1, <1>6, RecExists
<1>8. \A i \in 1..d : g[i - 1] \in S /\ g[i] = R(g[i - 1])
  <2> SUFFICES ASSUME NEW i \in 1..d PROVE g[i - 1] \in S /\ g[i] = R(g[i - 1])
    OBVIOUS
  <2>1. g[i - 1] \in S
    BY <1>0, <1>7
  <2> QED BY <1>6, <1>7, <2>1
<1>9. Eq(g)
  <2> DEFINE B(i) == IF i = 0 THEN c ELSE R(g[i - 1])
  <2>1. ASSUME NEW i \in 0..d PROVE g[i] = B(i)
    BY <1>0, <1>7, <1>8
  <2>2. g = [i \in 0..d |-> g[i]]
    BY <1>7
  <2> HIDE DEF B
  <2>3. g = [i \in 0..d |-> B(i)]
    BY <2>1, <2>2
  <2> QED BY <2>3 DEF B
<1>10. Eq(F)
  <2> HIDE DEF Eq
  <2> QED BY <1>9
<1> HIDE DEF F
<1>11. F[0] = c /\ \A i \in 1..d : F[i] = R(F[i - 1])
  BY <1>0, <1>10
<1> DEFINE T == {i \in Nat : i <= d => F[i] \in S /\ F[i].rem <= d - i}
<1>12. 0 \in T
  BY <1>0, <1>1, <1>5, <1>11
<1>13. ASSUME NEW i \in T PROVE i + 1 \in T
  <2> SUFFICES ASSUME i + 1 <= d PROVE F[i + 1] \in S /\ F[i + 1].rem <= d - (i + 1)
    BY <1>13
  <2> DEFINE w == F[i]
             v == F[i + 1]
  <2>1. i \in Nat /\ i <= d /\ w \in S /\ w.rem <= d - i
    BY <1>0, <1>13
  <2>2. v = R(w)
    <3>1. i + 1 \in 1..d /\ (i + 1) - 1 = i
      BY <1>0, <2>1
    <3> QED BY <1>11, <3>1
  <2> HIDE DEF w, v
  <2>3. v \in S /\ (w.rem = 0 => v = w) /\ (w.rem > 0 => v.rem < w.rem)
    BY <1>2, <2>1, <2>2
  <2>4. PICK x \in Nat, y \in Nat : x = w.rem /\ y = v.rem
    BY <1>3, <2>1, <2>3
  <2>5. x <= d - i /\ (x = 0 => y = 0) /\ (x > 0 => y < x)
    BY <2>1, <2>3, <2>4
  <2>6. y <= d - (i + 1)
    BY <1>0, <2>1, <2>5
  <2> QED BY <2>3, <2>4, <2>6 DEF v
<1>14. \A i \in Nat : i \in T
  <2>1. T \in SUBSET Nat
    OBVIOUS
  <2> HIDE DEF T
  <2> QED BY <1>12, <1>13, <2>1, SetInduction
<1>15. F[d] \in S /\ F[d].rem <= d - d
  BY <1>0, <1>14
<1>16. F[d].rem = 0
  BY <1>0, <1>3, <1>15
<1> QED BY <1>4, <1>15, <1>16 DEF S

(* A walk over the PRPs stores every byte where the host expects it. *)
LEMMA WalkInOrder ==
    ASSUME NEW off \in 0..(HostPage - 1), NEW pages, NEW n, Roomy(pages, n), NEW p, p = Prps(off, pages, n),
           NEW d \in 0..n, NEW adjusted \in BOOLEAN, adjusted => n > 2 * HostPage, ~adjusted => d = n
    PROVE  Bytes(Pieces(p, d, adjusted)) = InOrder(off, pages, d)
<1>1. PICK w \in WalkOf(off, pages, d) : w.rem = 0 /\ Pieces(p, d, adjusted) = w.done
  BY WalkEnds
<1>2. Bytes(w.done) = InOrder(off, pages, d - w.rem)
  BY DEF WalkOf
<1>3. d \in Nat
  BY DEF Roomy
<1>4. d - 0 = d
  BY <1>3
<1> QED BY <1>1, <1>2, <1>4

(* The addresses that the DMA path has collected for n bytes. *)
Collected(off, pages, n, addrs) ==
    /\ addrs \in Seq(Nat) /\ n <= Passed(off, Len(addrs))
    /\ \A j \in 1..Len(addrs) : addrs[j] = PageAt(off, pages, j) /\ pages[j] \in Nat

LEMMA JoinedFacts ==
    ASSUME NEW addrs \in Seq(Nat), NEW k \in 1..Len(addrs)
    PROVE  /\ JoinedUpTo(addrs, k) \in k..Len(addrs)
           /\ \A j \in (k + 1)..JoinedUpTo(addrs, k) : addrs[j] = addrs[j - 1] + HostPage
<1> DEFINE L == Len(addrs)
           breaks == {j \in (k + 1)..L : addrs[j] # addrs[j - 1] + HostPage}
           b == CHOOSE j \in breaks : \A i \in breaks : j <= i
<1>0. L \in Nat /\ k \in Nat /\ k <= L
  OBVIOUS
<1>1. JoinedUpTo(addrs, k) = IF breaks = {} THEN L ELSE b - 1
  BY DEF JoinedUpTo
<1>2. CASE breaks = {}
  <2>1. \A j \in (k + 1)..L : addrs[j] = addrs[j - 1] + HostPage
    BY <1>2
  <2> HIDE DEF breaks
  <2>2. JoinedUpTo(addrs, k) = L
    BY <1>1, <1>2
  <2> QED BY <1>0, <2>1, <2>2
<1>3. CASE breaks # {}
  <2>1. breaks \in SUBSET Nat
    BY <1>0
  <2>2. \E j \in breaks : \A i \in breaks : j <= i
    <3> HIDE DEF breaks
    <3> QED BY <1>3, <2>1, LeastElement
  <2>3. b \in breaks /\ \A i \in breaks : b <= i
    <3> HIDE DEF breaks
    <3> QED BY <2>2
  <2>4. JoinedUpTo(addrs, k) = b - 1
    <3> HIDE DEF breaks, b
    <3> QED BY <1>1, <1>3
  <2> HIDE DEF b
  <2>5. b \in (k + 1)..L
    BY <2>3
  <2>6. \A j \in (k + 1)..(b - 1) : addrs[j] = addrs[j - 1] + HostPage
    <3> SUFFICES ASSUME NEW j \in (k + 1)..(b - 1) PROVE addrs[j] = addrs[j - 1] + HostPage
      OBVIOUS
    <3>1. j \in (k + 1)..L /\ ~(b <= j)
      BY <1>0, <2>5
    <3>2. j \notin breaks
      <4> HIDE DEF breaks
      <4> QED BY <2>3, <3>1
    <3> QED BY <3>1, <3>2
  <2>7. b - 1 \in k..L
    BY <1>0, <2>5
  <2> QED BY <2>4, <2>6, <2>7
<1> QED BY <1>2, <1>3

LEMMA JoinedRow ==
    ASSUME NEW addrs \in Seq(Nat), NEW k \in 1..Len(addrs)
    PROVE  \A j \in k..JoinedUpTo(addrs, k) : addrs[j] = addrs[k] + (j - k) * HostPage
<1> DEFINE l == JoinedUpTo(addrs, k)
           T == {i \in Nat : k + i <= l => addrs[k + i] = addrs[k] + i * HostPage}
<1>0. HostPage \in Nat \ {0} /\ Len(addrs) \in Nat /\ k \in Nat /\ l \in k..Len(addrs) /\ l \in Nat /\ addrs[k] \in Nat
  BY HostPageAssumption, JoinedFacts
<1>1. \A j \in (k + 1)..l : addrs[j] = addrs[j - 1] + HostPage
  BY JoinedFacts
<1> HIDE DEF l
<1>2. 0 \in T
  <2>1. k + 0 = k /\ 0 * HostPage = 0 /\ addrs[k] + 0 = addrs[k]
    BY <1>0
  <2> QED BY <2>1
<1>3. ASSUME NEW i \in T PROVE i + 1 \in T
  <2> SUFFICES ASSUME k + (i + 1) <= l PROVE addrs[k + (i + 1)] = addrs[k] + (i + 1) * HostPage
    BY <1>3
  <2>1. i \in Nat /\ k + (i + 1) \in (k + 1)..l /\ (k + (i + 1)) - 1 = k + i /\ k + i <= l
    BY <1>0, <1>3
  <2>2. addrs[k + i] = addrs[k] + i * HostPage
    BY <1>3, <2>1
  <2>3. addrs[k + (i + 1)] = addrs[k + i] + HostPage
    BY <1>1, <2>1
  <2>4. (i + 1) * HostPage = i * HostPage + HostPage /\ i * HostPage \in Nat
    BY <1>0, <2>1
  <2>5. PICK x \in Nat, y \in Nat : x = i * HostPage /\ y = addrs[k]
    BY <1>0, <2>4
  <2> QED BY <1>0, <2>2, <2>3, <2>4, <2>5
<1>4. \A i \in Nat : i \in T
  <2>1. T \in SUBSET Nat
    OBVIOUS
  <2> HIDE DEF T
  <2> QED BY <1>2, <1>3, <2>1, SetInduction
<1>5. ASSUME NEW j \in k..l PROVE addrs[j] = addrs[k] + (j - k) * HostPage
  <2>1. j - k \in Nat /\ k + (j - k) = j /\ j <= l
    BY <1>0
  <2>2. j - k \in T
    BY <1>4, <2>1
  <2> QED BY <2>1, <2>2
<1> QED BY <1>5 DEF l

(* Only a buffer that starts with a page is joined from its first page on. *)
LEMMA JoinedAligned ==
    ASSUME NEW off \in 0..(HostPage - 1), NEW pages, NEW n \in Nat, NEW addrs, Collected(off, pages, n, addrs),
           JoinedUpTo(addrs, 1) > 1, Len(addrs) >= 1
    PROVE  off = 0
<1> DEFINE l == JoinedUpTo(addrs, 1)
           x == pages[1]
           y == pages[2]
<1>0. HostPage \in Nat \ {0} /\ off \in Nat /\ addrs \in Seq(Nat) /\ Len(addrs) \in Nat
  BY HostPageAssumption DEF Collected
<1>1. 1 \in 1..Len(addrs)
  BY <1>0
<1>2. l \in 1..Len(addrs) /\ \A j \in (1 + 1)..l : addrs[j] = addrs[j - 1] + HostPage
  BY <1>0, <1>1, JoinedFacts
<1> HIDE DEF l
<1>3. 2 \in (1 + 1)..l /\ 2 - 1 = 1 /\ 2 \in 1..Len(addrs)
  BY <1>0, <1>2 DEF l
<1>4. addrs[2] = addrs[1] + HostPage
  BY <1>2, <1>3
<1>5. x \in Nat /\ y \in Nat /\ addrs[1] = x * HostPage + off /\ addrs[2] = y * HostPage + 0
  BY <1>1, <1>3 DEF Collected, PageAt
<1> HIDE DEF x, y
<1>6. (y * HostPage + 0) % HostPage = 0
  <2>1. y \in Nat /\ 0 \in 0..(HostPage - 1)
    BY <1>0, <1>5
  <2>2. HostPage \in Nat \ {0}
    BY <1>0
  <2> QED BY <2>1, <2>2, ModOf
<1>7. ((x + 1) * HostPage + off) % HostPage = off
  <2>1. PICK q \in Nat : q = x + 1
    BY <1>5
  <2>2. HostPage \in Nat \ {0}
    BY <1>0
  <2>3. (q * HostPage + off) % HostPage = off
    BY <2>2, ModOf
  <2> QED BY <2>1, <2>3
<1>8. (x + 1) * HostPage + off = y * HostPage + 0
  <2>1. (x + 1) * HostPage = x * HostPage + HostPage /\ x * HostPage \in Nat
    BY <1>0, <1>5
  <2>2. PICK a \in Nat : a = x * HostPage
    BY <2>1
  <2>3. (x + 1) * HostPage + off = addrs[1] + HostPage
    BY <1>0, <1>5, <2>1, <2>2
  <2> QED BY <1>4, <1>5, <2>3
<1> QED BY <1>6, <1>7, <1>8

(* What pages k + 1 to l hold. *)
Span(off, k, l) == HostPage - (IF k = 0 THEN off ELSE 0) + (l - (k + 1)) * HostPage

(* The bytes of joined pages lie in a row. *)
LEMMA JoinedStraight ==
    ASSUME NEW off \in 0..(HostPage - 1), NEW pages, NEW n \in Nat, NEW addrs, Collected(off, pages, n, addrs),
           NEW k \in Nat, k + 1 <= Len(addrs), NEW l, l = JoinedUpTo(addrs, k + 1),
           NEW c, c = Span(off, k, l),
           NEW s \in Nat, s <= c
    PROVE  /\ Straight(off, pages, Passed(off, k), s, addrs[k + 1])
           /\ l \in (k + 1)..Len(addrs) /\ c \in Nat \ {0} /\ Passed(off, l) = Passed(off, k) + c
<1> DEFINE z == IF k = 0 THEN off ELSE 0
           e == l - (k + 1)
<1>0. /\ HostPage \in Nat \ {0} /\ off \in Nat /\ z \in 0..(HostPage - 1) /\ addrs \in Seq(Nat)
      /\ Len(addrs) \in Nat /\ k + 1 \in 1..Len(addrs)
  BY HostPageAssumption DEF Collected
<1>1. l \in (k + 1)..Len(addrs) /\ \A j \in (k + 1)..l : addrs[j] = addrs[k + 1] + (j - (k + 1)) * HostPage
  BY <1>0, JoinedFacts, JoinedRow
<1>2. e \in Nat /\ l = k + 1 + e /\ e * HostPage \in Nat /\ c = HostPage - z + e * HostPage
  <2>1. e \in Nat /\ l = k + 1 + e
    <3>1. PICK q \in Nat : q = Len(addrs)
      BY <1>0
    <3>2. l \in (k + 1)..q
      BY <1>1, <3>1
    <3> QED BY <3>2
  <2>2. c = HostPage - z + e * HostPage
    BY DEF Span
  <2> HIDE DEF e
  <2>3. e * HostPage \in Nat
    BY <1>0, <2>1
  <2> QED BY <2>1, <2>2, <2>3
<1>z. (k = 0 => z = off) /\ (k > 0 => z = 0)
  OBVIOUS
<1> HIDE DEF e, z
<1>3. e > 0 => z = 0
  <2> SUFFICES ASSUME e > 0, k = 0 PROVE off = 0
    BY <1>z
  <2>1. JoinedUpTo(addrs, 1) > 1 /\ Len(addrs) >= 1
    BY <1>0, <1>2
  <2> QED BY <2>1, JoinedAligned
<1>4. \A j \in 1..Len(addrs) : addrs[j] = PageAt(off, pages, j) /\ pages[j] \in Nat /\ addrs[j] \in Nat
  BY <1>0 DEF Collected
<1>5. \A i \in 0..e : Passed(off, k + i) = Passed(off, k) + i * HostPage - (IF i > 0 THEN z ELSE 0)
  <2> SUFFICES ASSUME NEW i \in 0..e
               PROVE  Passed(off, k + i) = Passed(off, k) + i * HostPage - (IF i > 0 THEN z ELSE 0)
    OBVIOUS
  <2>0. i \in Nat /\ i * HostPage \in Nat /\ k * HostPage \in Nat /\ (k + i) * HostPage = k * HostPage + i * HostPage
    BY <1>0, <1>2
  <2>1. PICK x \in Nat, y \in Nat : x = k * HostPage /\ y = i * HostPage
    BY <2>0
  <2>2. CASE i = 0
    <3>1. k + i = k /\ i * HostPage = 0
      BY <1>0, <2>2
    <3>2. Passed(off, k) \in Nat
      BY PageFacts
    <3> QED BY <2>2, <3>1, <3>2
  <2>3. CASE i > 0 /\ k = 0
    <3>1. Passed(off, k + i) = i * HostPage - off /\ Passed(off, k) = 0 /\ z = off
      BY <1>z, <2>0, <2>3 DEF Passed
    <3> QED BY <1>0, <2>1, <2>3, <3>1
  <2>4. CASE i > 0 /\ k > 0
    <3>1. Passed(off, k + i) = (k + i) * HostPage - off /\ Passed(off, k) = k * HostPage - off /\ z = 0
      BY <1>z, <2>0, <2>4 DEF Passed
    <3>2. Passed(off, k + i) = x + y - off /\ Passed(off, k) = x - off
      BY <2>0, <2>1, <3>1
    <3>3. x + y - off = (x - off) + y - 0
      BY <1>0
    <3> QED BY <2>1, <2>4, <3>1, <3>2, <3>3
  <2> QED BY <2>0, <2>2, <2>3, <2>4
<1>6. Passed(off, k) \in Nat
  BY PageFacts
<1>7. c \in Nat \ {0} /\ Passed(off, l) = Passed(off, k) + c
  <2>1. PICK y \in Nat : y = e * HostPage
    BY <1>2
  <2>2. c \in Nat \ {0}
    BY <1>0, <1>2, <2>1
  <2>3. Passed(off, l) = Passed(off, k + e) + (HostPage - (IF k + e = 0 THEN off ELSE 0))
    <3>1. CASE k + e = 0
      <4>1. l = 1
        BY <1>2, <3>1
      <4> QED BY <1>0, <3>1, <4>1, PageFacts
    <3>2. CASE k + e > 0
      <4>1. k + e \in Nat /\ l = (k + e) + 1
        BY <1>2
      <4>2. Passed(off, (k + e) + 1) = Passed(off, k + e) + HostPage
        BY <3>2, <4>1, PageFacts
      <4>3. (IF k + e = 0 THEN off ELSE 0) = 0 /\ HostPage - 0 = HostPage
        BY <1>0, <3>2, <4>1
      <4> QED BY <4>1, <4>2, <4>3
    <3> QED BY <1>2, <3>1, <3>2
  <2>4. Passed(off, k + e) = Passed(off, k) + y - (IF e > 0 THEN z ELSE 0)
    BY <1>2, <1>5, <2>1
  <2>5. PICK m \in Nat : m = Passed(off, k)
    BY <1>6
  <2>6. CASE e > 0
    <3>1. z = 0 /\ k + e # 0
      BY <1>2, <1>3, <2>6
    <3>2. Passed(off, l) = (m + y - z) + (HostPage - 0) /\ c = HostPage - z + y
      BY <1>2, <2>1, <2>3, <2>4, <2>5, <2>6, <3>1
    <3>3. (m + y - 0) + (HostPage - 0) = m + (HostPage - 0 + y)
      BY <1>0
    <3> QED BY <2>2, <2>5, <3>1, <3>2, <3>3
  <2>7. CASE e = 0
    <3>1. y = 0 /\ (IF k + e = 0 THEN off ELSE 0) = z
      <4>1. y = 0 /\ k + e = k
        BY <1>0, <2>1, <2>7
      <4> QED BY <1>z, <4>1
    <3>2. Passed(off, l) = (m + y - 0) + (HostPage - z) /\ c = HostPage - z + y
      BY <1>2, <2>1, <2>3, <2>4, <2>5, <2>7, <3>1
    <3>3. (m + 0 - 0) + (HostPage - z) = m + (HostPage - z + 0)
      BY <1>0
    <3> QED BY <2>2, <2>5, <3>1, <3>2, <3>3
  <2> QED BY <1>2, <2>6, <2>7
<1>8. ASSUME NEW b \in 1..s PROVE HostByte(off, pages, Passed(off, k) + b - 1) = addrs[k + 1] + b - 1
  <2>1. CASE e = 0
    <3>1. b \in Nat \ {0} /\ b + z <= HostPage
      <4>1. c = HostPage - z
        <5>1. e * HostPage = 0
          BY <1>0, <2>1
        <5> QED BY <1>0, <1>2, <5>1
      <4> QED BY <1>0, <4>1
    <3>2. pages[k + 1] \in Nat /\ addrs[k + 1] = PageAt(off, pages, k + 1)
      BY <1>0, <1>4
    <3>3. HostByte(off, pages, Passed(off, k) + b - 1) = PageAt(off, pages, k + 1) + b - 1
      BY <3>1, <3>2, HostByteIs DEF z
    <3> QED BY <3>2, <3>3
  <2>2. CASE e > 0
    <3> DEFINE i == (b - 1) \div HostPage
               r == (b - 1) % HostPage
    <3>0. z = 0
      BY <1>3, <2>2
    <3>1. b - 1 \in Nat /\ i \in Nat /\ r \in 0..(HostPage - 1) /\ b - 1 = HostPage * i + r
      <4>1. PICK t \in Nat : t = b - 1
        OBVIOUS
      <4> QED BY <1>0, <4>1, DivFacts
    <3> HIDE DEF i, r
    <3>2. i * HostPage \in Nat /\ HostPage * i = i * HostPage
      BY <1>0, <3>1
    <3>3. i <= e
      <4>1. (e + 1) * HostPage = e * HostPage + HostPage
        BY <1>0, <1>2
      <4>2. PICK x \in Nat, y \in Nat : x = i * HostPage /\ y = e * HostPage
        BY <1>2, <3>2
      <4>3. x < y + HostPage
        <5>1. c = HostPage + y
          <6>1. c = HostPage - 0 + y
            BY <1>2, <3>0, <4>2
          <6> QED BY <1>0, <6>1
        <5>2. b - 1 = x + r
          BY <3>1, <3>2, <4>2
        <5> QED BY <1>0, <3>1, <5>1, <5>2
      <4>4. i * HostPage < (e + 1) * HostPage
        BY <4>1, <4>2, <4>3
      <4>5. i < e + 1
        BY <1>0, <1>2, <3>1, <4>4, TimesLess
      <4> QED BY <1>2, <3>1, <4>5
    <3> DEFINE j == k + i
    <3>4. j \in Nat /\ j + 1 \in (k + 1)..l /\ j + 1 \in 1..Len(addrs) /\ (j + 1) - (k + 1) = i
      <4>0. i \in 0..e
        BY <1>2, <3>1, <3>3
      <4>1. k \in Nat /\ i \in 0..e /\ l = k + 1 + e /\ l \in (k + 1)..Len(addrs)
        BY <1>1, <1>2, <4>0
      <4>2. PICK q \in Nat : q = Len(addrs)
        BY <1>0
      <4> QED BY <1>2, <3>1, <4>1, <4>2
    <3>5. pages[j + 1] \in Nat /\ addrs[j + 1] = PageAt(off, pages, j + 1)
          /\ addrs[j + 1] = addrs[k + 1] + i * HostPage
      BY <1>1, <1>4, <3>4
    <3>6. Passed(off, j) = Passed(off, k) + i * HostPage
      <4>1. Passed(off, j) = Passed(off, k) + i * HostPage - (IF i > 0 THEN z ELSE 0)
        BY <1>2, <1>5, <3>1, <3>3
      <4> HIDE DEF j
      <4> QED BY <1>6, <3>0, <3>2, <4>1
    <3>7. (IF j = 0 THEN off ELSE 0) = 0
      BY <1>z, <3>0, <3>1
    <3> HIDE DEF j
    <3>8. PICK v \in Nat \ {0} : v = r + 1
      BY <1>0, <3>1
    <3>9. HostByte(off, pages, Passed(off, j) + v - 1) = PageAt(off, pages, j + 1) + v - 1
      <4>1. v + (IF j = 0 THEN off ELSE 0) <= HostPage
        BY <1>0, <3>1, <3>7, <3>8
      <4> QED BY <3>4, <3>5, <3>8, <4>1, HostByteIs
    <3>10. PICK m \in Nat, x \in Nat, y \in Nat : m = Passed(off, k) /\ x = i * HostPage /\ y = addrs[k + 1]
      BY <1>0, <1>4, <1>6, <3>2
    <3>11. b - 1 = x + r
      BY <3>1, <3>2, <3>10
    <3>12. (m + x) + v - 1 = m + b - 1 /\ (y + x) + v - 1 = y + b - 1
      BY <1>0, <3>1, <3>8, <3>11
    <3>13. Passed(off, j) = m + x /\ PageAt(off, pages, j + 1) = y + x
      BY <3>5, <3>6, <3>10
    <3> QED BY <3>9, <3>10, <3>12, <3>13
  <2> QED BY <1>2, <2>1, <2>2
<1> QED BY <1>1, <1>7, <1>8 DEF Straight

(* The DMA path between two transfers. *)
DmaOf(off, pages, n, L) ==
    {w \in [at : Nat \ {0}, rem : 0..n, done : Seq(PieceOf)] :
        /\ Bytes(w.done) = InOrder(off, pages, n - w.rem)
        /\ w.rem > 0 => w.at <= L /\ n - w.rem = Passed(off, w.at - 1)}

LEMMA DmaStart ==
    ASSUME NEW off \in 0..(HostPage - 1), NEW pages, NEW n \in Nat \ {0}, NEW addrs, Collected(off, pages, n, addrs)
    PROVE  [at |-> 1, rem |-> n, done |-> << >>] \in DmaOf(off, pages, n, Len(addrs))
<1> DEFINE w == [at |-> 1, rem |-> n, done |-> << >>]
<1>1. /\ w \in [at : Nat \ {0}, rem : 0..n, done : Seq(PieceOf)]
      /\ w.rem = n /\ w.done = << >> /\ w.at = 1 /\ n - w.rem = 0 /\ w.at - 1 = 0
  OBVIOUS
<1>2. InOrder(off, pages, 0) = << >>
  BY DEF InOrder
<1>3. Passed(off, 0) = 0
  BY DEF Passed
<1>4. 1 <= Len(addrs)
  <2>1. Len(addrs) \in Nat /\ n <= Passed(off, Len(addrs))
    BY DEF Collected
  <2>2. Len(addrs) # 0
    BY <1>3, <2>1
  <2> QED BY <2>1, <2>2
<1> HIDE DEF w
<1> QED BY <1>1, <1>2, <1>3, <1>4, BytesEmpty DEF DmaOf, w

LEMMA DmaStep ==
    ASSUME NEW off \in 0..(HostPage - 1), NEW pages, NEW n \in Nat \ {0}, NEW addrs, Collected(off, pages, n, addrs),
           NEW w \in DmaOf(off, pages, n, Len(addrs))
    PROVE  /\ DmaRound(addrs, w) \in DmaOf(off, pages, n, Len(addrs))
           /\ w.rem = 0 => DmaRound(addrs, w) = w
           /\ w.rem > 0 => DmaRound(addrs, w).rem < w.rem
<1>0. HostPage \in Nat \ {0} /\ off \in Nat
  BY HostPageAssumption
<1>1. /\ w.rem \in 0..n /\ w.done \in Seq(PieceOf) /\ w.at \in Nat \ {0}
      /\ Bytes(w.done) = InOrder(off, pages, n - w.rem)
      /\ w.rem > 0 => w.at <= Len(addrs) /\ n - w.rem = Passed(off, w.at - 1)
  BY DEF DmaOf
<1>2. CASE w.rem = 0
  <2>1. DmaRound(addrs, w) = w
    BY <1>2 DEF DmaRound
  <2> QED BY <1>2, <2>1
<1>3. CASE w.rem > 0
  <2> DEFINE k == w.at - 1
             m == n - w.rem
             l == JoinedUpTo(addrs, w.at)
             a == addrs[w.at]
             s == AtMost(w.rem, PieceSize(a, w.rem) + (l - w.at) * HostPage)
             x == [addr |-> a, size |-> s]
             v == [at |-> l + 1, rem |-> w.rem - s, done |-> Append(w.done, x)]
             z == IF k = 0 THEN off ELSE 0
             c == Span(off, k, l)
             L == Len(addrs)
  <2>0. DmaRound(addrs, w) = v
    BY <1>3 DEF DmaRound
  <2>1. /\ k \in Nat /\ k + 1 = w.at /\ m \in Nat /\ m = Passed(off, k) /\ w.rem \in Nat \ {0}
        /\ k + 1 <= L /\ L \in Nat
    BY <1>1, <1>3 DEF Collected
  <2>2. a \in Nat /\ a = PageAt(off, pages, k + 1) /\ pages[k + 1] \in Nat
    <3>1. w.at \in 1..L /\ addrs \in Seq(Nat)
      BY <1>1, <2>1 DEF Collected
    <3>2. a \in Nat
      BY <3>1
    <3> HIDE DEF k
    <3> QED BY <2>1, <3>1, <3>2 DEF Collected
  <2>3. l \in (k + 1)..L /\ c \in Nat \ {0} /\ Passed(off, l) = Passed(off, k) + c
    <3>1. l = JoinedUpTo(addrs, k + 1) /\ 0 \in Nat
      BY <2>1
    <3>2. 0 <= Span(off, k, l)
      <4>1. l \in (k + 1)..L
        <5>1. k + 1 \in 1..L /\ addrs \in Seq(Nat)
          BY <2>1 DEF Collected
        <5> HIDE DEF k, l
        <5> QED BY <3>1, <5>1, JoinedFacts
      <4>2. z \in 0..(HostPage - 1)
        BY <1>0
      <4>3. PICK y \in Nat : y = l - (k + 1)
        <5> HIDE DEF k, l
        <5> QED BY <2>1, <4>1
      <4>4. y * HostPage \in Nat /\ Span(off, k, l) = HostPage - z + y * HostPage
        BY <1>0, <4>3 DEF Span
      <4> HIDE DEF z, k, l
      <4> QED BY <1>0, <4>2, <4>4
    <3> HIDE DEF k, l
    <3> QED BY <2>1, <3>1, <3>2, JoinedStraight
  <2>4. s = AtMost(w.rem, c)
    <3>1. PieceSize(a, w.rem) = AtMost(w.rem, HostPage - z)
      <4> HIDE DEF k, a
      <4> QED BY <2>1, <2>2, PieceSizeIs
    <3>2. PICK y \in Nat : y = l - w.at
      <4> HIDE DEF k, l
      <4> QED BY <2>1, <2>3
    <3>3. y * HostPage \in Nat
      BY <1>0, <3>2
    <3>4. PICK t \in Nat, r \in Nat : t = y * HostPage /\ r = w.rem
      BY <2>1, <3>3
    <3>5. z \in 0..(HostPage - 1)
      BY <1>0
    <3>6. c = HostPage - z + t
      BY <2>1, <3>2, <3>4 DEF Span
    <3>7. s = AtMost(r, AtMost(r, HostPage - z) + t)
      BY <3>1, <3>2, <3>4
    <3> HIDE DEF c, s, z
    <3>8. AtMost(r, AtMost(r, HostPage - z) + t) = AtMost(r, HostPage - z + t)
      BY <1>0, <3>5 DEF AtMost
    <3> QED BY <3>4, <3>6, <3>7, <3>8
  <2>5. s \in 1..w.rem /\ s <= c /\ (s < w.rem => s = c) /\ w.rem - s \in 0..n /\ n - (w.rem - s) = m + s
    <3>1. PICK r \in Nat \ {0}, y \in Nat \ {0} : r = w.rem /\ y = c
      <4> HIDE DEF c
      <4> QED BY <2>1, <2>3
    <3>2. r \in 0..n /\ m = n - r /\ s = IF r <= y THEN r ELSE y
      BY <1>1, <2>4, <3>1 DEF AtMost
    <3> HIDE DEF m, c, s
    <3>3. s \in 1..r /\ s <= y /\ (s < r => s = y) /\ r - s \in 0..n /\ n - (r - s) = m + s
      BY <3>2
    <3> QED BY <3>1, <3>3
  <2>6. Append(w.done, x) \in Seq(PieceOf) /\ x \in PieceOf
    <3>1. s \in Nat
      <4> HIDE DEF s
      <4> QED BY <2>1, <2>5
    <3> HIDE DEF s, a
    <3>2. x \in PieceOf
      BY <2>2, <3>1 DEF PieceOf
    <3> HIDE DEF x
    <3> QED BY <1>1, <3>2
  <2>7. x.addr = a /\ x.size = s /\ v.rem = w.rem - s /\ v.done = Append(w.done, x) /\ v.at = l + 1
    OBVIOUS
  <2> HIDE DEF a, s, x, v, c, l
  <2>8. Bytes(v.done) = InOrder(off, pages, m + s)
    <3>1. Straight(off, pages, m, s, a)
      <4>1. s \in Nat /\ l = JoinedUpTo(addrs, k + 1) /\ c = Span(off, k, l) /\ a = addrs[k + 1]
        BY <2>1, <2>5 DEF l, c, a
      <4>2. Straight(off, pages, Passed(off, k), s, addrs[k + 1])
        <5> HIDE DEF k
        <5> QED BY <2>1, <2>5, <4>1, JoinedStraight
      <4> QED BY <2>1, <4>1, <4>2
    <3>2. Bytes(Append(w.done, x)) = Bytes(w.done) \o Spread(x) /\ Bytes(w.done) \in Seq(Nat)
      BY <1>1, <2>6, BytesAppend
    <3>3. Spread(x) = Row(a, s)
      BY <2>7 DEF Spread
    <3>4. InOrder(off, pages, m) \o Row(a, s) = InOrder(off, pages, m + s)
      <4>1. m \in Nat /\ a \in Nat /\ s \in Nat /\ InOrder(off, pages, m) \in Seq(Nat)
        BY <1>1, <2>1, <2>2, <2>5, <3>2
      <4> HIDE DEF m, k, z, L
      <4> QED BY <3>1, <4>1, InOrderGrows, SMTT(30)
    <3> QED BY <1>1, <2>7, <3>2, <3>3, <3>4
  <2>9. v \in [at : Nat \ {0}, rem : 0..n, done : Seq(PieceOf)]
    <3>1. l + 1 \in Nat \ {0}
      <4> HIDE DEF k
      <4> QED BY <2>1, <2>3
    <3> QED BY <2>5, <2>6, <3>1 DEF v
  <2>10. Bytes(v.done) = InOrder(off, pages, n - v.rem)
    BY <2>5, <2>7, <2>8
  <2>11. v.rem > 0 => v.at <= L /\ n - v.rem = Passed(off, v.at - 1)
    <3> SUFFICES ASSUME v.rem > 0 PROVE l + 1 <= L /\ n - v.rem = Passed(off, (l + 1) - 1)
      BY <2>7
    <3>1. s = c
      BY <1>1, <2>1, <2>5, <2>7
    <3>2. l \in Nat /\ l <= L /\ (l + 1) - 1 = l
      <4> HIDE DEF k
      <4> QED BY <2>1, <2>3
    <3>3. n - v.rem = Passed(off, l)
      <4> HIDE DEF m, k
      <4> QED BY <2>1, <2>3, <2>5, <2>7, <3>1
    <3>4. n <= Passed(off, L)
      BY DEF Collected
    <3>5. l # L
      <4> SUFFICES ASSUME l = L PROVE FALSE
        OBVIOUS
      <4>1. PICK r \in Nat \ {0} : r = v.rem
        BY <2>5, <2>7
      <4>2. n <= n - r
        BY <3>3, <3>4, <4>1
      <4> QED BY <4>2
    <3> QED BY <2>1, <3>2, <3>3, <3>5
  <2>12. v \in DmaOf(off, pages, n, L)
    BY <2>9, <2>10, <2>11 DEF DmaOf
  <2>13. v.rem < w.rem
    BY <1>1, <2>1, <2>5, <2>7
  <2> QED BY <1>3, <2>0, <2>12, <2>13
<1>4. w.rem = 0 \/ w.rem > 0
  BY <1>1
<1> QED BY <1>2, <1>3, <1>4

LEMMA DmaEnds ==
    ASSUME NEW off \in 0..(HostPage - 1), NEW pages, NEW d, Roomy(pages, d), NEW addrs, Collected(off, pages, d, addrs)
    PROVE  Bytes(DmaTransfers(addrs, d)) = InOrder(off, pages, d)
<1> DEFINE S == DmaOf(off, pages, d, Len(addrs))
           c == [at |-> 1, rem |-> d, done |-> << >>]
           R(w) == DmaRound(addrs, w)
           st == [i \in 1..d |-> [w \in S |-> R(w)]]
           Eq(f) == f = [i \in 0..d |-> IF i = 0 THEN c ELSE R(f[i - 1])]
           F == CHOOSE f : Eq(f)
<1>0. d \in Nat
  BY DEF Roomy
<1>p. d \in Nat \ {0}
  BY DEF Roomy
<1>1. c \in S
  BY <1>p, DmaStart
<1>2. \A w \in S : R(w) \in S /\ (w.rem = 0 => R(w) = w) /\ (w.rem > 0 => R(w).rem < w.rem)
  BY <1>p, DmaStep
<1>3. \A w \in S : w.rem \in 0..d /\ Bytes(w.done) = InOrder(off, pages, d - w.rem)
  BY DEF DmaOf
<1>4. DmaTransfers(addrs, d) = F[d].done
  BY DEF DmaTransfers
<1>5. c.rem = d
  OBVIOUS
<1> HIDE DEF S, c, R
<1>6. st \in [1..d -> [S -> S]] /\ \A i \in 1..d, w \in S : st[i][w] = R(w)
  <2>1. [w \in S |-> R(w)] \in [S -> S]
    BY <1>0, <1>2
  <2> QED BY <2>1
<1> HIDE DEF st
<1>7. PICK g \in [0..d -> S] : g[0] = c /\ \A i \in 1..d : g[i] = st[i][g[i - 1]]
  <2>1. st \in [1..d -> [S -> S]]
    BY <1>6
  <2> QED BY <1>0, <1>1, <2>1, RecExists, SMTT(60)
<1>8. \A i \in 1..d : g[i - 1] \in S /\ g[i] = R(g[i - 1])
  <2> SUFFICES ASSUME NEW i \in 1..d PROVE g[i - 1] \in S /\ g[i] = R(g[i - 1])
    OBVIOUS
  <2>1. g[i - 1] \in S
    BY <1>0, <1>7
  <2> QED BY <1>0, <1>6, <1>7, <2>1
<1>9. Eq(g)
  <2> DEFINE B(i) == IF i = 0 THEN c ELSE R(g[i - 1])
  <2>1. ASSUME NEW i \in 0..d PROVE g[i] = B(i)
    BY <1>0, <1>7, <1>8
  <2>2. g = [i \in 0..d |-> g[i]]
    BY <1>0, <1>7
  <2> HIDE DEF B
  <2>3. g = [i \in 0..d |-> B(i)]
    BY <2>1, <2>2
  <2> QED BY <2>3 DEF B
<1>10. Eq(F)
  <2> HIDE DEF Eq
  <2> QED BY <1>0, <1>9
<1> HIDE DEF F
<1>11. F[0] = c /\ \A i \in 1..d : F[i] = R(F[i - 1])
  BY <1>0, <1>10
<1> DEFINE T == {i \in Nat : i <= d => F[i] \in S /\ F[i].rem <= d - i}
<1>12. 0 \in T
  BY <1>0, <1>1, <1>5, <1>11
<1>13. ASSUME NEW i \in T PROVE i + 1 \in T
  <2> SUFFICES ASSUME i + 1 <= d PROVE F[i + 1] \in S /\ F[i + 1].rem <= d - (i + 1)
    BY <1>0, <1>13
  <2> DEFINE w == F[i]
             v == F[i + 1]
  <2>1. i \in Nat /\ i <= d /\ w \in S /\ w.rem <= d - i
    BY <1>0, <1>13
  <2>2. v = R(w)
    <3>1. i + 1 \in 1..d /\ (i + 1) - 1 = i
      BY <2>1
    <3> QED BY <1>0, <1>11, <3>1
  <2> HIDE DEF w, v
  <2>3. v \in S /\ (w.rem = 0 => v = w) /\ (w.rem > 0 => v.rem < w.rem)
    BY <1>0, <1>2, <2>1, <2>2
  <2>4. PICK x \in Nat, y \in Nat : x = w.rem /\ y = v.rem
    BY <1>0, <1>3, <2>1, <2>3
  <2>5. x <= d - i /\ (x = 0 => y = 0) /\ (x > 0 => y < x)
    BY <2>1, <2>3, <2>4
  <2>6. y <= d - (i + 1)
    BY <1>0, <2>1, <2>5
  <2> QED BY <2>3, <2>4, <2>6 DEF v
<1>14. \A i \in Nat : i \in T
  <2>1. T \in SUBSET Nat
    OBVIOUS
  <2> HIDE DEF T
  <2> QED BY <1>0, <1>12, <1>13, <2>1, SetInduction
<1>15. F[d] \in S /\ F[d].rem <= d - d
  BY <1>0, <1>14
<1>16. F[d].rem = 0
  BY <1>0, <1>3, <1>15
<1>17. d - F[d].rem = d
  BY <1>0, <1>16
<1> QED BY <1>0, <1>3, <1>4, <1>15, <1>17

LEMMA DmaInOrder ==
    ASSUME NEW off \in 0..(HostPage - 1), NEW pages, NEW n, Roomy(pages, n), NEW p, p = Prps(off, pages, n)
    PROVE  PerformIoUsingDma(p, n) = InOrder(off, pages, n)
<1>0. n \in Nat \ {0} /\ n \in 0..n
  BY DEF Roomy
<1>1. PICK w \in WalkOf(off, pages, n) : w.rem = 0 /\ Pieces(p, n, FALSE) = w.done
  <2>1. PICK d \in 0..n, adjusted \in BOOLEAN : d = n /\ adjusted = FALSE
    BY <1>0
  <2>2. \E w \in WalkOf(off, pages, d) : w.rem = 0 /\ Pieces(p, d, adjusted) = w.done
    BY <2>1, WalkEnds
  <2> QED BY <2>1, <2>2
<1> DEFINE ps == Pieces(p, n, FALSE)
           addrs == [k \in DOMAIN ps |-> ps[k].addr]
<1>2. /\ ps \in Seq(PieceOf) /\ n <= Passed(off, Len(ps))
      /\ \A j \in 1..Len(ps) : ps[j].addr = PageAt(off, pages, j) /\ pages[j] \in Nat
  BY <1>1 DEF WalkOf
<1>3. PerformIoUsingDma(p, n) = Bytes(DmaTransfers(addrs, n))
  BY DEF PerformIoUsingDma
<1> HIDE DEF ps
<1>4. addrs \in Seq(Nat) /\ Len(addrs) = Len(ps) /\ \A j \in 1..Len(ps) : addrs[j] = ps[j].addr
  <2>1. DOMAIN ps = 1..Len(ps) /\ Len(ps) \in Nat /\ \A j \in 1..Len(ps) : ps[j] \in PieceOf
    BY <1>2
  <2>2. \A j \in 1..Len(ps) : ps[j].addr \in Nat
    BY <2>1 DEF PieceOf
  <2> QED BY <2>1, <2>2
<1> HIDE DEF addrs
<1>5. Collected(off, pages, n, addrs)
  BY <1>2, <1>4 DEF Collected
<1> QED BY <1>0, <1>3, <1>5, DmaEnds

(* Every walk over the PRPs, in the state in which the device makes it. *)
LEMMA AnswerInPlace ==
    ASSUME HostTypeOK, len > 0
    PROVE  AnswerLandsInPlace
<1> SUFFICES ASSUME NEW off \in 0..(HostPage - 1), NEW pages \in HostBuffers
             PROVE  /\ ListKnown => Transfer(off, pages) = InOrder(off, pages, clamped)
                    /\ GetPrpData(Prps(off, pages, len), len) = InOrder(off, pages, len)
                    /\ CopyPrpData(Prps(off, pages, len), len) = InOrder(off, pages, len)
                    /\ PerformIoUsingDma(Prps(off, pages, len), len) = InOrder(off, pages, len)
  BY DEF AnswerLandsInPlace
<1>1. len \in HostLens /\ len \in Nat \ {0} /\ clamped \in 0..len
  BY ConstTypes, HostAssumption DEF HostTypeOK
<1>2. Roomy(pages, len)
  BY <1>1, TransferAssumption DEF Roomy
<1>3. PICK p : p = Prps(off, pages, len)
  OBVIOUS
<1>4. ASSUME ListKnown PROVE Bytes(Pieces(p, clamped, IsAdjusted)) = InOrder(off, pages, clamped)
  <2>1. PICK d \in 0..len, adjusted \in BOOLEAN : d = clamped /\ adjusted = (clamped # len)
    BY <1>1
  <2>2. (~adjusted => d = len) /\ (adjusted => len > 2 * HostPage)
    BY <1>4, <2>1 DEF ListKnown
  <2>3. Bytes(Pieces(p, d, adjusted)) = InOrder(off, pages, d)
    BY <1>2, <1>3, <2>2, WalkInOrder
  <2>4. adjusted = IsAdjusted
    BY <2>1 DEF IsAdjusted
  <2> QED BY <2>1, <2>3, <2>4
<1>5. Bytes(Pieces(p, len, FALSE)) = InOrder(off, pages, len)
  <2>1. len \in 0..len
    BY <1>1
  <2> QED BY <1>2, <1>3, <2>1, WalkInOrder
<1>6. PerformIoUsingDma(p, len) = InOrder(off, pages, len)
  BY <1>2, <1>3, DmaInOrder
<1> QED BY <1>3, <1>4, <1>5, <1>6 DEF Transfer, PerformIo, GetPrpData, CopyPrpData

(* Every byte of an answer, whole, or shortened where the host gave a      *)
(* list, is stored where the host expects it, and the four walks over PRPs *)
(* agree, for every page size, alignment and layout of the host's buffer.  *)
THEOREM AnswerAlwaysLandsInPlace == HostSpec => []AnswerLandsInPlace
<1>1. HIInv => AnswerLandsInPlace
  <2>1. hpc # "copy" => AnswerLandsInPlace
    BY DEF AnswerLandsInPlace
  <2>2. HIInv /\ hpc = "copy" => HostTypeOK /\ len > 0
    BY DEF HIInv, ReadPhase
  <2> QED BY <2>1, <2>2, AnswerInPlace
<1> QED BY <1>1, HIInvAlways, PTL
=============================================================================
