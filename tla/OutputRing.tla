----------------------------- MODULE OutputRing -----------------------------
(***************************************************************************)
(* A circular OUTPUT ring and its writer: the circular_output_* routines   *)
(* of csd_user_func.c that the compaction program (and every CRC stage)    *)
(* writes through.  The reader is another thread, a CRC stage (CrcStage)   *)
(* or the host (HostReadout); both see only ht_head, ht_tail and the       *)
(* end-of-stream fields, without a lock.                                   *)
(*                                                                         *)
(* Offsets are logical; ring[p] is the logical byte at location p (-1:     *)
(* none), locations RING.. are the ghost page.                             *)
(***************************************************************************)
EXTENDS Integers

CONSTANTS
    PAGE,        \* SLM_PAGE_SIZE
    GRAIN,       \* HT_NOTIFY_GRAIN
    RING,        \* MAGIC_BUFFER_SIZE
    GHOST,       \* GHOST_PAGE_SIZE
    OutTotal,    \* bytes the writer will produce
    InTotal,     \* total_input_size: the size dispatch announces up front
    WriteSizes,  \* sizes of one circular_output_set_data call
    SstSize,     \* size of a finished SSTable in the stream
    PadAt        \* where the contents of an SSTable end and its padding begins

VARIABLES
    \* struct slm_lba_info of the ring
    head,          \* ht_head
    tail,          \* ht_tail
    producerDone,  \* ht_producer_done
    outTotal,      \* output_logical_total_size (0: not final yet)
    loadComplete,  \* load_complete
    logicalTotal,  \* logical_total_size
    ring,          \* contents
    \* the writer's circular_output_buf_ctx
    wpc,           \* "write", then the stores of circular_output_finalize
    written        \* logical_write_offset

ringVars == <<head, tail, producerDone, outTotal, loadComplete, logicalTotal, ring>>
writerVars == <<wpc, written>>

Phys(b) == b % RING
AlignDown(n, u) == (n \div u) * u
Lesser(a, b) == IF a < b THEN a ELSE b
Greater(a, b) == IF a > b THEN a ELSE b
DivUp(a, b) == (a + b - 1) \div b

(* The end of the SSTable byte b belongs to, and the bytes of the stream   *)
(* that carry no content: the padding behind a full SSTable.               *)
SstEnd(b) == (b \div SstSize + 1) * SstSize
Padding == UNION {p..(SstEnd(p) - 1) : p \in PadAt}

ASSUME RingAssumption ==
    /\ {PAGE, GRAIN, RING, GHOST, OutTotal, InTotal, SstSize} \subseteq Nat \ {0}
    /\ GRAIN % PAGE = 0 /\ RING % PAGE = 0 /\ PAGE <= GHOST /\ GHOST <= RING
    /\ OutTotal <= InTotal
    /\ WriteSizes \subseteq 1..RING
    /\ \A p \in PadAt : p \in Nat /\ SstEnd(p) <= OutTotal /\ SstEnd(p) - p <= RING

RingTypeOK ==
    /\ head \in 0..OutTotal /\ tail \in 0..(InTotal + PAGE)
    /\ producerDone \in BOOLEAN /\ loadComplete \in BOOLEAN
    /\ outTotal \in {0, OutTotal} /\ logicalTotal \in {InTotal, OutTotal}
    /\ ring \in [0..(RING + GHOST - 1) -> -1..(OutTotal - 1)]
    /\ wpc \in {"write", "head", "done", "total", "complete", "logical", "end"}
    /\ written \in head..OutTotal

RingInit ==
    /\ head = 0 /\ tail = 0 /\ producerDone = FALSE
    /\ outTotal = 0 /\ loadComplete = FALSE /\ logicalTotal = InTotal
    /\ ring = [p \in 0..(RING + GHOST - 1) |-> -1]
    /\ wpc = "write" /\ written = 0

----------------------------------------------------------------------------
(* Faulty variant: counts to the last byte of the write, not to the end of *)
(* its page, and forgets the ring is in use up to ht_tail.                 *)
SpaceFor_OnePageOver(n) == written + n <= tail + RING + PAGE

(* circular_output_wait_for_space: the write may go ahead when the end of  *)
(* its last page is within one ring of the consumed frontier.              *)
SpaceFor(n) ==
    AlignDown(written + n - 1, PAGE) + PAGE <= tail + RING

(* notify_circular_output_produced: whole grains only. *)
Published(w) ==
    IF producerDone THEN head ELSE Greater(head, AlignDown(w, GRAIN))

(* Faulty variant: the wrapped part is not mirrored into the ghost page. *)
WithWrite_NoGhost(n) ==
    [p \in DOMAIN ring |->
        IF \E b \in written..(written + n - 1) : Phys(b) = p
        THEN CHOOSE b \in written..(written + n - 1) : Phys(b) = p
        ELSE ring[p]]

(* The memcpys of one call: the bytes go to their ring locations, split at *)
(* the ring end, and those in the first GHOST bytes also to the ghost page. *)
WithWrite(n) ==
    LET new == written..(written + n - 1)
        loc(p) == IF p < RING THEN p ELSE p - RING
    IN  [p \in DOMAIN ring |->
            IF \E b \in new : Phys(b) = loc(p)
            THEN CHOOSE b \in new : Phys(b) = loc(p)
            ELSE ring[p]]

(* circular_output_set_data and circular_output_set_data_from_circular:    *)
(* wait for space, copy, advance, publish.                                 *)
WriteData(n) ==
    /\ wpc = "write" /\ written + n <= OutTotal /\ SpaceFor(n)
    /\ written \notin PadAt
    /\ \A p \in PadAt : written < p => written + n <= p
    /\ ring' = WithWrite(n)
    /\ written' = written + n
    /\ head' = Published(written')
    /\ UNCHANGED <<tail, producerDone, outTotal, loadComplete, logicalTotal, wpc>>

(* circular_output_notify_range: the rest of an SSTable is published, not  *)
(* written.                                                                *)
NotifyRange ==
    /\ wpc = "write" /\ written \in PadAt
    /\ SpaceFor(SstEnd(written) - written)
    /\ written' = SstEnd(written)
    /\ head' = Published(written')
    /\ UNCHANGED <<tail, producerDone, outTotal, loadComplete, logicalTotal, ring, wpc>>

(* circular_output_finalize: five stores in program order, each visible to *)
(* the reader on its own.                                                  *)
FinalizeBegin ==
    /\ wpc = "write" /\ written = OutTotal
    /\ wpc' = "head"
    /\ UNCHANGED <<ringVars, written>>

FinalizeHead ==
    /\ wpc = "head" /\ head' = written /\ wpc' = "done"
    /\ UNCHANGED <<tail, producerDone, outTotal, loadComplete, logicalTotal, ring, written>>

FinalizeDone ==
    /\ wpc = "done" /\ producerDone' = TRUE /\ wpc' = "total"
    /\ UNCHANGED <<head, tail, outTotal, loadComplete, logicalTotal, ring, written>>

FinalizeTotal ==
    /\ wpc = "total" /\ outTotal' = written /\ wpc' = "complete"
    /\ UNCHANGED <<head, tail, producerDone, loadComplete, logicalTotal, ring, written>>

(* Faulty variant: the end of the stream is not passed on to a CRC stage. *)
FinalizeComplete_Skipped ==
    /\ wpc = "complete" /\ wpc' = "logical"
    /\ UNCHANGED <<ringVars, written>>

FinalizeComplete ==
    /\ wpc = "complete" /\ loadComplete' = TRUE /\ wpc' = "logical"
    /\ UNCHANGED <<head, tail, producerDone, outTotal, logicalTotal, ring, written>>

FinalizeLogical ==
    /\ wpc = "logical" /\ logicalTotal' = written /\ wpc' = "end"
    /\ UNCHANGED <<head, tail, producerDone, outTotal, loadComplete, ring, written>>

Writer ==
    \/ \E n \in WriteSizes : WriteData(n)
    \/ NotifyRange
    \/ FinalizeBegin \/ FinalizeHead \/ FinalizeDone
    \/ FinalizeTotal \/ FinalizeComplete \/ FinalizeLogical

----------------------------------------------------------------------------
(* Byte b, read through the contiguous window that starts at byte s, is    *)
(* still (or already) this very byte of the stream; padding has no content. *)
Holds(s, b) ==
    /\ Phys(s) + (b - s) \in DOMAIN ring
    /\ b \in Padding \/ ring[Phys(s) + (b - s)] = b
=============================================================================
