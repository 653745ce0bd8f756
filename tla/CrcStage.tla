------------------------------ MODULE CrcStage ------------------------------
(***************************************************************************)
(* The CRC stage of a compound compaction:                                 *)
(* __magic_rocksdb_crc_calculation reads the intermediate ring behind the  *)
(* compaction program, finds the data blocks, and copies blocks, metadata  *)
(* and leftovers into its own output.  Only its use of the intermediate    *)
(* ring is modelled here: a copy may be held up for any time by the space  *)
(* wait on the output, so each copy is a step of its own.                  *)
(***************************************************************************)
EXTENDS OutputRing

CONSTANTS
    Threshold,  \* datablock_threshold
    MARK,       \* restart interval plus trailer behind the last entry of a block
    Streams     \* possible streams: data blocks, start |-> [entry |-> size, count |-> n]

BytesOf(block) == block.entry * block.count + MARK

(* A copy of the bytes from a to b - 1 takes them in one piece; it may pass *)
(* the ring end by the ghost page (WARN_GHOST_OVERRUN).                    *)
OnePiece(a, b) == Phys(a) + (b - a) <= RING + GHOST

(* The data blocks of a stream as the compaction program writes them: from *)
(* the start of an SSTable on, followed, once they have reached the        *)
(* threshold, by metadata and padding up to its full size.                 *)
ASSUME CrcAssumption ==
    /\ {Threshold, MARK} \subseteq Nat \ {0} /\ Threshold <= SstSize
    /\ \A blks \in Streams : \A s \in DOMAIN blks :
          LET end == s + BytesOf(blks[s])
          IN  /\ blks[s].entry \in Nat \ {0} /\ blks[s].count \in Nat \ {0}
              /\ blks[s].entry + MARK <= PAGE + 1
              /\ s \in Nat /\ end <= OutTotal /\ end <= SstEnd(s) /\ OnePiece(s, end)
              /\ end >= SstEnd(s) - SstSize + Threshold =>
                    SstEnd(s) <= OutTotal /\ OnePiece(end, SstEnd(s))

VARIABLES
    blocks,  \* data blocks of the stream
    cpc,     \* where the program is
    pos,     \* ctx_input.logical_offset
    prevPos, \* ctx_input.prev_logical_offset
    bstart,  \* input_block_start_logical_offset
    outOff,  \* output_offset: bytes of this SSTable already copied
    to       \* end of the bytes being copied

readerVars == <<blocks, cpc, pos, prevPos, bstart, outOff, to>>
vars == <<ringVars, writerVars, readerVars>>

TypeOK ==
    /\ RingTypeOK /\ blocks \in Streams
    /\ cpc \in {"first", "top", "ahead", "entry", "block", "meta", "metacopy",
                "rest", "here", "next", "again", "page", "final", "left", "done"}
    /\ pos \in 0..(InTotal + PAGE) /\ prevPos \in 0..pos /\ bstart \in 0..OutTotal
    /\ outOff \in 0..SstSize /\ to \in 0..(InTotal + PAGE)

Init ==
    /\ RingInit /\ blocks \in Streams
    /\ cpc = "first" /\ pos = 0 /\ prevPos = 0 /\ bstart = 0 /\ outOff = 0 /\ to = 0

----------------------------------------------------------------------------
(* Bytes of the data block that starts at s. *)
BlockSize(s) == BytesOf(blocks[s])

(* Faulty variant: the page that is just being written counts as ready. *)
Available_InProgress(b) == b \div PAGE <= DivUp(head, PAGE) \/ loadComplete

(* circular_buf_check_data_at returns: the page of b lies below the        *)
(* produced frontier, or the writer has finalized.                         *)
Available(b) == b \div PAGE < DivUp(head, PAGE) \/ loadComplete

(* circular_buf_notify_progress: ht_tail moves when a grain is crossed. *)
Progress(b) ==
    IF prevPos \div GRAIN = b \div GRAIN
    THEN UNCHANGED <<tail, prevPos>>
    ELSE tail' = Greater(tail, b) /\ prevPos' = b

(* A step that only reads the ring. *)
ReadOnly == UNCHANGED <<ringVars, writerVars>>

(* A step that reads the ring and may report progress. *)
Reports(b) ==
    /\ Progress(b)
    /\ UNCHANGED <<head, producerDone, outTotal, loadComplete, logicalTotal, ring, writerVars>>

FirstData ==
    /\ cpc = "first" /\ Available(0)
    /\ cpc' = "top"
    /\ ReadOnly /\ UNCHANGED <<pos, prevPos, bstart, outOff, to>>

(* Loop head: leave at the announced end of the input, ... *)
LoopEnds ==
    /\ cpc = "top" /\ pos >= logicalTotal
    /\ cpc' = "rest"
    /\ ReadOnly /\ UNCHANGED <<pos, prevPos, bstart, outOff, to>>

(* ... else report how far the program has come. *)
LoopTop ==
    /\ cpc = "top" /\ pos < logicalTotal
    /\ Reports(pos)
    /\ cpc' = "ahead"
    /\ UNCHANGED <<pos, bstart, outOff, to>>

NextPage ==
    /\ cpc = "ahead" /\ Available(pos + PAGE)
    /\ cpc' = "entry"
    /\ ReadOnly /\ UNCHANGED <<pos, prevPos, bstart, outOff, to>>

(* The first entry of a block does not decode: metadata follows. *)
NoMoreBlocks ==
    /\ cpc = "entry" /\ pos = bstart /\ bstart \notin DOMAIN blocks
    /\ cpc' = "rest"
    /\ ReadOnly /\ UNCHANGED <<pos, prevPos, bstart, outOff, to>>

(* An entry is decoded; behind the last one of the block the marker is     *)
(* found and the whole block is to be copied from input_block_start.       *)
Entry ==
    /\ cpc = "entry" /\ bstart \in DOMAIN blocks
    /\ LET next == pos + blocks[bstart].entry
           last == next - bstart = BlockSize(bstart) - MARK
       IN  IF last THEN cpc' = "block" /\ to' = next + MARK /\ pos' = pos
                   ELSE cpc' = "top" /\ to' = to /\ pos' = next
    /\ ReadOnly /\ UNCHANGED <<prevPos, bstart, outOff>>

CopyBlock ==
    /\ cpc = "block"
    /\ pos' = to /\ bstart' = to
    /\ outOff' = outOff + (to - bstart)
    /\ cpc' = IF outOff' >= Threshold THEN "meta" ELSE "top"
    /\ ReadOnly /\ UNCHANGED <<prevPos, to>>

(* The data blocks of an SSTable are through: wait for the last page of    *)
(* its metadata ...                                                        *)
MetaReady ==
    /\ cpc = "meta" /\ Available(pos + (SstSize - outOff) - 1)
    /\ to' = pos + (SstSize - outOff)
    /\ cpc' = "metacopy"
    /\ ReadOnly /\ UNCHANGED <<pos, prevPos, bstart, outOff>>

(* ... copy it, report, and start on the next SSTable. *)
CopyMeta ==
    /\ cpc = "metacopy"
    /\ pos' = to /\ bstart' = to /\ outOff' = 0
    /\ Reports(to)
    /\ cpc' = "top"
    /\ UNCHANGED to

(* The rest is copied page by page until the writer has finalized. *)
RestOver ==
    /\ cpc \in {"rest", "again"} /\ loadComplete
    /\ cpc' = "final"
    /\ ReadOnly /\ UNCHANGED <<pos, prevPos, bstart, outOff, to>>

RestOpen ==
    /\ cpc = "rest" /\ ~loadComplete
    /\ cpc' = "here"
    /\ ReadOnly /\ UNCHANGED <<pos, prevPos, bstart, outOff, to>>

RestHere ==
    /\ cpc = "here" /\ Available(pos)
    /\ cpc' = "next"
    /\ ReadOnly /\ UNCHANGED <<pos, prevPos, bstart, outOff, to>>

RestNext ==
    /\ cpc = "next" /\ Available(pos + PAGE)
    /\ cpc' = "again"
    /\ ReadOnly /\ UNCHANGED <<pos, prevPos, bstart, outOff, to>>

RestAgain ==
    /\ cpc = "again" /\ ~loadComplete
    /\ to' = pos + PAGE /\ cpc' = "page"
    /\ ReadOnly /\ UNCHANGED <<pos, prevPos, bstart, outOff>>

CopyPage ==
    /\ cpc = "page"
    /\ pos' = to
    /\ Reports(to)
    /\ cpc' = "rest"
    /\ UNCHANGED <<bstart, outOff, to>>

(* The leftover is sized by logical_total_size as it stands now. *)
SizeLeftover ==
    /\ cpc = "final"
    /\ to' = Greater(pos, logicalTotal)
    /\ cpc' = "left"
    /\ ReadOnly /\ UNCHANGED <<pos, prevPos, bstart, outOff>>

(* Copy it, report for the last time; the stage then finalizes its output. *)
CopyLeftover ==
    /\ cpc = "left"
    /\ pos' = to
    /\ Reports(to)
    /\ cpc' = "done"
    /\ UNCHANGED <<bstart, outOff, to>>

Crc ==
    /\ \/ FirstData \/ LoopEnds \/ LoopTop \/ NextPage \/ NoMoreBlocks \/ Entry
       \/ CopyBlock \/ MetaReady \/ CopyMeta
       \/ RestOver \/ RestOpen \/ RestHere \/ RestNext \/ RestAgain \/ CopyPage
       \/ SizeLeftover \/ CopyLeftover
    /\ UNCHANGED blocks

Next == (Writer /\ UNCHANGED readerVars) \/ Crc

(* Both programs run on compute workers of their own, which spin and never *)
(* stop.                                                                   *)
Spec == Init /\ [][Next]_vars /\ WF_vars(Writer /\ UNCHANGED readerVars) /\ WF_vars(Crc)

----------------------------------------------------------------------------
(* While an entry is decoded, its bytes and the marker behind it are the   *)
(* bytes the writer put there for this place of the stream, not the lap    *)
(* before and not the one after: circular_buf_check_data_at one page ahead *)
(* against the writer's grain-wise ht_head.                                *)
EntryInPlace ==
    cpc = "entry" /\ bstart \in DOMAIN blocks =>
        \A b \in pos..(pos + blocks[bstart].entry + MARK - 1) : Holds(pos, b)

(* What is copied of the stream and has not been reported as consumed is   *)
(* intact until the copy is over, however long it is held up: the space    *)
(* wait of the writer protects everything at or behind ht_tail.  (The last *)
(* page of the rest may reach beyond the end of the stream.)               *)
UnreportedIntact ==
    cpc \in {"block", "metacopy", "page"} =>
        LET from == IF cpc = "block" THEN bstart ELSE pos
        IN  \A b \in Greater(from, tail)..(Lesser(to, OutTotal) - 1) : Holds(from, b)

(* Both programs finish: the page-rounded space wait, the grain-wise head  *)
(* and the grain-wise tail never wait for each other.                      *)
CrcFinishes == <>(cpc = "done" /\ wpc = "end")
=============================================================================
