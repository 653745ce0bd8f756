----------------------------- MODULE Compaction -----------------------------
(***************************************************************************)
(* The programs that merge, check and search SSTables: __rocksdb_compaction *)
(* and __magic_rocksdb_compaction (which differ in where the bytes go, see *)
(* SlmLoad and OutputRing for that, and not in what they write),           *)
(* __rocksdb_crc_calculation, and the lookups of __rocksdb_read and        *)
(* __magic_rocksdb_read (csd_user_func.c, user_func_rocksdb_properties.h,  *)
(* user_func_bloom.h).                                                     *)
(*                                                                         *)
(* A level is the concatenation of the data blocks of its files.  It is    *)
(* read as a sequence of tokens: entries, and the Mark behind each block   *)
(* (8 bytes of restart array, 5 bytes of trailer).  The readers keep byte  *)
(* counts and no notion of blocks; where they would take a token for one   *)
(* of the other kind they are lost (pc = "lost") and what they do from     *)
(* there on is not followed.  All entries have one size, as the programs   *)
(* assume.                                                                 *)
(***************************************************************************)
EXTENDS Sst

CONSTANTS
    Keys,        \* user keys, positive numbers in memcmp order
    EntrySize,   \* bytes of an encoded entry
    BlockSize,   \* block_size of the parameters
    Params,      \* [thr, crc, bloom]: datablock_threshold, crc_flag, bloom_flag
    SstableSize, \* sstable_size
    FrontMeta,   \* FRONT_METADATA_SIZE
    HostProps,   \* struct rocksdb_host_properties_param
    PageSize,    \* SLM_PAGE_SIZE
    Cores,       \* num_cores of the CRC program
    Levels       \* the inputs: pairs of levels, a level is a sequence of files
                 \* and a file a sequence of entries

ASSUME SizesAssumption == EntrySize < BlockSize /\ EntrySize # 13

VARIABLES
    par,    \* the parameters, one of Params
    inp,    \* the two levels as the host gave them, file by file
    lev,    \* the same as one sequence of tokens per level
    rd,     \* per level [pos, cum]: tokens consumed, cumulative_*_level_block_size
    blk,    \* sst_block_size
    adj,    \* adjust_block_size_flag
    out,    \* the SSTable being written
    files,  \* the SSTables written, with their metadata
    wr,     \* logical_write_offset where the SSTable being written starts
    total,  \* what the program returns, total_io_size
    pc,     \* "merge", "rest", "crc", "done" or "lost"
    core    \* CRC programs that have run

vars == <<par, inp, lev, rd, blk, adj, out, files, wr, total, pc, core>>

MarkSize == 8 + TrailerSize
Mark == [key |-> 0, seq |-> 0]

Size(t) == IF t = Mark THEN MarkSize ELSE EntrySize

(* The checksum of a block is over its bytes: it is taken to be them. *)
NoSum == << >>

(* Data blocks as the host's table builder lays them out: as many entries  *)
(* as fit, and a shorter block at the end of a file.                       *)
PerBlock == (BlockSize - 1) \div EntrySize

BlocksOf(f) ==
    [b \in 1..((Len(f) + PerBlock - 1) \div PerBlock) |->
        SubSeq(f, (b - 1) * PerBlock + 1, Min({b * PerBlock, Len(f)}))]

Tokens(f) == FlattenSeq([b \in 1..Len(BlocksOf(f)) |-> Append(BlocksOf(f)[b], Mark)])

Data(fs) == FlattenSeq([i \in 1..Len(fs) |-> Tokens(fs[i])])

----------------------------------------------------------------------------
(* Writing an SSTable. *)
Fresh == [off |-> 0, boff |-> 0, cum |-> 0, cur |-> << >>, blocks |-> << >>,
          index |-> << >>, restarts |-> << >>, ibytes |-> 0, hashes |-> << >>,
          nblocks |-> 0, smallest |-> 0, minseq |-> 0, maxseq |-> 0, last |-> Mark]

(* __rocksdb_handle_index_block: an entry behind the others, and where it  *)
(* starts in the restart array.                                            *)
IndexEntry(o, size) ==
    LET e == [key |-> o.last.key, handle |-> Handle(o.boff, size)]
    IN  [o EXCEPT !.index = Append(@, e), !.restarts = Append(@, o.ibytes),
                  !.ibytes = @ + 4 + Len(e.handle)]

(* Faulty variant: the handle's size leaves out the restart array. *)
CloseBlock_NoRestart(o) ==
    [IndexEntry(o, o.cum) EXCEPT
        !.blocks  = Append(@, [data |-> o.cur, off |-> o.boff,
                               sum |-> IF par.crc THEN o.cur ELSE NoSum]),
        !.nblocks = @ + 1,
        !.off     = @ + MarkSize,
        !.boff    = o.off + MarkSize,
        !.cum     = 0,
        !.cur     = << >>]

(* The restart array, the index entry, the checksum and the trailer of the *)
(* block that ends here.                                                   *)
CloseBlock(o) ==
    [IndexEntry(o, o.cum + 8) EXCEPT
        !.blocks  = Append(@, [data |-> o.cur, off |-> o.boff,
                               sum |-> IF par.crc THEN o.cur ELSE NoSum]),
        !.nblocks = @ + 1,
        !.off     = @ + MarkSize,
        !.boff    = o.off + MarkSize,
        !.cum     = 0,
        !.cur     = << >>]

(* smallest_key, smallest_seqno, largest_seqno and the hash of one entry. *)
Noted(o, e) ==
    [o EXCEPT !.smallest = IF o.off = 0 THEN e.key ELSE @,
              !.minseq   = IF o.off = 0 \/ e.seq < @ THEN e.seq ELSE @,
              !.maxseq   = IF o.off = 0 \/ e.seq > @ THEN e.seq ELSE @,
              !.hashes   = Append(@, e.key)]

Added(o, e, limit) ==
    LET n == [Noted(o, e) EXCEPT !.off = @ + EntrySize, !.cum = @ + EntrySize,
                                 !.cur = Append(@, e), !.last = e]
    IN  IF n.cum >= limit THEN CloseBlock(n) ELSE n

(* The data block that is still open when a file ends. *)
LastBlock(o) == IF o.cum > 0 THEN CloseBlock(o) ELSE o

(* struct compacted_file_metadata. *)
MetaOf(o) ==
    [smallest |-> o.smallest, largest |-> o.last.key, minseq |-> o.minseq, maxseq |-> o.maxseq]

(* The restart array follows the index entries, with its length. *)
IndexBlock(o) ==
    [size |-> o.ibytes + 4 * (Len(o.restarts) + 1),
     body |-> [entries |-> o.index, restarts |-> o.restarts]]

(* struct compaction_properties when the tail is written. *)
PropertiesOf(o) ==
    [data_size |-> o.off, tail_start_offset |-> o.off, num_entries |-> Len(o.hashes),
     num_data_blocks |-> o.nblocks]

(* file_number and file_creation_time go up by one with every file. *)
HostPropertiesAt(n) ==
    [HostProps EXCEPT !.file_number = @ + n, !.file_creation_time = @ + n]

(* __rocksdb_finalized_sstable, __magic_rocksdb_finalized_sstable. *)
Finalized(o, n) ==
    LET tail == TableTail(PropertiesOf(o), HostPropertiesAt(n), par.bloom, o.hashes, IndexBlock(o))
    IN  [blocks |-> o.blocks, tail |-> tail, size |-> Last(tail).off + Last(tail).size,
         at |-> wr, meta |-> MetaOf(o)]

(* One entry leaves for the output, and its SSTable with it when           *)
(* output_offset has reached datablock_threshold.                          *)
FileDone(o) ==
    /\ files' = Append(files, Finalized(LastBlock(o), Len(files)))
    /\ wr' = wr + SstableSize      \* the padding is announced, not written
    /\ out' = Fresh

Emit(e, limit) ==
    LET o == Added(out, e, limit)
    IN  IF o.off >= par.thr THEN FileDone(o) ELSE out' = o /\ UNCHANGED <<files, wr>>

----------------------------------------------------------------------------
(* Reading a level. *)
AtEnd(l) == rd[l].pos >= Len(lev[l])
Head0(l) == lev[l][rd[l].pos + 1]

BytesLeft(l) == FoldLeft(LAMBDA n, t : n + Size(t), 0,
                         SubSeq(lev[l], rd[l].pos + 1, Len(lev[l])))

(* The entry at pos is consumed; when the count says that the block is     *)
(* over, the next 13 bytes are passed over as well.                        *)
Jumps(l) == rd[l].cum + EntrySize >= blk

Misses(l) ==
    /\ Jumps(l) /\ rd[l].pos + 2 <= Len(lev[l])
    /\ lev[l][rd[l].pos + 2] # Mark

Consumed(l) ==
    IF Jumps(l) THEN [pos |-> rd[l].pos + 2, cum |-> 0]
    ELSE [pos |-> rd[l].pos + 1, cum |-> rd[l].cum + EntrySize]

Lost == pc' = "lost" /\ UNCHANGED <<par, inp, lev, rd, blk, adj, out, files, wr, total, core>>

InitLevels ==
    /\ inp \in Levels
    /\ lev = [l \in 1..2 |-> Data(inp[l])]
    /\ rd = [l \in 1..2 |-> [pos |-> 0, cum |-> 0]]

Init ==
    /\ par \in Params
    /\ InitLevels
    /\ blk = BlockSize /\ adj = FALSE
    /\ out = Fresh /\ files = << >> /\ wr = 0 /\ total = 0
    /\ pc = "merge" /\ core = 0

(* A block that ended before its count did is recognised by its restart    *)
(* array, in the first level first.                                        *)
SkipMark(l) ==
    /\ pc = "merge" /\ ~AtEnd(1) /\ ~AtEnd(2)
    /\ Head0(l) = Mark
    /\ l = 2 => Head0(1) # Mark
    /\ rd' = [rd EXCEPT ![l] = [pos |-> @.pos + 1, cum |-> 0]]
    /\ UNCHANGED <<par, inp, lev, blk, adj, out, files, wr, total, pc, core>>

Merged(a, b) == IF a.key <= b.key THEN a ELSE b

Takes(a, b) == {l \in 1..2 : IF l = 1 THEN a.key <= b.key ELSE b.key <= a.key}

(* sst_block_size is lowered by the size of the first entry written. *)
MergeStep ==
    /\ pc = "merge" /\ ~AtEnd(1) /\ ~AtEnd(2)
    /\ Head0(1) # Mark /\ Head0(2) # Mark
    /\ LET took  == Takes(Head0(1), Head0(2))
           limit == IF ~adj /\ EntrySize < 1024 THEN blk - EntrySize ELSE blk
       IN  \/ \E l \in took : Misses(l) /\ Lost
           \/ /\ \A l \in took : ~Misses(l)
              /\ rd' = [l \in 1..2 |-> IF l \in took THEN Consumed(l) ELSE rd[l]]
              /\ blk' = limit /\ adj' = (adj \/ EntrySize < 1024)
              /\ Emit(Merged(Head0(1), Head0(2)), limit)
              /\ UNCHANGED <<par, inp, lev, total, pc, core>>

(* One level is used up: the other one, the second if it has anything      *)
(* left, is copied to its end.                                             *)
MergeEnd ==
    /\ pc = "merge" /\ (AtEnd(1) \/ AtEnd(2))
    /\ pc' = "rest"
    /\ UNCHANGED <<par, inp, lev, rd, blk, adj, out, files, wr, total, core>>

Left == IF AtEnd(2) THEN 1 ELSE 2

LastMark == BytesLeft(Left) = MarkSize

(* Here a Mark is only recognised as the last 13 bytes of the level. *)
RestStep ==
    /\ pc = "rest" /\ ~AtEnd(Left) /\ ~LastMark
    /\ \/ (Head0(Left) = Mark \/ Misses(Left)) /\ Lost
       \/ /\ Head0(Left) # Mark /\ ~Misses(Left)
          /\ rd' = [rd EXCEPT ![Left] = Consumed(Left)]
          /\ Emit(Head0(Left), blk)
          /\ UNCHANGED <<par, inp, lev, blk, adj, total, pc, core>>

(* The last SSTable, if anything is in it, without padding. *)
FinalFile ==
    IF out.off > 0
    THEN LET f == Finalized(LastBlock(out), Len(files))
         IN  files' = Append(files, f) /\ wr' = wr + f.size
    ELSE UNCHANGED <<files, wr>>

TotalIoSize(fs, open) ==
    FrontMeta + IF open THEN (Len(fs) - 1) * SstableSize + Last(fs).size
                ELSE Len(fs) * SstableSize

(* Then the CRC programs, unless the merge wrote the checksums. *)
RestEnd ==
    /\ pc = "rest" /\ (AtEnd(Left) \/ LastMark)
    /\ FinalFile
    /\ total' = TotalIoSize(files', out.off > 0)
    /\ out' = Fresh
    /\ pc' = IF par.crc THEN "done" ELSE "crc"
    /\ UNCHANGED <<par, inp, lev, rd, blk, adj, core>>

----------------------------------------------------------------------------
(* __rocksdb_crc_calculation: every core copies all blocks and computes    *)
(* the checksum of those whose offset falls on a page of its own.  It      *)
(* walks the blocks of a file until output_offset reaches the threshold or *)
(* the first bytes are no entry, and copies the rest as it is.             *)
Mine(off, c) == (off \div PageSize) % Cores = c

CrcBlock(b, c) == IF Mine(b.off, c) THEN [b EXCEPT !.sum = b.data] ELSE b

BlockEnd(b) == b.off + Len(b.data) * EntrySize + MarkSize

Walked(f, j) == \A i \in 1..(j - 1) : BlockEnd(f.blocks[i]) < par.thr

CrcFile(f, c) ==
    [f EXCEPT !.blocks = [j \in DOMAIN @ |-> IF Walked(f, j) THEN CrcBlock(@[j], c) ELSE @[j]]]

CrcCore ==
    /\ pc = "crc"
    /\ files' = [i \in DOMAIN files |-> CrcFile(files[i], core)]
    /\ core' = core + 1
    /\ pc' = IF core + 1 = Cores THEN "done" ELSE "crc"
    /\ UNCHANGED <<par, inp, lev, rd, blk, adj, out, wr, total>>

Next ==
    \/ \E l \in 1..2 : SkipMark(l)
    \/ MergeStep
    \/ MergeEnd
    \/ RestStep
    \/ RestEnd
    \/ CrcCore

Spec == Init /\ [][Next]_vars

----------------------------------------------------------------------------
(* Looking a key up. *)
NotFound == Mark
Wild == [key |-> -1, seq |-> -1]    \* memory that is no index or data entry

(* The index entry that a slot of the restart array leads to; the slot     *)
(* behind the last one holds the number of restarts.                       *)
NoEntry == [key |-> -1, handle |-> << >>]

IndexAt(index, slot) ==
    LET n      == Len(index.restarts)
        off    == IF slot < n THEN index.restarts[slot + 1] ELSE n
        starts == {j \in 1..n : index.restarts[j] = off}
    IN  IF starts = {} THEN NoEntry ELSE index.entries[CHOOSE j \in starts : TRUE]

(* The first of n blocks whose last key is not below k. *)
IndexSearch(index, n, k) ==
    LET bs[l \in Nat, r \in Nat] ==
            IF l >= r THEN l
            ELSE LET mid == l + (r - l) \div 2
                 IN  IF IndexAt(index, mid).key < k THEN bs[mid + 1, r]
                     ELSE IF IndexAt(index, mid).key > k THEN bs[l, mid] ELSE mid
    IN  bs[0, n]

(* search_data_block_binary: the number of entries is computed from the    *)
(* size in the handle.                                                     *)
DataSearch(data, size, k) ==
    LET n     == (size - 8) \div EntrySize
        at(i) == IF i < Len(data) THEN data[i + 1] ELSE Wild
        bs[l \in Nat, r \in Int] ==
            IF l > r THEN NotFound
            ELSE LET mid == l + (r - l) \div 2
                 IN  IF at(mid).key = k THEN at(mid)
                     ELSE IF at(mid).key < k THEN bs[mid + 1, r]
                     ELSE bs[l, mid - 1]
    IN  IF n = 1 THEN (IF at(0).key = k THEN at(0) ELSE NotFound)
        ELSE bs[0, n - 1]

(* The data block an index entry leads to. *)
SearchBlock(f, handle, k) ==
    LET h == GetHandle(handle)
        b == {j \in DOMAIN f.blocks : f.blocks[j].off = h.off}
    IN  IF b = {} THEN Wild ELSE DataSearch(f.blocks[CHOOSE j \in b : TRUE].data, h.size, k)

(* One file: filter, index block, data block, at the places the host found *)
(* when it opened the file.                                                *)
SearchFile(f, k) ==
    LET t == Open(f.tail, f.size)
        n == Property(t.properties, <<"num", "data", "blocks">>)
        e == IndexAt(t.index.body, IndexSearch(t.index.body, n, k))
    IN  IF ~t.ok THEN Wild
        ELSE IF t.filtered /\ ~BloomMayMatch(t.filter, k) THEN NotFound
        ELSE IF e = NoEntry THEN Wild
        ELSE SearchBlock(f, e.handle, k)

(* The read programs try the files they were given, newest level first,    *)
(* and stop at the first hit.                                              *)
Read(fs, k) ==
    LET hits == {i \in DOMAIN fs : SearchFile(fs[i], k) # NotFound}
    IN  IF hits = {} THEN NotFound ELSE SearchFile(fs[Min(hits)], k)

(* The host asks for files whose key range holds the key. *)
Holding(fs, k) ==
    SelectSeq(fs, LAMBDA f : f.meta.smallest <= k /\ k <= f.meta.largest)

----------------------------------------------------------------------------
Entries(f) == FlattenSeq([j \in 1..Len(f.blocks) |-> f.blocks[j].data])

Newest(k) ==
    LET at(l) == {e \in UNION {Range(inp[l][i]) : i \in DOMAIN inp[l]} : e.key = k}
    IN  IF at(1) # {} THEN CHOOSE e \in at(1) : TRUE
        ELSE IF at(2) # {} THEN CHOOSE e \in at(2) : TRUE
        ELSE NotFound

(* A file of the level ends in a short block and another one follows it. *)
ShortBefore(l) ==
    \E i \in 1..(Len(inp[l]) - 1) : Len(inp[l][i]) % PerBlock # 0

(* A lookup in the SSTables a compaction has written finds for every key   *)
(* the entry of the first level, else that of the second, else nothing:    *)
(* merge, block building, index, filter and the two binary searches agree. *)
(* And a merge gets to its end, unless a short block in the middle of a    *)
(* level made it lose its place.                                           *)
LookupPreserved ==
    /\ pc = "done" => \A k \in Keys : Read(Holding(files, k), k) = Newest(k)
    /\ pc = "lost" => ShortBefore(1) \/ ShortBefore(2)

(* A file is written as the next compaction expects to read it: blocks of  *)
(* PerBlock entries but for the last, sorted, each with its own checksum.  *)
(* The metadata handed to the host describes exactly these entries, the    *)
(* properties block says under every name what that name means, and the    *)
(* files lie where the host cuts the output.                               *)
FilesExact ==
    pc = "done" =>
        /\ total = FrontMeta + wr
        /\ \A i \in DOMAIN files :
            LET f  == files[i]
                es == Entries(f)
                p  == Open(f.tail, f.size).properties
                end == Len(es) * EntrySize + Len(f.blocks) * MarkSize
            IN  /\ [j \in DOMAIN f.blocks |-> f.blocks[j].data] = BlocksOf(es)
                /\ \A j \in DOMAIN f.blocks : f.blocks[j].sum = f.blocks[j].data
                /\ \A j \in 1..(Len(es) - 1) : es[j].key < es[j + 1].key
                /\ f.meta = [smallest |-> es[1].key, largest |-> Last(es).key,
                             minseq |-> Min({e.seq : e \in Range(es)}),
                             maxseq |-> Max({e.seq : e \in Range(es)})]
                /\ Property(p, <<"num", "entries">>) = Len(es)
                /\ Property(p, <<"num", "filter_entries">>) = IF par.bloom THEN Len(es) ELSE 0
                /\ Property(p, <<"data", "size">>) = end
                /\ Property(p, <<"tail", "start", "offset">>) = end
                /\ par.bloom => Property(p, <<"filter", "size">>) = CalculateSpace(Len(es))
                /\ Property(p, <<"index", "size">>) = Open(f.tail, f.size).index.size + TrailerSize
                /\ Property(p, <<"index", "key", "is", "user", "key">>) = 1
                /\ Property(p, <<"original", "file", "number">>) = HostProps.file_number + i - 1
                /\ f.at = (i - 1) * SstableSize /\ f.size <= SstableSize
                /\ i > 1 => files[i - 1].meta.largest < f.meta.smallest
=============================================================================
