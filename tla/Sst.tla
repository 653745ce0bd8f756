--------------------------------- MODULE Sst ---------------------------------
(***************************************************************************)
(* The parts of an SSTable behind its data blocks, as the compaction       *)
(* programs write them (__rocksdb_finalized_sstable,                       *)
(* __magic_rocksdb_finalized_sstable, __rocksdb_write_properties_block,    *)
(* user_func_bloom.h) and as the host opens them: Bloom filter, index      *)
(* block, properties block, metaindex block and footer.                    *)
(*                                                                         *)
(* A block is [off, size, body].  A body is what its bytes decode to; its  *)
(* size is counted in bytes, a name or a string counting as one.  Offsets  *)
(* and sizes reach a reader only through varint handles.                   *)
(***************************************************************************)
EXTENDS Integers, Sequences, FiniteSets, FiniteSetsExt, SequencesExt

CONSTANTS
    Base,        \* 128: a varint byte holds 7 bits and the continuation flag
    HashBuf,     \* kBufferMask + 1 in AddAllEntries
    LineBytes,   \* bytes of a filter's cache line, 64
    BitsPerKey   \* bits_per_key of the parameters

TrailerSize == 5
FooterSize == 53
MetadataLen == 5

CeilDiv(a, b) == (a + b - 1) \div b

----------------------------------------------------------------------------
(* Block handles are stored as two varints, lowest digits first. *)
PutVarint64(v) ==
    LET put[n \in Nat] == IF n >= Base THEN <<Base + (n % Base)>> \o put[n \div Base]
                          ELSE <<n>>
    IN  put[v]

GetVarint64(s) ==
    LET n == Min({i \in DOMAIN s : s[i] < Base})
        get[i \in Nat] == IF i > n THEN 0 ELSE (s[i] % Base) + Base * get[i + 1]
    IN  [value |-> get[1], rest |-> SubSeq(s, n + 1, Len(s))]

Handle(off, size) == PutVarint64(off) \o PutVarint64(size)

GetHandle(s) ==
    LET off  == GetVarint64(s)
        size == GetVarint64(off.rest)
    IN  [off |-> off.value, size |-> size.value, rest |-> size.rest]

----------------------------------------------------------------------------
(* The Bloom filter. *)
CalculateSpace(n) == CeilDiv(CeilDiv(n * BitsPerKey, 8), LineBytes) * LineBytes + MetadataLen

GetNumProbes(n, len) ==
    LET millibits == ((len - MetadataLen) * 8000) \div n
        steps     == <<2080, 3580, 5100, 6640, 8300, 10070, 11720, 14001, 16050,
                       18300, 22001, 25501>>
        above     == {i \in DOMAIN steps : millibits <= steps[i]}
    IN  IF above # {} THEN Min(above)
        ELSE IF millibits > 50000 THEN 24
        ELSE (millibits - 1) \div 2000 - 1

(* The cache line of a key in a filter of len bytes, and the bits probed   *)
(* in it.  The hash of a key is the key.                                   *)
Line(k, len) == k % ((len - MetadataLen) \div LineBytes)

Probed(k, len, probes) ==
    {<<Line(k, len), (k * (2 * i + 1)) % (8 * LineBytes)>> : i \in 1..probes}

(* hash_entry_ptr[] goes through a buffer of HashBuf hashes. *)
AddAllEntries(hashes, len, probes) ==
    LET step(s, h) ==
            IF Len(s.buf) < HashBuf THEN [s EXCEPT !.buf = Append(@, h), !.i = @ + 1]
            ELSE [buf  |-> [s.buf EXCEPT ![(s.i % HashBuf) + 1] = h],
                  bits |-> s.bits \cup Probed(s.buf[(s.i % HashBuf) + 1], len, probes),
                  i    |-> s.i + 1]
        all == FoldLeft(step, [buf |-> << >>, bits |-> {}, i |-> 0], hashes)
    IN  all.bits \cup UNION {Probed(h, len, probes) : h \in Range(all.buf)}

FilterBlock(hashes) ==
    LET len    == CalculateSpace(Len(hashes))
        probes == GetNumProbes(Len(hashes), len)
    IN  [size |-> len,
         body |-> [bits |-> AddAllEntries(hashes, len, probes), probes |-> probes]]

BloomMayMatch(filter, k) ==
    \/ filter.body.probes \notin 1..30
    \/ Probed(k, filter.size, filter.body.probes) \subseteq filter.body.bits

----------------------------------------------------------------------------
(* The properties block.  Names are given by their components, without the *)
(* leading "rocksdb" that all of them share, in the order of the arrays.   *)
NamesWithout == <<
    <<"block", "based", "table", "index", "type">>,
    <<"block", "based", "table", "prefix", "filtering">>,
    <<"block", "based", "table", "whole", "key", "filtering">>,
    <<"column", "family", "id">>, <<"column", "family", "name">>,
    <<"comparator">>, <<"compression">>, <<"compression_options">>,
    <<"creating", "db", "identity">>, <<"creating", "session", "identity">>,
    <<"creation", "time">>, <<"data", "size">>, <<"deleted", "keys">>,
    <<"file", "creation", "time">>,
    <<"filter", "size">>, <<"fixed", "key", "length">>, <<"format", "version">>,
    <<"index", "key", "is", "user", "key">>, <<"index", "size">>,
    <<"index", "value", "is", "delta", "encoded">>,
    <<"merge", "operands">>, <<"merge", "operator">>,
    <<"num", "data", "blocks">>, <<"num", "entries">>,
    <<"num", "filter_entries">>, <<"num", "range-deletions">>,
    <<"oldest", "key", "time">>, <<"original", "file", "number">>,
    <<"prefix", "extractor", "name">>, <<"property", "collectors">>,
    <<"raw", "key", "size">>, <<"raw", "value", "size">>,
    <<"tail", "start", "offset">> >>

Names == [b \in BOOLEAN |->
    IF b THEN InsertAt(NamesWithout, 15, <<"filter", "policy">>) ELSE NamesWithout]

(* table_char_values: what a property is if it is no number, by index. *)
CharValues == [b \in BOOLEAN |->
    LET at(i) == IF b /\ i > 14 THEN i + 1 ELSE i
    IN  (0 :> "fixed32" @@ 1 :> "0" @@ 2 :> "1" @@ 4 :> "default" @@ 5 :> "comparator"
         @@ 6 :> "NoCompression" @@ 7 :> "options" @@ 8 :> "db_id" @@ 9 :> "db_session_id"
         @@ at(21) :> "nullptr" @@ at(28) :> "nullptr" @@ at(29) :> "[]")
        @@ IF b THEN 14 :> "bloomfilter" ELSE << >>]

(* Faulty variant: the comment's index of filter_policy, 15, is believed. *)
Uint64Values_Shifted(p, h) ==
    10 :> h.creation_time @@ 11 :> p.data_size @@ 13 :> h.file_creation_time @@
    IF p.filter_size > 0
    THEN 16 :> p.filter_size @@ 18 :> 1 @@ 19 :> p.index_size @@ 23 :> p.num_data_blocks
         @@ 24 :> p.num_entries @@ 25 :> p.num_entries @@ 28 :> h.file_number
         @@ 33 :> p.tail_start_offset
    ELSE 17 :> 1 @@ 18 :> p.index_size @@ 22 :> p.num_data_blocks @@ 23 :> p.num_entries
         @@ 27 :> h.file_number @@ 32 :> p.tail_start_offset

(* table_uint64_t_values, by index; the others are 0. *)
Uint64Values(p, h) ==
    10 :> h.creation_time @@ 11 :> p.data_size @@ 13 :> h.file_creation_time @@
    IF p.filter_size > 0
    THEN 15 :> p.filter_size @@ 18 :> 1 @@ 19 :> p.index_size @@ 23 :> p.num_data_blocks
         @@ 24 :> p.num_entries @@ 25 :> p.num_entries @@ 28 :> h.file_number
         @@ 33 :> p.tail_start_offset
    ELSE 17 :> 1 @@ 18 :> p.index_size @@ 22 :> p.num_data_blocks @@ 23 :> p.num_entries
         @@ 27 :> h.file_number @@ 32 :> p.tail_start_offset

DifferenceOffset(last, name) == Len(LongestCommonPrefix({last, name}))

(* The keys of the block: each shares a prefix with the one before it. *)
EncodedNames == [b \in BOOLEAN |->
    [i \in DOMAIN Names[b] |->
        LET shared == IF i = 1 THEN 0 ELSE DifferenceOffset(Names[b][i - 1], Names[b][i])
        IN  [shared |-> shared, rest |-> SubSeq(Names[b][i], shared + 1, Len(Names[b][i]))]]]

(* A value without a string is a varint. *)
PropertyValue(i, b, numbers) ==
    IF i \in DOMAIN CharValues[b] THEN CharValues[b][i]
    ELSE PutVarint64(IF i \in DOMAIN numbers THEN numbers[i] ELSE 0)

ValueSize(i, b, v) == IF i \in DOMAIN CharValues[b] THEN 1 ELSE Len(v)

(* The names of a block are EncodedNames[with]. *)
PropertiesBlock(p, h) ==
    LET b       == p.filter_size > 0
        numbers == Uint64Values(p, h)
        vals    == [i \in DOMAIN Names[b] |-> PropertyValue(i - 1, b, numbers)]
        bytes(n, i) == n + 3 + Len(EncodedNames[b][i].rest) + ValueSize(i - 1, b, vals[i])
    IN  [size |-> FoldLeft(bytes, 8, [i \in DOMAIN vals |-> i]),
         body |-> [with |-> b, vals |-> vals]]

(* A reader puts the names together again. *)
DecodedNames(enc) ==
    LET name[i \in 1..Len(enc)] ==
            (IF i = 1 THEN << >> ELSE SubSeq(name[i - 1], 1, enc[i].shared)) \o enc[i].rest
    IN  [i \in DOMAIN enc |-> name[i]]

Decoded == [b \in BOOLEAN |-> DecodedNames(EncodedNames[b])]

(* The numeric property of a name. *)
Property(block, name) ==
    LET names == Decoded[block.body.with]
        i     == CHOOSE j \in DOMAIN names : names[j] = name
    IN  GetVarint64(block.body.vals[i]).value

----------------------------------------------------------------------------
(* The metaindex block and the footer. *)
MetaIndexBlock(handles) ==
    [size |-> FoldLeft(LAMBDA n, e : n + 4 + Len(e.handle) + 4, 4, handles),
     body |-> handles]

Footer(meta, index) == Handle(meta.off, meta.size) \o Handle(index.off, index.size)

(* Blocks behind each other, each with its trailer: t has those written so *)
(* far and the offset of the next one.                                     *)
Behind(t, block) ==
    [blocks |-> Append(t.blocks, [off |-> t.end, size |-> block.size, body |-> block.body]),
     end    |-> t.end + block.size + TrailerSize]

WithFilter(t, hashes) == Behind(t, FilterBlock(hashes))

(* The sizes of filter and index are properties. *)
WithProperties(t, p, h, bloom) ==
    Behind(t, PropertiesBlock(p @@ [filter_size |-> IF bloom THEN t.blocks[1].size ELSE 0,
                                    index_size  |-> Last(t.blocks).size + TrailerSize], h))

Named(name, block) == [name |-> name, handle |-> Handle(block.off, block.size)]

WithMetaIndex(t, bloom) ==
    Behind(t, MetaIndexBlock((IF bloom THEN <<Named("filter", t.blocks[1])>> ELSE << >>)
                             \o <<Named("properties", Last(t.blocks))>>))

(* The index block is the last but two. *)
WithFooter(t) ==
    Append(t.blocks, [off |-> t.end, size |-> FooterSize,
                      body |-> Footer(Last(t.blocks), t.blocks[Len(t.blocks) - 2])])

(* Everything behind the data blocks, which end at p.data_size. *)
TableTail(p, h, bloom, hashes, index) ==
    LET data     == [blocks |-> << >>, end |-> p.data_size]
        filtered == IF bloom THEN WithFilter(data, hashes) ELSE data
    IN  WithFooter(WithMetaIndex(WithProperties(Behind(filtered, index), p, h, bloom), bloom))

----------------------------------------------------------------------------
(* Opening a file of a given size. *)
NoBlock == [off |-> -1, size |-> -1, body |-> << >>]

BlockAt(tail, h) ==
    LET at == {b \in Range(tail) : b.off = h.off /\ b.size = h.size}
    IN  IF at = {} THEN NoBlock ELSE CHOOSE b \in at : TRUE

(* The blocks a reader reaches from the footer. *)
Open(tail, size) ==
    LET foot  == BlockAt(tail, [off |-> size - FooterSize, size |-> FooterSize])
        mh    == GetHandle(foot.body)
        ih    == GetHandle(mh.rest)
        meta  == BlockAt(tail, mh)
        named(n) == {i \in DOMAIN meta.body : meta.body[i].name = n}
        get(n)   == BlockAt(tail, GetHandle(meta.body[CHOOSE i \in named(n) : TRUE].handle))
    IN  IF foot = NoBlock \/ meta = NoBlock THEN [ok |-> FALSE]
        ELSE [ok |-> TRUE, index |-> BlockAt(tail, ih), properties |-> get("properties"),
              filtered |-> named("filter") # {},
              filter |-> IF named("filter") # {} THEN get("filter") ELSE NoBlock]
=============================================================================
