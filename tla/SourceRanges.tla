---------------------------- MODULE SourceRanges ----------------------------
(***************************************************************************)
(* From files to flash and back.  The host library turns the extents of a  *)
(* file (FS_IOC_FIEMAP) into source range entries (lib/CSDVirt.cpp); the   *)
(* device finds the LBA, the length and the offset within the sector of    *)
(* an I/O from a byte offset into their concatenation (csd_dispatcher.c).  *)
(*                                                                         *)
(* An extent is [logical, physical, length], a range [saddr, nByte]; all   *)
(* in bytes but saddr, which counts sectors.                               *)
(***************************************************************************)
EXTENDS Integers, Sequences, FiniteSets, FiniteSetsExt, SequencesExt

CONSTANTS
    SECTOR,     \* the 512-byte unit of an LBA
    MaxSres,    \* entries a command has room for (100; 25 per file of a lookup)
    MaxFiemap   \* MAX_EXTENTS of the calls that keep the extents on the stack

ASSUME RangesAssumption == {SECTOR, MaxSres, MaxFiemap} \subseteq Nat \ {0}

DivUp(a, b) == (a + b - 1) \div b
Lesser(a, b) == IF a < b THEN a ELSE b
Greater(a, b) == IF a > b THEN a ELSE b
SectorUp(n) == DivUp(n, SECTOR) * SECTOR
SectorDown(n) == (n \div SECTOR) * SECTOR

----------------------------------------------------------------------------
(* The host *)

(* The sum of the first n of these lengths. *)
SumTo(lens, n) ==
    LET sum[k \in 0..n] == IF k = 0 THEN 0 ELSE sum[k - 1] + lens[k] IN sum[n]

(* The extents of a file whose pieces lie at these places, as fiemap lists *)
(* them: in the order of the file, without holes.                          *)
Fiemap(pieces) ==
    [i \in DOMAIN pieces |->
        [logical  |-> SumTo([j \in DOMAIN pieces |-> pieces[j].length], i - 1),
         physical |-> pieces[i].physical, length |-> pieces[i].length]]

GetLbaStack(map) == SubSeq(map, 1, Lesser(Len(map), MaxFiemap))

(* The ranges of the first `size' bytes: the extents one after the other,  *)
(* the last one cut to what is left.                                       *)
WholeFile(map, size) ==
    LET walk[i \in 0..Len(map)] ==
            IF i = 0 THEN [left |-> size, sres |-> << >>]
            ELSE LET w   == walk[i - 1]
                     len == Lesser(map[i].length, w.left)
                 IN  IF w.left = 0 THEN w
                     ELSE [left |-> w.left - len,
                           sres |-> Append(w.sres, [saddr |-> map[i].physical \div SECTOR, nByte |-> len])]
    IN  walk[Len(map)].sres

(* The ranges of `size' bytes from offset `from'. *)
PartOfFile(map, from, size) ==
    LET walk[i \in 0..Len(map)] ==
            IF i = 0 THEN [at |-> from, left |-> size, sres |-> << >>]
            ELSE LET w   == walk[i - 1]
                     e   == map[i]
                     len == Lesser(w.left, e.logical + e.length - w.at)
                 IN  IF w.left > 0 /\ w.at \in e.logical..(e.logical + e.length - 1)
                     THEN [at |-> w.at + len, left |-> w.left - len,
                           sres |-> Append(w.sres,
                                       [saddr |-> (e.physical + w.at - e.logical) \div SECTOR, nByte |-> len])]
                     ELSE w
    IN  walk[Len(map)].sres

Described(sres) == SubSeq(sres, 1, Lesser(Len(sres), MaxSres))

(* csdvirt_magic_compaction for one level: the ranges of all its files,    *)
(* as many as fit; the size is that of the files.                          *)
CompactionLevel(files) ==
    [sres  |-> Described(FlattenSeq([i \in DOMAIN files |-> WholeFile(files[i].map, files[i].size)])),
     total |-> SumTo([i \in DOMAIN files |-> files[i].size], Len(files))]

(* csdvirt_magic_read of a file that is searched from its filter on, *)
ReadWhole(map, size) ==
    [sres |-> Described(WholeFile(GetLbaStack(map), size)), total |-> size]

(* and of one data block whose place the host knows: widened to sectors,   *)
(* but not beyond the file.                                                *)
ReadPart(map, fileSize, off, len) ==
    LET from == SectorDown(off)
        size == Lesser(SectorUp(off - from + len), SectorUp(fileSize - from))
    IN  [sres |-> Described(PartOfFile(GetLbaStack(map), from, size)), total |-> size]

----------------------------------------------------------------------------
(* The device *)

(* Where range i begins in the concatenation. *)
RangeStart(sres, i) == SumTo([j \in DOMAIN sres |-> sres[j].nByte], i - 1)

(* The walk over sre[]: the first range that `off' does not lie behind. *)
RangeAt(sres, off) ==
    Min({i \in DOMAIN sres : off < RangeStart(sres, i) + sres[i].nByte} \cup {Len(sres) + 1})

CalculateLba(sres, off) ==
    LET i == RangeAt(sres, off)
    IN  sres[Lesser(i, Len(sres))].saddr + (off - RangeStart(sres, i)) \div SECTOR

(* Whole sectors, clipped to the range; nothing behind the last one. *)
CalculateIoSize(sres, off, size) ==
    LET i == RangeAt(sres, off)
    IN  IF i > Len(sres) THEN 0
        ELSE Lesser(SectorUp(size), (RangeStart(sres, i) + sres[i].nByte) - off)

CalculateLocalOffset(sres, off) == (off - RangeStart(sres, RangeAt(sres, off))) % SECTOR

----------------------------------------------------------------------------
(* The walk of the device in one: the byte address of an I/O. *)
DeviceAddr(sres, off) == CalculateLba(sres, off) * SECTOR + CalculateLocalOffset(sres, off)

(* Where byte b of a file lies on the flash. *)
DeviceByte(map, b) ==
    LET e == map[CHOOSE i \in DOMAIN map : b \in map[i].logical..(map[i].logical + map[i].length - 1)]
    IN  e.physical + b - e.logical

(* Where file k begins in the stream of all files. *)
FileStart(files, k) == SumTo([j \in DOMAIN files |-> files[j].size], k - 1)

(* The files as they lie on the flash: device byte |-> byte of the stream. *)
Flash(files) ==
    LET bytes == UNION {{k} \X (0..(files[k].size - 1)) : k \in DOMAIN files}
        place(x) == DeviceByte(files[x[1]].map, x[2])
    IN  [a \in {place(x) : x \in bytes} |->
            LET x == CHOOSE x \in bytes : place(x) = a IN FileStart(files, x[1]) + x[2]]

ReadFlash(flash, a) == IF a \in DOMAIN flash THEN flash[a] ELSE -1
=============================================================================
