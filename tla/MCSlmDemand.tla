---------------------------- MODULE MCSlmDemand -----------------------------
(* Regions for SlmDemand: files of one or two extents, which lie on the    *)
(* flash in no order, and the blocks a lookup reads (filter, index, data   *)
(* block).                                                                 *)
EXTENDS SlmDemand

On(physical, length) == [physical |-> physical, length |-> length]
Blk(off, len) == [off |-> off, len |-> len]
NoOut == [len |-> 0, piece |-> 1, ask |-> 1, pages |-> FALSE]

Region(kind, read, map, from, size, lists, blocks) ==
    [kind |-> kind, total |-> read.total, sres |-> read.sres,
     flash |-> Flash(<<[size |-> size, map |-> map]>>), from |-> from, skip |-> 0,
     lists |-> lists, blocks |-> blocks, acks |-> FALSE, out |-> NoOut]
File(pieces, size, lists, blocks) ==
    Region("packed", ReadWhole(Fiemap(pieces), size), Fiemap(pieces), 0, size, lists, blocks)
Direct(pieces, size, off, len) ==
    [Region("natural", ReadPart(Fiemap(pieces), size, off, len), Fiemap(pieces), SectorDown(off),
            size, 1, <<Blk(0, len)>>) EXCEPT !.skip = off - SectorDown(off)]

(* Blocks far from the prefetch; the data block crosses two source ranges, *)
(* all requests in one list.                                               *)
Scattered == File(<<On(60, 22), On(8, 20)>>, 41, 1, <<Blk(26, 6), Blk(32, 9), Blk(18, 8)>>)
(* The same, every block inside one source range, requests in two lists. *)
OneRange == File(<<On(10, 42)>>, 41, 2, <<Blk(26, 6), Blk(32, 9), Blk(18, 8)>>)
(* Everything within the first two pages; a stream that outgrows the       *)
(* prefetch; a file the lookup never touches.                              *)
Tiny == File(<<On(4, 12)>>, 9, 1, <<Blk(4, 5), Blk(0, 3)>>)
Streamed == File(<<On(50, 24)>>, 21, 1, <<Blk(4, 17), Blk(0, 4)>>)
Untouched == File(<<On(0, 20)>>, 17, 1, << >>)
(* One block at a known place: inside the second extent, across the two,   *)
(* at the end of the file.                                                 *)
Known == {Direct(<<On(60, 22), On(8, 20)>>, 41, b.off, b.len) : b \in {Blk(27, 5), Blk(19, 7), Blk(35, 6)}}

(* The same blocks at their own offsets; a stream that is consumed page by *)
(* page; output in pieces of odd length, and at once, with a last read     *)
(* that passes its end in the same page.                                   *)
NatScattered == [Scattered EXCEPT !.kind = "natural"]
NatStreamed == [File(<<On(0, 32)>>, 29, 1, <<Blk(0, 4), Blk(4, 8), Blk(12, 8), Blk(20, 9)>>)
                    EXCEPT !.kind = "natural", !.acks = TRUE]
Output(len, piece, ask, pages) == [len |-> len, piece |-> piece, ask |-> ask, pages |-> pages]
NatOutput == [File(<<On(0, 20)>>, 17, 1, <<Blk(0, 3)>>) EXCEPT !.kind = "natural"]
NatOneRange == [OneRange EXCEPT !.kind = "natural", !.out = Output(5, 3, 4, TRUE)]
NatLayouts == {NatScattered, NatOneRange, NatStreamed}
    \cup {[NatOutput EXCEPT !.out = o] :
             o \in {Output(9, 5, 8, TRUE), Output(16, 6, 8, TRUE), Output(10, 10, 4, FALSE), Output(5, 5, 8, FALSE)}}

SoundLayouts == {Scattered, OneRange, Tiny, Streamed, Untouched} \cup Known \cup NatLayouts
=============================================================================
