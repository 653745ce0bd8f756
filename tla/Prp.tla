--------------------------------- MODULE Prp ---------------------------------
(***************************************************************************)
(* Where the bytes of a command lie in host memory.  A command names its   *)
(* first page, with an offset, in prp1; prp2 is unused, names the second   *)
(* page, or names a list of the pages that follow.  The device has no flag *)
(* that says which: it decides by the bytes that remain (__do_perform_io,  *)
(* __do_perform_io_using_dma, get_prp_data, __copy_prp_data, KV FTL).      *)
(***************************************************************************)
EXTENDS Integers, Sequences, FiniteSets, SequencesExt

CONSTANT HostPage   \* PAGE_SIZE of the host

ASSUME HostPageAssumption == HostPage \in Nat \ {0}

Nowhere == -1       \* memory that does not belong to the transfer

AtMost(a, b) == IF a <= b THEN a ELSE b

(* Byte i of a buffer that starts at off in the first of pages. *)
HostByte(off, pages, i) ==
    pages[(off + i) \div HostPage + 1] * HostPage + ((off + i) % HostPage)

(* What the host's driver puts into a command for n bytes. *)
Prps(off, pages, n) ==
    LET addr(i) == pages[i] * HostPage
        used    == (off + n + HostPage - 1) \div HostPage
    IN  [prp1 |-> addr(1) + off,
         prp2 |-> CASE used = 1 -> [kind |-> "none"]
                    [] used = 2 -> [kind |-> "page", addr |-> addr(2)]
                    [] OTHER    -> [kind |-> "list", addrs |-> [i \in 1..(used - 1) |-> addr(i + 1)]]]

ListEntry(p, i) ==
    IF p.prp2.kind = "list" /\ i \in DOMAIN p.prp2.addrs THEN p.prp2.addrs[i] ELSE Nowhere

Direct(p) == IF p.prp2.kind = "page" THEN p.prp2.addr ELSE Nowhere

(* The address of the k-th piece when rem bytes remain. *)
PieceAddr(p, k, rem, adjusted) ==
    IF k = 1 THEN p.prp1
    ELSE IF k > 2 \/ rem > HostPage \/ adjusted THEN ListEntry(p, k - 1)
    ELSE Direct(p)

PieceSize(addr, rem) == AtMost(AtMost(rem, HostPage), HostPage - (addr % HostPage))

(* One round of the walk: w.rem bytes remain after the pieces w.done. *)
Round(p, adjusted, w) ==
    LET a == PieceAddr(p, Len(w.done) + 1, w.rem, adjusted)
        s == PieceSize(a, w.rem)
    IN  IF w.rem = 0 THEN w
        ELSE [rem |-> w.rem - s, done |-> Append(w.done, [addr |-> a, size |-> s])]

(* The pieces of a transfer of n bytes: [addr, size], in order.  Every     *)
(* round moves a byte at least.                                            *)
Pieces(p, n, adjusted) ==
    LET after[i \in 0..n] ==
            IF i = 0 THEN [rem |-> n, done |-> << >>] ELSE Round(p, adjusted, after[i - 1])
    IN  after[n].done

(* The address of every byte, in the order of the data. *)
Bytes(pieces) ==
    FlattenSeq([i \in DOMAIN pieces |->
        [b \in 1..pieces[i].size |->
            IF pieces[i].addr = Nowhere THEN Nowhere ELSE pieces[i].addr + b - 1]])

PerformIo(p, n, adjusted) == Bytes(Pieces(p, n, adjusted))

GetPrpData(p, n) == Bytes(Pieces(p, n, FALSE))

(* __copy_prp_data: parameters and results of the dispatcher's commands. *)
CopyPrpData(p, n) == Bytes(Pieces(p, n, FALSE))

(* The DMA path collects the addresses first; then it joins pages that     *)
(* follow each other into one transfer.                                    *)
JoinedUpTo(addrs, k) ==
    LET breaks == {j \in (k + 1)..Len(addrs) : addrs[j] # addrs[j - 1] + HostPage}
    IN  IF breaks = {} THEN Len(addrs) ELSE (CHOOSE j \in breaks : \A i \in breaks : j <= i) - 1

(* One transfer: w.rem bytes remain and addrs[w.at] is the next page. *)
DmaRound(addrs, w) ==
    LET last == JoinedUpTo(addrs, w.at)
        s    == AtMost(w.rem, PieceSize(addrs[w.at], w.rem) + (last - w.at) * HostPage)
    IN  IF w.rem = 0 THEN w
        ELSE [at |-> last + 1, rem |-> w.rem - s,
              done |-> Append(w.done, [addr |-> addrs[w.at], size |-> s])]

DmaTransfers(addrs, n) ==
    LET after[i \in 0..n] ==
            IF i = 0 THEN [at |-> 1, rem |-> n, done |-> << >>] ELSE DmaRound(addrs, after[i - 1])
    IN  after[n].done

PerformIoUsingDma(p, n) ==
    LET ps == Pieces(p, n, FALSE)
    IN  Bytes(DmaTransfers([k \in DOMAIN ps |-> ps[k].addr], n))
=============================================================================
