---------------------------- MODULE HostTransfer ----------------------------
(***************************************************************************)
(* HostReadout together with the way its bytes take into host memory: the  *)
(* host has built the PRPs of a read for the length it asked for, the      *)
(* device walks them for the length that is left after the end-of-data     *)
(* clamp.  cdw13 of the command, set by csd_proc_nvme_io_cmd, says that    *)
(* the two differ.                                                         *)
(***************************************************************************)
EXTENDS HostReadout, Prp

CONSTANT HostBuffers   \* host buffers: sequences of page numbers

(* The host has a page for every byte it asks for, wherever it starts. *)
ASSUME TransferAssumption ==
    /\ HostBuffers \subseteq Seq(Nat)
    /\ \A n \in HostLens, b \in HostBuffers : n + HostPage - 1 <= Len(b) * HostPage

(* Faulty variant: the flag is never set. *)
IsAdjusted_Never == FALSE

(* csd_proc_nvme_io_cmd sets cdw13 when the clamp has changed the length. *)
IsAdjusted == clamped # len

(* The bytes an I/O worker copies, as it finds the buffer. *)
Transfer(off, pages) == PerformIo(Prps(off, pages, len), clamped, IsAdjusted)

InOrder(off, pages, n) == [i \in 1..n |-> HostByte(off, pages, i - 1)]

(* cdw13 makes the device take prp2 of a shortened read for a list, which  *)
(* it surely is when more than two pages were asked for.                   *)
ListKnown == clamped # len => len > 2 * HostPage

(* Whatever the alignment and the layout of the host's buffer: every byte  *)
(* of an answer, whole, or shortened where the host gave a list, is stored *)
(* where the host expects that byte of its buffer, and a transfer of the   *)
(* length asked for takes the same way in every walk over PRPs the device  *)
(* has (io.c, the dispatcher's copy of parameters and results, the DMA     *)
(* engine).                                                                *)
AnswerLandsInPlace ==
    hpc = "copy" => \A off \in 0..(HostPage - 1), pages \in HostBuffers :
        LET asked == Prps(off, pages, len)
        IN  /\ ListKnown => Transfer(off, pages) = InOrder(off, pages, clamped)
            /\ GetPrpData(asked, len) = InOrder(off, pages, len)
            /\ CopyPrpData(asked, len) = InOrder(off, pages, len)
            /\ PerformIoUsingDma(asked, len) = InOrder(off, pages, len)
=============================================================================
