----------------------------- MODULE MCCrcStage -----------------------------
(* Instances of CrcStage for TLC. *)
EXTENDS CrcStage, TLC

(* SSTables of 27 bytes in a ring of 32: a block of the second and one of  *)
(* the third straddle the ring end.  The first SSTable is padded; the last *)
(* may be cut short by the end of the stream, which is not a page's end.   *)
Blocks ==
    0  :> [entry |-> 3, count |-> 4] @@
    13 :> [entry |-> 2, count |-> 2] @@
    27 :> [entry |-> 4, count |-> 2] @@
    36 :> [entry |-> 1, count |-> 8] @@
    54 :> [entry |-> 3, count |-> 4]

AnyLast == {Blocks, Blocks @@ 67 :> [entry |-> 1, count |-> 3]}
=============================================================================
