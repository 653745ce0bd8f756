--------------------------- MODULE MCHostTransfer ---------------------------
EXTENDS HostTransfer

(* Pages that follow each other, in part, backwards and not at all. *)
SomeBuffers == {<<3, 4, 5, 6>>, <<3, 4, 7, 8>>, <<6, 5, 4, 3>>, <<2, 9, 5, 6>>}
=============================================================================
