----------------------------- MODULE MCConvFtl ------------------------------
(* Logical pages are only compared, so they may be permuted. *)
EXTENDS ConvFtl, TLC

Symmetry == Permutations(Lpns)
=============================================================================
