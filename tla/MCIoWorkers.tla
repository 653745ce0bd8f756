---------------------------- MODULE MCIoWorkers -----------------------------
EXTENDS IoWorkers

C(a, n) == [lba |-> a, len |-> n]

SomeWrites == {C(0, 1)}
SomeReads == {C(8, 1)}

(* A long sequence of writes that wraps the completion queue and goes      *)
(* round the process table, and a deeper queue of reads and writes.        *)
SomeHosts == {[qsize |-> 2, budget |-> 6, reads |-> FALSE],
              [qsize |-> 3, budget |-> 3, reads |-> TRUE]}
=============================================================================
