----------------------------- MODULE MCCsdTasks -----------------------------
EXTENDS CsdTasks

Compact(crc, big, l1, l2) == [op |-> "compaction", crc |-> crc, big |-> big, loads |-> <<l1, l2>>]
Lookup(loads) == [op |-> "read", loads |-> loads]
Create == [op |-> "create"]
Copy(in, n) == [op |-> "copy", in |-> in, uses |-> {in}, loads |-> <<n>>]
Program(op, in, out, huge) == [op |-> op, in |-> in, out |-> out, uses |-> {in, out}, huge |-> huge]
Delete(i, name, after) == [op |-> "delete", range |-> <<i, name>>, after |-> after]

(* A compaction behind a lookup whose loads are parked; two lookups; the   *)
(* commands a host-driven program needs; a compaction with its CRC stage.  *)
SomeScripts == {
    << Lookup(<<2>>), Delete(1, "out", {<<1, "read">>}) >>,
    << Lookup(<<2, 1>>), Compact(0, FALSE, 1, 1) >>,
    << Create, Create, Copy(1, 2), Program("exec", 1, 2, FALSE),
       Delete(1, "buf", {<<4, "exec">>}), Delete(2, "buf", {<<4, "exec">>}) >>,
    << Create, Copy(1, 1), Program("exec", 1, 1, TRUE), Program("compress", 1, 1, FALSE),
       Create, Create, Create, Create, Create >>,
    << Compact(1, TRUE, 1, 1), Delete(1, "out", {<<1, "crc1">>}), Delete(1, "meta", {<<1, "crc1">>}) >> }
=============================================================================
