----------------------------- MODULE MCSlmLoad ------------------------------
(* Instances of SlmLoad for TLC. *)
EXTENDS SlmLoad

(* Three files in up to three pieces that lie on the flash in no order;    *)
(* the last piece of a file is longer than what the file uses of it.       *)
At(physical, length) == [physical |-> physical, length |-> length]
Level == << [size |-> 16, map |-> Fiemap(<<At(80, 12), At(40, 4)>>)],
            [size |-> 28, map |-> Fiemap(<<At(100, 4), At(60, 16), At(20, 8)>>)],
            [size |-> 17, map |-> Fiemap(<<At(0, 20)>>)] >>

(* A pool slot as dispatch leaves it: fresh or recycled (<<FALSE, 0>>,     *)
(* <<FALSE, 1>>: the compound path does not touch these fields), or set by *)
(* the other dispatch paths (<<TRUE, 1>>).                                 *)
SlotStatesMC == {<<FALSE, 0>>, <<FALSE, 1>>, <<TRUE, 1>>}
=============================================================================
