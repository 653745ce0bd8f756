---------------------------- MODULE MCCompaction ----------------------------
EXTENDS Compaction

(* The second level holds older versions; sequence numbers do not follow   *)
(* the keys.                                                               *)
Version(l, k) == [key |-> k, seq |-> IF l = 1 THEN 20 - k ELSE ((k * 5) % 7) + 1]

Run(l, S) == LET s == SetToSortSeq(S, <) IN [i \in 1..Len(s) |-> Version(l, s[i])]

(* A level of one file, or of two. *)
LevelOf(l) ==
    {<<Run(l, S)>> : S \in SUBSET Keys \ {{}}} \cup
    UNION {{<<Run(l, {k \in S : k <= c}), Run(l, {k \in S : k > c})>> : c \in S \ {Max(S)}}
              : S \in SUBSET Keys \ {{}}}

(* Files that end with a block, inside one, and a single file. *)
SomeParams ==
    [thr : {33, 40, 100}, crc : BOOLEAN, bloom : {TRUE}] \cup
    {[thr |-> 40, crc |-> TRUE, bloom |-> FALSE]}

SomeHostProps ==
    [creation_time |-> 3, file_creation_time |-> 4, oldest_key_time |-> 1, file_number |-> 11]

Pairs == LevelOf(1) \X LevelOf(2)
=============================================================================
