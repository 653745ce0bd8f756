------------------------------- MODULE KvFtl --------------------------------
(***************************************************************************)
(* The key-value FTL (kv_ftl.c): the mapping table with its hash chains,   *)
(* the two allocators (append_only.c, bitmap.c), store, retrieve, delete,  *)
(* batch and the iterators.                                                *)
(*                                                                         *)
(* One I/O worker performs the commands, each in one step: the table has   *)
(* no lock, so a configuration with more workers is outside this model.    *)
(* A value of n units fills n cells of the storage; a key and its hash are *)
(* model values.                                                           *)
(*                                                                         *)
(* The host keeps to what the code takes for granted: a value is replaced  *)
(* by one that fits where the first one was put, and the table and the     *)
(* storage have room for what it stores.                                   *)
(***************************************************************************)
EXTENDS Integers, Sequences, FiniteSets, FiniteSetsExt

CONSTANTS
    Keys,       \* keys of the host
    Home,       \* get_hash_slot, per key
    Slots,      \* hash_slots
    Cells,      \* storage_size
    Small,      \* SMALL_LENGTH
    Large,      \* LARGE_LENGTH
    Lens,       \* lengths of the host's values
    Allocators, \* ALLOCATOR_TYPE, a choice at build time
    Handles,    \* iterator handles, 1..16 in the code
    PerRead,    \* keys that fit in the buffer of one iterator read
    Filters,    \* sets of keys that a prefix and a bitmask may select
    MaxChanges, \* bound on the number of stores, batches and deletes
    None        \* -1 in the table

ASSUME KvAssumption ==
    /\ {Slots, Cells, Small, Large, PerRead} \subseteq Nat \ {0} /\ Small < Large
    /\ Home \in [Keys -> 0..(Slots - 1)]
    /\ Lens \subseteq 1..Large /\ Filters \subseteq SUBSET Keys
    /\ Allocators \subseteq {"BITMAP", "APPEND_ONLY"}
    /\ None \notin Keys \cup Nat
    /\ Handles \in Nat \ {0} /\ MaxChanges \in Nat

Vals == 1..MaxChanges   \* the content of a value is the number of its store
SlotIds == 0..(Slots - 1)
HandleIds == 1..Handles
FreeEntry == [key |-> None, off |-> None, len |-> None, next |-> None]

VARIABLES
    table,     \* kv_mapping_table
    mem,       \* the storage; 0 where nothing was written
    allocator, \* ALLOCATOR_TYPE
    latest,    \* append_only.c: end of the allocated space
    bits,      \* bitmap.c: used slots of each size class
    last,      \* bitmap.c: small_last_pos and large_last_pos
    iter,      \* iter_handle
    changes,   \* stores, batches and deletes so far
    cmd,       \* history: the keys and the new value of the last command
    room       \* history: length allocated at an offset

vars == <<table, mem, allocator, latest, bits, last, iter, changes, cmd, room>>

NoIter == [state |-> "NULL", pos |-> 0, filter |-> {}, must |-> {}, seen |-> {}]

\* kv_init_namespace.  It clears the handles 0 to 15 of 17: what the last
\* handle holds is undefined.
Init ==
    /\ table = [s \in SlotIds |-> FreeEntry]
    /\ mem = [c \in 0..(Cells - 1) |-> 0]
    /\ allocator \in Allocators
    /\ changes = 0 /\ latest = 0 /\ bits = [c \in {"small", "large"} |-> {}]
    /\ last = [c \in {"small", "large"} |-> 0]
    /\ \E garbage \in {"NULL", "WILD"} :
          iter = [h \in HandleIds |-> IF h = Handles THEN [NoIter EXCEPT !.state = garbage] ELSE NoIter]
    /\ cmd = [keys |-> {}, value |-> None]
    /\ room = [c \in 0..(Cells - 1) |-> 0]

-----------------------------------------------------------------------------
(* The mapping table.  t is a table. *)

Used(t, s) == t[s].off # None

Links == SlotIds \cup {None}   \* next_slot

\* The loop of get_mapping_entry: Find(t, k)[n][s] is what it finds from slot
\* s in n turns.  The loop itself has no limit; ChainsEnd says that Slots
\* turns are enough.
Find(t, k) ==
    LET find[n \in 0..Slots] ==
            [s \in Links |-> IF n = 0 \/ s = None THEN None
                            ELSE IF ~Used(t, s) THEN None
                            ELSE IF t[s].key = k THEN s
                            ELSE find[n - 1][t[s].next]]
    IN  find

\* get_mapping_entry: the slot of the key, or None.
Walk(t, k) == Find(t, k)[Slots][Home[k]]

(* Faulty variant: the search does not move on from the slot in use. *)
FreeSlot_NoAdvance(t, s) == s

\* find_next_slot: the first free slot, searched for in a circle.
FreeSlot(t, s) ==
    LET free == {x \in SlotIds : ~Used(t, x)}
        dist(x) == (x - s) % Slots
    IN  CHOOSE x \in free : \A y \in free : dist(x) <= dist(y)

\* new_mapping_entry: the new slot is linked behind the home slot; what was
\* linked there before is no longer reached.
NewEntry(t, k, off, len) ==
    LET home == Home[k]
        slot == IF Used(t, home) THEN FreeSlot(t, home) ELSE home
        t1   == [t EXCEPT ![slot] = [@ EXCEPT !.key = k, !.off = off, !.len = len]]
    IN  IF Used(t, home) THEN [t1 EXCEPT ![home].next = slot] ELSE t1

(* Faulty variant: the slot is marked free and keeps its key and link. *)
DeleteEntry_KeepsLink(t, s) == [t EXCEPT ![s].off = None]

\* delete_mapping_entry on the slot found: the whole entry is cleared.
DeleteEntry(t, s) == [t EXCEPT ![s] = FreeEntry]

-----------------------------------------------------------------------------
(* The allocators.  a is [latest, bits, last]. *)

SizeClass(len) == IF len > Small THEN "large" ELSE "small"
UnitOf(c) == IF c = "large" THEN Large ELSE Small
BaseOf(c) == IF c = "large" THEN Cells \div 2 ELSE 0
BitsOf(c) == (Cells \div 2) \div UnitOf(c)

\* bitmap_find_next_zero_area from the last position on.
ZeroBit(a, c) == Min({b \in a.last[c]..(BitsOf(c) - 1) : b \notin a.bits[c]})

HasRoom(a, len) ==
    IF allocator = "APPEND_ONLY" THEN a.latest + len <= Cells
    ELSE \E b \in a.last[SizeClass(len)]..(BitsOf(SizeClass(len)) - 1) : b \notin a.bits[SizeClass(len)]

\* append_only_allocate and bitmap_allocate: the offset ...
OffsetFor(a, len) ==
    IF allocator = "APPEND_ONLY" THEN a.latest
    ELSE BaseOf(SizeClass(len)) + ZeroBit(a, SizeClass(len)) * UnitOf(SizeClass(len))

\* ... and the state of the allocator afterwards.
Allocated(a, len) ==
    LET c == SizeClass(len)
        b == ZeroBit(a, c)
    IN  IF allocator = "APPEND_ONLY" THEN [a EXCEPT !.latest = @ + len]
        ELSE [a EXCEPT !.bits[c] = @ \cup {b},
                       !.last[c] = IF b + 1 > BitsOf(c) THEN 0 ELSE b + 1]

-----------------------------------------------------------------------------
(* Storing.  d is [table, mem, a, room], the device in the midst of a     *)
(* command.                                                                *)

Device == [table |-> table, mem |-> mem, room |-> room,
           a |-> [latest |-> latest, bits |-> bits, last |-> last]]

Copied(m, off, len, v) == [c \in DOMAIN m |-> IF c \in off..(off + len - 1) THEN v ELSE m[c]]

Insert(d, k, len, v) ==
    LET off == OffsetFor(d.a, len)
    IN  [table |-> NewEntry(d.table, k, off, len), mem |-> Copied(d.mem, off, len, v),
         room |-> [d.room EXCEPT ![off] = IF allocator = "BITMAP" THEN UnitOf(SizeClass(len)) ELSE len],
         a |-> Allocated(d.a, len)]

\* The value is overwritten in place; update_mapping_entry follows if both
\* lengths are small, and only for a single store.
Update(d, s, len, v, batched) ==
    LET e == d.table[s]
        l == IF ~batched /\ len # e.len /\ len <= Small /\ e.len <= Small THEN len ELSE e.len
    IN  [table |-> [d.table EXCEPT ![s].len = l], mem |-> Copied(d.mem, e.off, len, v),
         room |-> d.room, a |-> d.a]

\* __do_perform_kv_io and __do_perform_kv_batched_io on a store.
Stored(d, k, len, v, batched) ==
    LET s == Walk(d.table, k)
    IN  IF s = None THEN Insert(d, k, len, v) ELSE Update(d, s, len, v, batched)

\* What the host is expected to respect, given the state before its store.
Storable(d, k, len, batched) ==
    LET s == Walk(d.table, k)
    IN  IF s = None THEN HasRoom(d.a, len) /\ \E x \in SlotIds : ~Used(d.table, x)
        ELSE /\ len <= d.room[d.table[s].off]
             /\ batched \/ len > Small \/ d.table[s].len > Small => len = d.table[s].len

Value(t, m, k) ==
    LET s == Walk(t, k)
    IN  IF s = None THEN None ELSE [i \in 1..t[s].len |-> m[t[s].off + i - 1]]

Readable(t) == {k \in Keys : Walk(t, k) # None}

\* The iterations in progress owe only keys that stay readable.
Owing(t, it) == [h \in HandleIds |-> [it[h] EXCEPT !.must = @ \cap Readable(t)]]

Becomes(d, c) ==
    /\ changes' = changes + 1
    /\ table' = d.table /\ mem' = d.mem /\ room' = d.room
    /\ latest' = d.a.latest /\ bits' = d.a.bits /\ last' = d.a.last
    /\ cmd' = c
    /\ iter' = Owing(d.table, iter)
    /\ UNCHANGED allocator

\* The value that the next store writes.
ValueOf(len) == [i \in 1..len |-> changes + 1]

\* nvme_cmd_kv_store
Store(k, len) ==
    /\ changes < MaxChanges /\ Storable(Device, k, len, FALSE)
    /\ \E d \in {Stored(Device, k, len, changes + 1, FALSE)} :
          Becomes(d, [keys |-> {k}, value |-> ValueOf(len)])

\* nvme_cmd_kv_batch with two stores; the second one may push the first key
\* out of its chain.
Batch(k1, k2, len) ==
    /\ changes < MaxChanges /\ k1 # k2 /\ Storable(Device, k1, len, TRUE)
    /\ \E d1 \in {Stored(Device, k1, len, changes + 1, TRUE)} :
          /\ Storable(d1, k2, len, TRUE)
          /\ \E d2 \in {Stored(d1, k2, len, changes + 1, TRUE)} :
                Becomes(d2, [keys |-> {k1, k2} \cap Readable(d2.table), value |-> ValueOf(len)])

\* nvme_cmd_kv_delete of a key that exists; the space is not given back.
Delete(k) ==
    /\ changes < MaxChanges /\ Walk(table, k) # None
    /\ \E d \in {[Device EXCEPT !.table = DeleteEntry(table, Walk(table, k))]} :
          Becomes(d, [keys |-> {k}, value |-> None])

Unmoved == UNCHANGED <<table, mem, allocator, latest, bits, last, changes, room>>
Reads == cmd' = [keys |-> {}, value |-> None]

\* kv_iter_open: the first handle that is NULL.
IterOpen(filter) ==
    /\ \E h \in HandleIds : iter[h].state = "NULL"
    /\ LET h == Min({x \in HandleIds : iter[x].state = "NULL"})
       IN  iter' = [iter EXCEPT ![h] = [state |-> "OPEN", pos |-> 0, filter |-> filter,
                                        must |-> filter \cap Readable(table), seen |-> {}]]
    /\ Reads /\ Unmoved

\* kv_iter_close
IterClose(h) ==
    /\ iter[h].state = "OPEN"
    /\ iter' = [iter EXCEPT ![h] = NoIter]
    /\ Reads /\ Unmoved

Hits(h) == {s \in iter[h].pos..(Slots - 1) : Used(table, s) /\ table[s].key \in iter[h].filter}

(* Faulty variant: the slot at which the buffer became full is skipped. *)
StopsAt_After(h) ==
    LET full == {s \in Hits(h) : Cardinality({x \in Hits(h) : x < s}) >= PerRead}
    IN  IF full = {} THEN Slots ELSE Min(full) + 1

\* Where kv_iter_read stops: at the first key that no longer fits, or the end.
StopsAt(h) ==
    LET full == {s \in Hits(h) : Cardinality({x \in Hits(h) : x < s}) >= PerRead}
    IN  IF full = {} THEN Slots ELSE Min(full)

\* kv_iter_read: the keys from current_pos on.
IterRead(h) ==
    /\ iter[h].state = "OPEN" /\ iter[h].pos < Slots
    /\ LET out == {s \in Hits(h) : Cardinality({x \in Hits(h) : x < s}) < PerRead}
       IN  iter' = [iter EXCEPT ![h].pos = StopsAt(h), ![h].seen = @ \cup {table[s].key : s \in out}]
    /\ Reads /\ Unmoved

Next ==
    \/ \E k \in Keys, len \in Lens : Store(k, len)
    \/ \E k1, k2 \in Keys, len \in Lens : Batch(k1, k2, len)
    \/ \E k \in Keys : Delete(k)
    \/ \E filter \in Filters : IterOpen(filter)
    \/ \E h \in HandleIds : IterClose(h) \/ IterRead(h)

Spec == Init /\ [][Next]_vars

-----------------------------------------------------------------------------
Values == UNION {[1..len -> Vals] : len \in Lens}

Map == INSTANCE KvMap WITH store <- [k \in Keys |-> Value(table, mem, k)], Values <- Values

(* The table is a key-value map that may lose keys and nothing worse: a    *)
(* store makes its key readable with the new value, no other key changes   *)
(* its value, and an entry that dropped out of its chain is never found    *)
(* again, over any sequence of stores, batches and deletes in colliding    *)
(* chains.                                                                 *)
ImplementsMap == Map!Spec

(* The lookup loop, which has no limit, always ends: no sequence of        *)
(* stores and deletes closes a chain to a circle, although links to a      *)
(* deleted slot stay and lead into whatever is stored there next.          *)
ChainsEnd ==
    \A C \in (SUBSET SlotIds) \ {{}} : \E s \in C : ~Used(table, s) \/ table[s].next \notin C

(* An iteration misses no key: one that was readable when it was opened    *)
(* and ever since has been returned when the iteration ends, although      *)
(* other keys come and go between its reads.                               *)
IterComplete == \A h \in HandleIds : iter[h].state = "OPEN" /\ iter[h].pos = Slots => iter[h].must \subseteq iter[h].seen
=============================================================================
