------------------------------ MODULE Frontier ------------------------------
(***************************************************************************)
(* The PRODUCED frontier of one SLM region (struct slm_lba_info, csd_slm.c): *)
(* ht_head, the reorder buffer ht_pending[], and the routine that moves    *)
(* them, ht_advance_head.                                                  *)
(*                                                                         *)
(* One thread, the dispatcher helper in __reclaim_io_req, calls the        *)
(* routine once for every completed load; consumers read ht_head at any    *)
(* moment without a lock.  The call is therefore several steps here: the   *)
(* range is first published or stashed, then every round of the absorb     *)
(* loop is a step of its own, and a reader may look in between.            *)
(* FTypeOK includes the bound of the array ht_pending[HT_MAX_PENDING].     *)
(*                                                                         *)
(* Offsets are region-relative bytes (logical bytes for a ring).  Entry i  *)
(* of the sequence `pending' is ht_pending[i - 1]; its length is           *)
(* ht_pending_cnt.                                                         *)
(***************************************************************************)
EXTENDS Integers, Sequences

CONSTANTS
    Total,       \* bytes the producer will deliver into the region
    MaxPending   \* HT_MAX_PENDING (csd_slm.h)

ASSUME TotalAssumption == Total \in Nat
ASSUME MaxPendingAssumption == MaxPending \in Nat \ {0}

VARIABLES
    head,      \* info->ht_head
    pending,   \* info->ht_pending[0 .. ht_pending_cnt - 1]
    fpc,       \* "idle": outside ht_advance_head, "absorb": in its do/while,
               \* "bug": the overflow BUG()
    notified   \* history: every byte handed to ht_advance_head so far

fvars == <<head, pending, fpc, notified>>

Range0 == [start : 0..Total, end : 0..Total]

Bytes(r) == r.start .. (r.end - 1)

FTypeOK ==
    /\ head \in 0..Total
    /\ pending \in Seq(Range0) /\ Len(pending) <= MaxPending
    /\ fpc \in {"idle", "absorb", "bug"}
    /\ notified \in SUBSET (0..(Total - 1))

FInit ==
    /\ head = 0
    /\ pending = << >>
    /\ fpc = "idle"
    /\ notified = {}

----------------------------------------------------------------------------
(* The range touches the contiguous frontier: publish it. *)
ExtendHead(s, e) ==
    /\ s <= head
    /\ head' = IF e > head THEN e ELSE head
    /\ fpc' = "absorb"
    /\ UNCHANGED pending

(* The entry the new range is merged into: the first one it touches. *)
Touches(s, e, r) == s <= r.end /\ e >= r.start

FirstTouching(s, e, i) ==
    /\ i \in DOMAIN pending
    /\ Touches(s, e, pending[i])
    /\ \A j \in 1..(i - 1) : ~Touches(s, e, pending[j])

Widen(r, s, e) ==
    [start |-> IF s < r.start THEN s ELSE r.start,
     end   |-> IF e > r.end   THEN e ELSE r.end]

(* Out of order, and it touches a stashed range: widen that entry only. *)
Coalesce(s, e) ==
    /\ s > head
    /\ \E i \in DOMAIN pending :
          /\ FirstTouching(s, e, i)
          /\ pending' = [pending EXCEPT ![i] = Widen(@, s, e)]
    /\ fpc' = "absorb"
    /\ UNCHANGED head

(* Out of order and apart from every stashed range: a new entry, or BUG(). *)
Stash(s, e) ==
    /\ s > head
    /\ \A i \in DOMAIN pending : ~Touches(s, e, pending[i])
    /\ IF Len(pending) >= MaxPending
       THEN fpc' = "bug" /\ UNCHANGED pending
       ELSE /\ pending' = Append(pending, [start |-> s, end |-> e])
            /\ fpc' = "absorb"
    /\ UNCHANGED head

(* ht_advance_head(info, s, e) up to its absorb loop.  An empty range      *)
(* (end <= start) returns at once and changes nothing.                     *)
AdvanceHead(s, e) ==
    /\ fpc = "idle"
    /\ s < e
    /\ ExtendHead(s, e) \/ Coalesce(s, e) \/ Stash(s, e)
    /\ notified' = notified \cup s..(e - 1)

(* The first stashed range the frontier has reached. *)
FirstReached(i) ==
    /\ i \in DOMAIN pending
    /\ pending[i].start <= head
    /\ \A j \in 1..(i - 1) : pending[j].start > head

(* ht_pending[i] = ht_pending[cnt - 1]; ht_pending_cnt-- *)
SwapRemove(seq, i) ==
    [j \in 1..(Len(seq) - 1) |-> IF j = i THEN seq[Len(seq)] ELSE seq[j]]

(* One round of the absorb loop that makes progress. *)
Absorb ==
    /\ fpc = "absorb"
    /\ \E i \in DOMAIN pending :
          /\ FirstReached(i)
          /\ head' = IF pending[i].end > head THEN pending[i].end ELSE head
          /\ pending' = SwapRemove(pending, i)
    /\ UNCHANGED <<fpc, notified>>

(* Faulty variant: a single pass, not repeated until nothing progresses. *)
AbsorbDone_OnePass ==
    /\ fpc = "absorb"
    /\ fpc' = "idle"
    /\ UNCHANGED <<head, pending, notified>>

(* The round that finds nothing to absorb ends the call. *)
AbsorbDone ==
    /\ fpc = "absorb"
    /\ \A i \in DOMAIN pending : pending[i].start > head
    /\ fpc' = "idle"
    /\ UNCHANGED <<head, pending, notified>>

FNext ==
    \/ \E s, e \in 0..Total : AdvanceHead(s, e)
    \/ Absorb
    \/ AbsorbDone

FSpec == FInit /\ [][FNext]_fvars

----------------------------------------------------------------------------
(* Nothing is invented and nothing is lost: at every moment, also between  *)
(* two rounds of the absorb loop, the bytes below ht_head together with    *)
(* the stashed ranges are exactly the bytes ht_advance_head was given.     *)
(* (While the overflow BUG() is reported the last range is not recorded.)  *)
FrontierCovers ==
    fpc # "bug" =>
        notified = 0..(head - 1) \cup UNION {Bytes(pending[i]) : i \in DOMAIN pending}

(* When ht_advance_head has returned, ht_head is the first byte not yet    *)
(* delivered: no delivered byte that is contiguous with the frontier       *)
(* stays hidden from the consumers, in whatever order the loads completed. *)
FrontierExact ==
    fpc = "idle" => /\ 0..(head - 1) \subseteq notified
                    /\ head \notin notified

(* Frontier and reorder buffer together lose nothing, invent nothing and   *)
(* hide nothing, within the array's bound.                                 *)
FrontierSound == FTypeOK /\ FrontierCovers /\ FrontierExact

(* ht_head is the monotonic frontier the readers rely on: no step moves it *)
(* back, so a page once reported ready stays ready.                        *)
HeadMonotone == [][head' >= head]_fvars
=============================================================================
