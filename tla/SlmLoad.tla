------------------------------ MODULE SlmLoad -------------------------------
(***************************************************************************)
(* One compound load: a COPY_TO_SLM task streams its source ranges through *)
(* a circular input ring while a compute program consumes them.            *)
(*                                                                         *)
(*   dispatcher helper  __request_io cuts the stream into I/O requests,    *)
(*                      __reclaim_io_req publishes the completed ones      *)
(*   slm workers        slm_work copies the data of their own list         *)
(*   compute worker     the merge loop of __magic_rocksdb_compaction: probe *)
(*                      the next page, read an entry, report progress      *)
(*                                                                         *)
(* The threads share no lock.  Frontier contributes ht_head/ht_pending and *)
(* the steps of ht_advance_head; here the helper runs them.                *)
(*                                                                         *)
(* Offsets are LOGICAL stream bytes; ring[p] records which logical byte    *)
(* the physical location p holds (-1: none).  Locations RING.. are the     *)
(* ghost page.  The flash latency is not modelled: a copied request may    *)
(* become due at any time, so the lists complete in any relative order.    *)
(***************************************************************************)
EXTENDS Frontier, SourceRanges

CONSTANTS
    PAGE,        \* SLM_PAGE_SIZE
    GRAIN,       \* HT_NOTIFY_GRAIN
    IOSIZE,      \* IO_REQUEST_SIZE
    MINIO,       \* MIN_IO_REQUEST_SIZE
    RING,        \* MAGIC_BUFFER_SIZE
    GHOST,       \* GHOST_PAGE_SIZE
    Files,       \* the files of the level: size and extents
    Lists,       \* number of slm lists / workers (num_slm_resources)
    Pools,       \* possible numbers of io_reqs (MAX_INTERNAL_IO_COUNT less those in use)
    EntrySizes,  \* sizes of the entries the program decodes
    SlotStates   \* <<is_first_io, io_quota>> the pool slot may start with

ASSUME LoadAssumption ==
    /\ {PAGE, GRAIN, IOSIZE, MINIO, RING, GHOST, Lists} \cup Pools \subseteq Nat \ {0}
    /\ IOSIZE % PAGE = 0 /\ GRAIN % PAGE = 0 /\ RING % PAGE = 0
    /\ PAGE % SECTOR = 0 /\ MINIO % PAGE = 0
    /\ PAGE <= GHOST /\ GHOST <= RING
    /\ IOSIZE + 2 * PAGE + Greater(IOSIZE, MINIO) + SECTOR <= RING + 2
    /\ Total = CompactionLevel(Files).total /\ Total > 0
    /\ EntrySizes \subseteq 1..PAGE
    /\ SlotStates \subseteq BOOLEAN \X {0, 1}

VARIABLES
    \* struct ccsd_task_info of the load task
    step,        \* task_step: "SCHEDULE" or "END"
    requested,   \* requested_io_offset
    done,        \* done_io_offset
    quota,       \* io_quota
    isFirst,     \* is_first_io
    \* struct slm_lba_info of the ring
    tail,        \* ht_tail
    stream,      \* stream_access
    loadComplete,\* load_complete
    ring,        \* contents of the ring and its ghost page
    \* io_req_table
    queue,       \* slm_list[1..Lists]: requests in list order
    turn,        \* slm_turn
    pool,        \* io_reqs that other loads leave to this one
    \* locals of the helper thread
    hpc, issued, want, target, sweep,
    \* locals of the compute program
    cpc, pos, prevPos, lastPage, probe

taskVars == <<step, requested, done, quota, isFirst>>
infoVars == <<tail, stream, loadComplete, ring>>
reqVars == <<turn, pool>>
helpVars == <<hpc, issued, want, target, sweep>>
compVars == <<cpc, pos, prevPos, lastPage, probe>>
vars == <<fvars, taskVars, infoVars, queue, reqVars, helpVars, compVars>>

sre == CompactionLevel(Files).sres

flash == Flash(Files)

(* Where the files end in the stream: no entry crosses an end. *)
FileEnds == {FileStart(Files, k) + Files[k].size : k \in DOMAIN Files}

FileEnd(b) == Min({e \in FileEnds : e > b})

(* The end, in the stream, of the range that byte b belongs to. *)
RangeEnd(b) == LET i == RangeAt(sre, b) IN RangeStart(sre, i) + sre[i].nByte

(* The ranges fit into the command and describe the files: they are cut at *)
(* pages (the file system's blocks, SSTables of whole pages), and the      *)
(* device finds byte b, and what follows it in its range, where it lies.   *)
ASSUME SourcesAssumption ==
    /\ sre \in Seq([saddr : Nat, nByte : Nat])
    /\ \A b \in 0..(Total - 1) :
          /\ RangeAt(sre, b) \in DOMAIN sre /\ DeviceAddr(sre, b) \in Nat
          /\ RangeEnd(b) \in (b + 1)..Total /\ FileEnd(b) \in (b + 1)..Total
          /\ RangeEnd(b) % PAGE = 0 \/ RangeEnd(b) = Total
          /\ \A c \in b..(RangeEnd(b) - 1) : ReadFlash(flash, DeviceAddr(sre, b) + (c - b)) = c

Phys(b) == b % RING

Used == MapThenSumSet(LAMBDA w : Len(queue[w]), 1..Lists)

Init ==
    /\ FInit
    /\ step = "SCHEDULE" /\ requested = 0 /\ done = 0
    /\ \E s \in SlotStates : isFirst = s[1] /\ quota = s[2]
    /\ tail = 0 /\ stream = FALSE /\ loadComplete = FALSE
    /\ ring = [p \in 0..(RING + GHOST - 1) |-> -1]
    /\ queue = [w \in 1..Lists |-> << >>] /\ turn = 1 /\ pool \in Pools
    /\ hpc = "request" /\ issued = 0 /\ want = 0 /\ target = 0 /\ sweep = 1
    /\ cpc = "probe" /\ pos = 0 /\ prevPos = 0 /\ lastPage = 0 /\ probe = 0

----------------------------------------------------------------------------
(* Cutting the stream into I/O requests *)

(* __calculate_circular_io_size: a request never crosses the ring end. *)
CircularIoSize(off, size) == Lesser(size, RING - Phys(off))

(* The first request loads one page, a later one IO_REQUEST_SIZE; neither  *)
(* more than what is left nor less than MIN_IO_REQUEST_SIZE.               *)
RequestSize ==
    LET full == IF requested = 0 THEN PAGE ELSE IOSIZE
    IN  Greater(Lesser(full, Total - requested), MINIO)

(* Look-ahead throttle: after the first request the loader stays within    *)
(* IO_REQUEST_SIZE plus a page of ht_tail, and only serves a stream.       *)
Throttle ==
    requested > 0 =>
        /\ stream
        /\ requested \div PAGE <= tail \div PAGE + IOSIZE \div PAGE + 1

MayRequest == step = "SCHEDULE" /\ quota > 0 /\ Throttle

(* __request_io begins a batch of chunks for this task. *)
StartBatch ==
    /\ hpc = "request" /\ MayRequest
    /\ requested < Total /\ Used < pool
    /\ want' = RequestSize
    /\ target' = Lesser(RequestSize, Total - requested)
    /\ issued' = 0
    /\ hpc' = "issue"
    /\ UNCHANGED <<fvars, taskVars, infoVars, queue, reqVars, sweep, compVars>>

(* The early exits of the quota loop: nothing remains, or no free io_req. *)
NothingToRequest ==
    /\ hpc = "request" /\ MayRequest
    /\ requested = Total \/ Used >= pool
    /\ quota' = IF requested = Total THEN 0 ELSE quota
    /\ hpc' = "reclaim" /\ sweep' = 1
    /\ UNCHANGED <<fvars, step, requested, done, isFirst, infoVars, queue, reqVars,
                   issued, want, target, compVars>>

(* No task used a token in this pass (token_expired): refill it. *)
RefillToken ==
    /\ hpc = "request" /\ ~MayRequest
    /\ quota' = IF step = "SCHEDULE" /\ requested < Total /\ ~isFirst
                THEN 1 ELSE quota
    /\ hpc' = "reclaim" /\ sweep' = 1
    /\ UNCHANGED <<fvars, step, requested, done, isFirst, infoVars, queue, reqVars,
                   issued, want, target, compVars>>

(* __enqueue_slm_work: scan the lists from slm_turn up to the first idle   *)
(* one and take the first shortest of those scanned (slm_turn itself when  *)
(* it is idle).                                                            *)
ListAt(k) == ((turn - 1 + k) % Lists) + 1

Scanned == {k \in 0..(Lists - 1) : \A j \in 0..k : queue[ListAt(j)] # << >>}

Shortest(k) ==
    \A j \in Scanned : \/ Len(queue[ListAt(k)]) < Len(queue[ListAt(j)])
                       \/ Len(queue[ListAt(k)]) = Len(queue[ListAt(j)]) /\ k <= j

ChosenList ==
    IF Scanned = {} THEN turn
    ELSE ListAt(CHOOSE k \in Scanned : Shortest(k))

(* One round of the do/while that covers target_total_size: take a free    *)
(* io_req, describe the chunk, append it to a list as READY.               *)
IssueChunk ==
    LET size == CircularIoSize(requested, CalculateIoSize(sre, requested, want))
        more == issued + size < target /\ Used + 1 < pool
    IN  /\ hpc = "issue" /\ size > 0
        /\ queue' = [queue EXCEPT ![ChosenList] =
                        Append(@, [off |-> requested, len |-> size, addr |-> DeviceAddr(sre, requested), status |-> "READY"])]
        /\ turn' = (turn % Lists) + 1
        /\ requested' = requested + size
        /\ issued' = IF more THEN issued + size ELSE 0
        /\ want'   = IF more THEN target - (issued + size) ELSE 0
        /\ target' = IF more THEN target ELSE 0
        /\ hpc' = IF more THEN "issue" ELSE "reclaim"
        /\ sweep' = 1
        /\ quota' = IF more THEN quota ELSE quota - 1
        /\ UNCHANGED <<fvars, step, done, isFirst, infoVars, pool, compVars>>

----------------------------------------------------------------------------
(* slm_work(w): copy the data of the first READY request of list w. *)
Copy(w) ==
    \E i \in DOMAIN queue[w] :
        LET r == queue[w][i] IN
        /\ r.status = "READY"
        /\ \A j \in 1..(i - 1) : queue[w][j].status # "READY"
        /\ ring' = [p \in DOMAIN ring |->
                       IF p \in Phys(r.off)..(Phys(r.off) + r.len - 1)
                       THEN ReadFlash(flash, r.addr + (p - Phys(r.off))) ELSE ring[p]]
        /\ queue' = [queue EXCEPT ![w][i].status = "WAITING_TIME"]
        /\ UNCHANGED <<fvars, taskVars, tail, stream, loadComplete, reqVars, helpVars, compVars>>

----------------------------------------------------------------------------
(* __reclaim_io_req *)

(* Faulty variant: the ghost page is not refreshed. *)
GhostMirror_None(r) == ring

(* A chunk that lands in the first GHOST bytes of the ring is mirrored     *)
(* behind its end.                                                         *)
GhostMirror(r) ==
    LET n == Lesser(GHOST - Phys(r.off), r.len)
    IN  [p \in DOMAIN ring |->
            IF Phys(r.off) < GHOST
               /\ p \in (RING + Phys(r.off))..(RING + Phys(r.off) + n - 1)
            THEN ring[p - RING] ELSE ring[p]]

(* The head of the list being swept is copied and its time has come: ghost *)
(* copy, then notify_circular_load_ready enters ht_advance_head.           *)
Reclaim ==
    /\ hpc = "reclaim" /\ queue[sweep] # << >>
    /\ LET r == Head(queue[sweep]) IN
          /\ r.status = "WAITING_TIME"
          /\ ring' = GhostMirror(r)
          /\ AdvanceHead(r.off, r.off + r.len)
    /\ isFirst' = FALSE
    /\ hpc' = "absorb"
    /\ UNCHANGED <<step, requested, done, quota, tail, stream, loadComplete, queue, reqVars,
                   issued, want, target, sweep, compVars>>

ReclaimAbsorb ==
    /\ hpc = "absorb" /\ Absorb
    /\ UNCHANGED <<taskVars, infoVars, queue, reqVars, helpVars, compVars>>

(* Faulty variant: takes "everything requested" for "everything loaded". *)
ReclaimFinish_Early ==
    LET r == Head(queue[sweep]) IN
    /\ hpc = "absorb" /\ AbsorbDone
    /\ done' = done + r.len
    /\ loadComplete' = (loadComplete \/ requested >= Total)
    /\ queue' = [queue EXCEPT ![sweep] = Tail(@)]
    /\ hpc' = "reclaim"
    /\ UNCHANGED <<step, requested, quota, isFirst, tail, stream, ring, reqVars,
                   issued, want, target, sweep, compVars>>

(* Back from ht_advance_head: account for the chunk and free its io_req. *)
ReclaimFinish ==
    LET r == Head(queue[sweep]) IN
    /\ hpc = "absorb" /\ AbsorbDone
    /\ done' = done + r.len
    /\ loadComplete' = (loadComplete \/ done' >= Total)
    /\ queue' = [queue EXCEPT ![sweep] = Tail(@)]
    /\ hpc' = "reclaim"
    /\ UNCHANGED <<step, requested, quota, isFirst, tail, stream, ring, reqVars,
                   issued, want, target, sweep, compVars>>

(* The head of this list is not due (or not copied): on to the next list. *)
NextList ==
    /\ hpc = "reclaim"
    /\ IF sweep < Lists THEN sweep' = sweep + 1 /\ hpc' = hpc
                        ELSE sweep' = 1 /\ hpc' = "end"
    /\ UNCHANGED <<fvars, taskVars, infoVars, queue, reqVars, issued, want, target, compVars>>

(* The trailing scan: a task whose bytes are all in becomes END. *)
EndLoad ==
    /\ hpc = "end"
    /\ step' = IF step = "SCHEDULE" /\ done >= Total THEN "END" ELSE step
    /\ hpc' = "request"
    /\ UNCHANGED <<fvars, requested, done, quota, isFirst, infoVars, queue, reqVars,
                   issued, want, target, sweep, compVars>>

Helper ==
    \/ StartBatch \/ NothingToRequest \/ RefillToken \/ IssueChunk
    \/ Reclaim \/ ReclaimAbsorb \/ ReclaimFinish \/ NextList \/ EndLoad

----------------------------------------------------------------------------
(* The compute program *)

(* circular_buf_check_data_at: the page of b lies below the produced       *)
(* frontier, rounded up to pages.                                          *)
PageReady(b) == b \div PAGE < DivUp(head, PAGE)

(* What follows a successful probe: the program starts with pages 0 and 1. *)
AfterProbe ==
    LET second == probe = 0 /\ Total > PAGE
    IN  /\ probe' = IF second THEN PAGE ELSE probe
        /\ cpc' = IF second THEN "probe" ELSE "read"
        /\ UNCHANGED <<pos, prevPos, lastPage>>

ProbeHit ==
    /\ cpc = "probe" /\ PageReady(probe)
    /\ AfterProbe
    /\ UNCHANGED <<fvars, taskVars, infoVars, queue, reqVars, helpVars>>

(* Faulty variant: the miss does not ask for the stream. *)
ProbeMiss_NoRequest ==
    /\ cpc = "probe" /\ ~PageReady(probe)
    /\ cpc' = "spin"
    /\ UNCHANGED <<fvars, taskVars, infoVars, queue, reqVars,
                   helpVars, pos, prevPos, lastPage, probe>>

(* A miss: slm_request_demand_read asserts stream_access (rings never flip *)
(* to extent mode; a probe at physical offset 0 asserts nothing), then the *)
(* program spins.                                                          *)
ProbeMiss ==
    /\ cpc = "probe" /\ ~PageReady(probe)
    /\ stream' = (stream \/ Phys(probe) # 0)
    /\ cpc' = "spin"
    /\ UNCHANGED <<fvars, taskVars, tail, loadComplete, ring, queue, reqVars,
                   helpVars, pos, prevPos, lastPage, probe>>

SpinEnd ==
    /\ cpc = "spin" /\ (loadComplete \/ PageReady(probe))
    /\ AfterProbe
    /\ UNCHANGED <<fvars, taskVars, infoVars, queue, reqVars, helpVars>>

NextProbe(b) == b + PAGE

(* circular_buf_notify_progress: ht_tail moves when a grain is crossed. *)
Progress(b) ==
    IF prevPos \div GRAIN = b \div GRAIN
    THEN UNCHANGED <<tail, prevPos>>
    ELSE tail' = Greater(tail, b) /\ prevPos' = b

(* One round of the merge loop: decode an entry of n bytes at `pos', step  *)
(* over it, report progress and, on entering a new page, probe the next.   *)
ReadEntry(n) ==
    LET newPos == pos + n
        ahead  == /\ newPos < Total
                  /\ newPos \div PAGE # lastPage
                  /\ lastPage + 1 < DivUp(Total, PAGE)
    IN  /\ cpc = "read" /\ newPos <= FileEnd(pos)
        /\ pos' = newPos
        /\ Progress(newPos)
        /\ probe' = IF ahead THEN NextProbe(newPos) ELSE probe
        /\ lastPage' = IF ahead THEN newPos \div PAGE ELSE lastPage
        /\ cpc' = IF newPos = Total THEN "done" ELSE IF ahead THEN "probe" ELSE "read"
        /\ UNCHANGED <<fvars, taskVars, stream, loadComplete, ring, queue, reqVars, helpVars>>

Compute == ProbeHit \/ ProbeMiss \/ SpinEnd \/ \E n \in EntrySizes : ReadEntry(n)

Next == Helper \/ (\E w \in 1..Lists : Copy(w)) \/ Compute

(* The helper, every slm worker and the compute worker are kernel threads  *)
(* bound to cores of their own and never stop; the strong fairness of      *)
(* Reclaim says that time passes, so a copied request becomes due.         *)
Spec ==
    /\ Init /\ [][Next]_vars
    /\ WF_vars(Helper) /\ SF_vars(Reclaim)
    /\ \A w \in 1..Lists : WF_vars(Copy(w))
    /\ WF_vars(Compute)

----------------------------------------------------------------------------
(* The physical location byte b is read from when the entry starts at s:   *)
(* an entry that crosses the ring end continues into the ghost page.       *)
ReadFrom(s, b) == Phys(s) + (b - s)

(* When the program is about to decode an entry, every byte of it, also    *)
(* the part in the next page and the part behind the ring end, holds this  *)
(* very byte of the stream: not an older lap, not a hole that is still in  *)
(* flight.  (circular_buf_check_data_at against the byte-exact frontier.)  *)
ReadsInPlace ==
    cpc = "read" =>
        \A n \in EntrySizes : pos + n <= FileEnd(pos) =>
            \A b \in pos..(pos + n - 1) : ring[ReadFrom(pos, b)] = b

(* load_complete lets a spinning program pass without looking at ht_head;  *)
(* it is only ever set when the whole stream is published.                 *)
CompleteMeansAll == loadComplete => head = Total /\ pending = << >>

(* The load task reaches END and the program consumes the whole stream: no *)
(* standstill between the grain-lagged ht_tail, the throttle, the token    *)
(* refill and the look-ahead probe.                                        *)
StreamConsumed == <>(cpc = "done" /\ step = "END")
=============================================================================
