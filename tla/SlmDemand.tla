----------------------------- MODULE SlmDemand ------------------------------
(***************************************************************************)
(* One input file of a program that probes it block by block, and the      *)
(* linear output the program leaves to the host.                           *)
(*                                                                         *)
(* The load task prefetches the first pages; the first probe that jumps    *)
(* away flips the region for good to extents that are loaded on demand.    *)
(* In a compound lookup (magic read, search type 0: `packed') the extents  *)
(* are packed one after the other behind the prefetch; in any other        *)
(* program (`natural') a block lands at its own offset.                    *)
(*                                                                         *)
(*   compute program    probe a block, ask for it, spin, read it (filter,  *)
(*                      index, data block); write the output               *)
(*   dispatcher helper  __request_io, __reclaim_io_req                     *)
(*   slm workers        slm_work                                           *)
(*   dispatcher         reclaims tasks and frees the input buffer; answers *)
(*                      the host's reads of the output                     *)
(*                                                                         *)
(* They share slm_lba_info and task_step and take no lock.  mem[a] is the  *)
(* file offset whose data lies at offset a of the slice (-1: none).  What  *)
(* ht_advance_head does with completions in any order is Frontier's        *)
(* result: the head is the end of the contiguous part of `seq'.            *)
(*                                                                         *)
(* A region holds a whole file or, for a lookup that knows its data block  *)
(* (search type 1), the sectors around one block of it: the program then   *)
(* probes as many bytes as the block has from the start of the region and  *)
(* reads `skip' bytes further on.                                          *)
(***************************************************************************)
EXTENDS SourceRanges

CONSTANTS
    PAGE,       \* SLM_PAGE_SIZE
    MINIO,      \* MIN_IO_REQUEST_SIZE: what the prefetch loads
    IOSIZE,     \* IO_REQUEST_SIZE
    BUFPAGES,   \* MAGIC_READ_BUFFER_PAGES
    MaxExtents, \* MAX_EXTENT_ENTRIES
    Lists,      \* number of slm lists / workers
    NReq,       \* io_reqs other tasks leave to this one
    Layouts,    \* regions: kind, size (total), source ranges, where the data lie
                \* on the flash and begin in the file (from), blocks probed, skip,
                \* how many of the slm lists their requests go to;
                \* whether the program reports what it has consumed (acks);
                \* out: length of the output, of the pieces it is written in and
                \* of the host's reads, whether pages count as they fill (pages)
    Prompt      \* TRUE: no thread stalls in the windows named at Stalled

ASSUME DemandAssumption ==
    /\ {PAGE, MINIO, IOSIZE, BUFPAGES, MaxExtents, Lists, NReq} \subseteq Nat \ {0}
    /\ MINIO % PAGE = 0 /\ IOSIZE % PAGE = 0 /\ Prompt \in BOOLEAN
    /\ \A f \in Layouts :
          /\ f.total \in Nat \ {0} /\ f.sres # << >> /\ {f.from, f.skip} \subseteq Nat
          /\ f.total <= BUFPAGES * PAGE /\ f.lists \in 1..Lists
          /\ f.kind \in {"packed", "natural"} /\ {f.acks, f.out.pages} \subseteq BOOLEAN
          /\ f.out.len \in Nat /\ {f.out.piece, f.out.ask} \subseteq Nat \ {0}
          /\ \A i \in DOMAIN f.blocks : /\ f.blocks[i].len > 0
                                        /\ f.blocks[i].off + f.blocks[i].len <= f.total

VARIABLES
    file,    \* the layout looked up
    task,    \* ccsd_task_info of the load task
    info,    \* slm_lba_info of the file's slice
    mem,     \* contents of the slice
    queue,   \* slm_list[1..Lists]: requests in list order
    copying, \* per worker: the first READY request has passed the orphan test
    helper,  \* locals of the helper thread
    prog,    \* pc and current block of the program
    disp,    \* how far the dispatcher is with the lookup
    out,     \* output region: bytes written, ht_head, ht_producer_done and
             \* output_logical_total_size
    reader   \* the host's reads of it: pc, offset, length after the clamp

outs == <<out, reader>>
vars == <<file, task, info, mem, queue, copying, helper, prog, disp, outs>>

NONE == -1

AlignDown(a) == (a \div PAGE) * PAGE
AlignUp(a) == DivUp(a, PAGE) * PAGE

Natural == file.kind = "natural"

Used == MapThenSumSet(LAMBDA w : Len(queue[w]), 1..Lists)

(* alloc_slm_lba_info and reserve_slm_memory *)
FreshInfo ==
    [mapped |-> FALSE, random |-> FALSE, stream |-> FALSE, requestDone |-> TRUE,
     demand |-> NONE, size |-> 0, target |-> 0, next |-> 0,
     extents |-> << >>, free |-> 0, seq |-> {}, tail |-> 0]

(* __do_perform_magic_read: the load task of the file and its region. *)
Init ==
    /\ file \in Layouts
    /\ task = [step |-> "SCHEDULE", requested |-> 0, done |-> 0, quota |-> 1,
               first |-> TRUE, ios |-> 0]
    /\ info = FreshInfo
    /\ mem = [a \in 0..(BUFPAGES * PAGE - 1) |-> -1]
    /\ queue = [w \in 1..Lists |-> << >>] /\ copying = [w \in 1..Lists |-> FALSE]
    /\ helper = [pc |-> "request", off |-> 0, want |-> 0, issued |-> 0, target |-> 0,
                 demand |-> FALSE, list |-> 1]
    /\ prog = [pc |-> IF file.blocks = << >> THEN "emit" ELSE "probe", i |-> 1]
    /\ disp = "running"
    /\ out = [written |-> 0, head |-> 0, done |-> FALSE, total |-> 0]
    /\ reader = [pc |-> "ask", off |-> 0, len |-> 0]

----------------------------------------------------------------------------
(* The program: check_data_using_ptr_info for one block after the other *)

Block == file.blocks[prog.i]
At(pc) == prog' = [prog EXCEPT !.pc = pc]

ht_head == Min({b \in 0..file.total : b \notin info.seq})

Covers(e, off, len) == off >= e.off /\ off + len <= e.off + e.size

(* Page by page: the last page of the block has begun to arrive.  A block  *)
(* of one page in length is judged by the page it starts in.               *)
StreamReady(off, len) ==
    LET last == IF len = PAGE THEN off \div PAGE ELSE (off + len - 1) \div PAGE
    IN  last < DivUp(ht_head, PAGE)

(* The first extent that covers the block decides. *)
ExtentReady(off, len) ==
    \E j \in DOMAIN info.extents :
        /\ Covers(info.extents[j], off, len) /\ info.extents[j].ready
        /\ \A k \in 1..(j - 1) : ~Covers(info.extents[k], off, len)

(* check_slm_data_ready_info; check_slm_data_ready, for natural regions,   *)
(* has no gate for a demand in flight.                                     *)
Ready(off, len) ==
    /\ ~(~Natural /\ info.random /\ info.demand # NONE)
    /\ IF info.mapped THEN ExtentReady(off, len) ELSE StreamReady(off, len)

ProbeHit ==
    /\ prog.pc \in {"probe", "spin"} /\ Ready(Block.off, Block.len)
    /\ info' = [info EXCEPT !.next = Block.off + Block.len]
    /\ At("read")
    /\ UNCHANGED <<outs, file, task, mem, queue, copying, helper, disp>>

ProbeMiss ==
    /\ prog.pc = "probe" /\ ~Ready(Block.off, Block.len)
    /\ At("miss")
    /\ UNCHANGED <<outs, file, task, info, mem, queue, copying, helper, disp>>

(* slm_request_demand_read_info, slm_request_demand_read *)
Contiguous == Block.off \div PAGE - info.next \div PAGE \in {0, 1}
FirstOffset == AlignDown(Block.off)

(* A probe just ahead of the stream: ask the loader to go on.  (The branch *)
(* for random_access is dead: it is set together with extent_mapped.)      *)
WaitForStream ==
    /\ prog.pc = "miss" /\ ~info.mapped
    /\ Contiguous \/ (Natural /\ info.stream)
    /\ info' = [info EXCEPT !.stream = @ \/ Block.off # 0]
    /\ At("spin")
    /\ UNCHANGED <<outs, file, task, mem, queue, copying, helper, disp>>

(* The page after those the prefetch may still be filling. *)
FirstFreePage == DivUp(MINIO, PAGE)

(* A jump: extents from now on, packed behind the prefetch.  Unless the    *)
(* task is SCHEDULE the code ends here with BUG().                         *)
Flip ==
    /\ prog.pc = "miss" /\ ~Natural /\ ~info.mapped /\ ~Contiguous
    /\ task.step = "SCHEDULE"
    /\ info' = [info EXCEPT !.mapped = TRUE, !.extents = << >>, !.free = FirstFreePage]
    /\ At("flip")
    /\ UNCHANGED <<outs, file, task, mem, queue, copying, helper, disp>>

(* The first demand: sized by the block, not rounded up to pages. *)
FlipDemand ==
    /\ prog.pc = "flip"
    /\ info' = [info EXCEPT !.random = TRUE, !.requestDone = FALSE,
                            !.size = Block.len + (Block.off - FirstOffset),
                            !.target = info.free * PAGE]
    /\ task' = [task EXCEPT !.step = "SCHEDULE"]
    /\ At("flipPublish")
    /\ UNCHANGED <<outs, file, mem, queue, copying, helper, disp>>

FlipPublish ==
    /\ prog.pc = "flipPublish"
    /\ info' = [info EXCEPT !.demand = FirstOffset]
    /\ At("record")
    /\ UNCHANGED <<outs, file, task, mem, queue, copying, helper, disp>>

(* A new entry of extents[] and the cursor behind it, if both have room. *)
WithExtent(size) ==
    IF Len(info.extents) < MaxExtents /\ info.free + size \div PAGE <= BUFPAGES
    THEN [info EXCEPT
            !.extents = Append(@, [off |-> FirstOffset, size |-> size,
                                   slm |-> info.free * PAGE, ready |-> FALSE]),
            !.free = @ + size \div PAGE]
    ELSE info

(* The extent of the first demand, entered after it was published. *)
FlipRecord ==
    /\ prog.pc = "record"
    /\ info' = WithExtent(AlignUp(info.size))
    /\ At("spin")
    /\ UNCHANGED <<outs, file, task, mem, queue, copying, helper, disp>>

(* A later jump: map the block, wake the task (BUG() when it is awake).    *)
(* Nothing is asked for when the map or the buffer is full.                *)
MapBlock ==
    LET size == AlignUp(Block.len + (Block.off - FirstOffset))
        next == WithExtent(size)
    IN  /\ prog.pc = "miss" /\ ~Natural /\ info.mapped
        /\ IF next = info \/ \E j \in DOMAIN info.extents : Covers(info.extents[j], FirstOffset, size)
           THEN At("spin") /\ UNCHANGED <<info, task>>
           ELSE /\ task.step # "SCHEDULE"
                /\ info' = [next EXCEPT !.size = size, !.target = info.free * PAGE,
                                        !.requestDone = FALSE, !.random = TRUE]
                /\ task' = [task EXCEPT !.step = "SCHEDULE"]
                /\ At("publish")
        /\ UNCHANGED <<outs, file, mem, queue, copying, helper, disp>>

(* A jump in a natural region, unless it is a stream: first the mode,      *)
FlipNatural ==
    /\ prog.pc = "miss" /\ Natural /\ ~info.mapped /\ ~info.stream /\ ~Contiguous
    /\ info' = [info EXCEPT !.mapped = TRUE, !.random = TRUE]
    /\ UNCHANGED <<outs, file, task, mem, queue, copying, helper, prog, disp>>

DemandSize == AlignUp(Block.len + (Block.off - FirstOffset))

(* then an extent at the block's own offset, and the task is woken         *)
(* whatever its step.  Nothing happens while a demand is in flight, when   *)
(* an extent covers the block, when the map is full.                       *)
MapNatural ==
    LET known == \E j \in DOMAIN info.extents : Covers(info.extents[j], FirstOffset, DemandSize)
        full  == Len(info.extents) = MaxExtents
    IN  /\ prog.pc = "miss" /\ Natural /\ info.mapped
        /\ Prompt => helper.pc # "clear"
        /\ IF info.demand # NONE \/ known \/ full
           THEN At("spin") /\ UNCHANGED <<info, task>>
           ELSE /\ info' = [info EXCEPT
                      !.extents = Append(@, [off |-> FirstOffset, size |-> DemandSize,
                                             slm |-> FirstOffset, ready |-> FALSE]),
                      !.random = TRUE, !.requestDone = FALSE,
                      !.size = DemandSize, !.target = FirstOffset]
                /\ task' = [task EXCEPT !.step = "SCHEDULE"]
                /\ At("publish")
        /\ UNCHANGED <<outs, file, mem, queue, copying, helper, disp>>

Publish ==
    /\ prog.pc = "publish"
    /\ info' = [info EXCEPT !.demand = FirstOffset]
    /\ At("spin")
    /\ UNCHANGED <<outs, file, task, mem, queue, copying, helper, disp>>

(* notify_compute_ready: the page that holds the end of the block is done. *)
Acked == IF file.acks THEN Greater(info.tail, AlignDown(Block.off + Block.len - 1) + PAGE)
         ELSE info.tail

(* The block is read; what it says leads to the next block or ends the     *)
(* lookup (filter negative, entry invalid, last block).                    *)
ReadBlock ==
    /\ prog.pc = "read"
    /\ prog' \in {[pc |-> "probe", i |-> j] : j \in {prog.i + 1} \cap DOMAIN file.blocks}
                 \cup {[pc |-> "emit", i |-> prog.i]}
    /\ info' = [info EXCEPT !.tail = Acked]
    /\ UNCHANGED <<outs, file, task, mem, queue, copying, helper, disp>>

----------------------------------------------------------------------------
(* The linear output of the program *)

program == <<file, task, info, mem, queue, copying, helper, disp>>

(* Faulty variant: a page counts before it is full. *)
PublishedHead_Partial(end) == Greater(out.head, AlignUp(end))

(* ht_advance_head_page *)
PublishedHead(end) == Greater(out.head, AlignDown(end))

(* The program writes a piece, and the pages that are full with it count   *)
(* if it goes through set_data_from_ptr (compaction, CRC); a lookup copies *)
(* its result and leaves all to the end.                                   *)
Emit ==
    LET end == Lesser(out.written + file.out.piece, file.out.len) IN
    /\ prog.pc = "emit"
    /\ out' = [out EXCEPT !.written = end, !.head = IF file.out.pages THEN PublishedHead(end) ELSE @]
    /\ At(IF end < file.out.len THEN "emit" ELSE "total")
    /\ UNCHANGED <<program, reader>>

(* finalize_slm_data_ready: first the length,                              *)
FinalizeTotal ==
    /\ prog.pc = "total"
    /\ out' = [out EXCEPT !.done = TRUE, !.total = out.written]
    /\ At("head")
    /\ UNCHANGED <<program, reader>>

(* then the page the end lies in.  (The notification that follows is       *)
(* ignored: the producer is done.)  Prompt: not between the two looks of a *)
(* read at the length and at the head.                                     *)
FinalizeHead ==
    /\ prog.pc = "head" /\ (Prompt => reader.pc # "compare")
    /\ out' = [out EXCEPT !.head = Greater(@, (out.total \div PAGE + 1) * PAGE)]
    /\ At("done")
    /\ UNCHANGED <<program, reader>>

(* check_output_slm_data_ready: a read behind the end gets nothing, one    *)
(* across it is clamped,                                                   *)
HostAsks ==
    /\ reader.pc = "ask"
    /\ reader' = IF out.done /\ reader.off >= out.total THEN [reader EXCEPT !.pc = "end"]
                 ELSE [reader EXCEPT !.pc = "compare",
                          !.len = IF out.done THEN Lesser(file.out.ask, out.total - reader.off)
                                  ELSE file.out.ask]
    /\ UNCHANGED <<program, prog, out>>

(* and is answered once its last page is there; otherwise it is deferred   *)
(* and asked again in full length.                                         *)
HostCompares ==
    LET last == (reader.off + reader.len - 1) \div PAGE IN
    /\ reader.pc = "compare"
    /\ reader' = IF last < DivUp(out.head, PAGE)
                 THEN [reader EXCEPT !.off = @ + reader.len,
                                     !.pc = IF reader.len < file.out.ask THEN "end" ELSE "ask"]
                 ELSE [reader EXCEPT !.pc = "ask"]
    /\ UNCHANGED <<program, prog, out>>

Reader == HostAsks \/ HostCompares

----------------------------------------------------------------------------
Program ==
    \/ ProbeHit \/ ProbeMiss \/ WaitForStream \/ Flip \/ FlipDemand \/ FlipPublish
    \/ FlipRecord \/ MapBlock \/ FlipNatural \/ MapNatural \/ Publish \/ ReadBlock
    \/ Emit \/ FinalizeTotal \/ FinalizeHead

----------------------------------------------------------------------------
(* __request_io *)

Freed == disp \in {"freed", "freedLate"}
Scheduled == task.step = "SCHEDULE" /\ ~Freed
Quota == IF info.random THEN 1 ELSE task.quota

(* get_latest_compute_ready *)
FirstUnconsumed == info.tail \div PAGE

(* The quota loop is entered: for the prefetch, for a demand, or for a     *)
(* stream whose consumer is near.                                          *)
Looping ==
    /\ Quota > 0
    /\ \/ task.requested = 0 \/ info.random
       \/ info.stream /\ task.requested \div PAGE <= FirstUnconsumed + IOSIZE \div PAGE

(* slm_get_demand_read_offset *)
Demanded == IF info.requestDone THEN NONE ELSE info.demand

StartDemand ==
    /\ helper.pc = "request" /\ Scheduled /\ Looping
    /\ Demanded # NONE /\ Used < NReq
    /\ task' = [task EXCEPT !.quota = Quota]
    /\ helper' = [helper EXCEPT !.pc = "issue", !.off = Demanded, !.want = info.size,
                                !.issued = 0, !.target = info.size, !.demand = TRUE]
    /\ UNCHANGED <<outs, file, info, mem, queue, copying, prog, disp>>

StartSequential ==
    LET left == file.total - task.requested
        size == Greater(Lesser(IF task.requested = 0 THEN PAGE ELSE IOSIZE, left), MINIO)
    IN  /\ helper.pc = "request" /\ Scheduled /\ Looping
        /\ Demanded = NONE /\ ~info.random /\ left > 0 /\ Used < NReq
        /\ helper' = [helper EXCEPT !.pc = "issue", !.off = task.requested, !.want = size,
                                    !.issued = 0, !.target = Lesser(size, left), !.demand = FALSE]
        /\ UNCHANGED <<outs, file, task, info, mem, queue, copying, prog, disp>>

(* Every way through __request_io that issues nothing; outside the quota   *)
(* loop it refills the token of a task whose first I/O is back.            *)
NothingToRequest ==
    LET idle == Demanded = NONE /\ task.requested = file.total
    IN  /\ helper.pc = "request"
        /\ ~Scheduled \/ ~Looping \/ Used >= NReq \/ idle \/ (Demanded = NONE /\ info.random)
        /\ task' = [task EXCEPT !.quota =
                       IF ~Scheduled THEN @
                       ELSE IF Looping THEN (IF idle THEN 0 ELSE Quota)
                       ELSE IF task.requested < file.total /\ ~task.first THEN 1 ELSE Quota]
        /\ helper' = [helper EXCEPT !.pc = "reclaim", !.list = 1]
        /\ UNCHANGED <<outs, file, info, mem, queue, copying, prog, disp>>

(* Faulty variant: no look ahead to a range that ends before the target. *)
IsLast_NoPeek(off, size) == helper.issued + size >= helper.target

(* last_io: the target is covered, or nothing can follow. *)
IsLast(off, size) ==
    \/ helper.issued + size >= helper.target
    \/ CalculateIoSize(file.sres, off + size, helper.target - helper.issued - size) = 0

(* One round of the do loop.  The list depends on the requests of all      *)
(* tasks, so it may be any the layout allows.  With no io_req left, or no more to read, the  *)
(* loop is left.                                                           *)
IssueChunk(w) ==
    LET size   == CalculateIoSize(file.sres, helper.off, helper.want)
        issued == helper.issued + size
        more   == issued < helper.target /\ Used + 1 < NReq
                  /\ CalculateIoSize(file.sres, helper.off + size, helper.target - issued) > 0
        buf    == IF helper.demand THEN info.target + helper.issued ELSE helper.off
    IN  /\ helper.pc = "issue" /\ ~Freed
        /\ queue' = [queue EXCEPT ![w] =
                        Append(@, [off |-> helper.off, len |-> size, buf |-> buf, status |-> "READY",
                                   addr |-> DeviceAddr(file.sres, helper.off),
                                   demand |-> helper.demand, last |-> IsLast(helper.off, size)])]
        /\ info' = [info EXCEPT !.requestDone = @ \/ (helper.demand /\ helper.issued = 0)]
        /\ task' = [task EXCEPT !.ios = @ + 1,
                                !.requested = IF helper.demand THEN @ ELSE @ + size,
                                !.quota = IF more THEN @ ELSE @ - 1]
        /\ helper' = IF more
                     THEN [helper EXCEPT !.off = @ + size, !.issued = issued,
                                         !.want = helper.target - issued]
                     ELSE [helper EXCEPT !.pc = "reclaim", !.list = 1]
        /\ UNCHANGED <<outs, file, mem, copying, prog, disp>>

----------------------------------------------------------------------------
(* slm_work *)

(* The region of a request is no longer the one of its task. *)
Orphan == Freed \/ task.step = "FREE"

FirstReady(w, i) ==
    /\ i \in DOMAIN queue[w] /\ queue[w][i].status = "READY"
    /\ \A j \in 1..(i - 1) : queue[w][j].status # "READY"

(* The orphan test comes before the copy, which takes time. *)
BeginCopy(w) ==
    /\ ~copying[w] /\ \E i \in DOMAIN queue[w] : FirstReady(w, i)
    /\ ~Orphan
    /\ copying' = [copying EXCEPT ![w] = TRUE]
    /\ UNCHANGED <<outs, file, task, info, mem, queue, helper, prog, disp>>

SkipOrphan(w) ==
    \E i \in DOMAIN queue[w] :
        /\ ~copying[w] /\ FirstReady(w, i) /\ Orphan
        /\ queue' = [queue EXCEPT ![w][i].status = "DONE"]
        /\ UNCHANGED <<outs, file, task, info, mem, copying, helper, prog, disp>>

EndCopy(w) ==
    \E i \in DOMAIN queue[w] :
        LET r == queue[w][i] IN
        /\ copying[w] /\ FirstReady(w, i)
        /\ mem' = [a \in DOMAIN mem |-> IF a \in r.buf..(r.buf + r.len - 1)
                                        THEN ReadFlash(file.flash, r.addr + (a - r.buf)) ELSE mem[a]]
        /\ queue' = [queue EXCEPT ![w][i].status = "WAITING_TIME"]
        /\ copying' = [copying EXCEPT ![w] = FALSE]
        /\ UNCHANGED <<outs, file, task, info, helper, prog, disp>>

Worker(w) == BeginCopy(w) \/ SkipOrphan(w) \/ EndCopy(w)

----------------------------------------------------------------------------
(* __reclaim_io_req *)

First == Head(queue[helper.list])
PopFront == queue' = [queue EXCEPT ![helper.list] = Tail(@)]

ReclaimOrphan ==
    /\ helper.pc = "reclaim" /\ queue[helper.list] # << >>
    /\ First.status # "READY" /\ Orphan
    /\ PopFront
    /\ UNCHANGED <<outs, file, task, info, mem, copying, helper, prog, disp>>

(* Faulty variant: the task stays SCHEDULE after its demand. *)
Parked_Never(r) == task.step

(* task_step once the last chunk of a demand is back. *)
Parked(r) ==
    IF r.demand /\ r.last /\ task.step = "SCHEDULE" THEN "WAIT" ELSE task.step

(* The windows of a few instructions in which Prompt lets no thread be     *)
(* overtaken: the program between publishing its first demand and entering *)
(* the extent (by a whole flash read), the helper between looking at the   *)
(* task and using its region (by the free); and see FinalizeHead.          *)
Stalled == prog.pc = "record"
InRegion == helper.pc \in {"issue", "publish", "clear"}

(* The request at the front is due: first park the task, *)
ReclaimPark ==
    /\ helper.pc = "reclaim" /\ queue[helper.list] # << >>
    /\ First.status = "WAITING_TIME" /\ ~Orphan
    /\ Prompt /\ First.demand => ~Stalled
    /\ task' = [task EXCEPT !.first = FALSE, !.step = Parked(First)]
    /\ helper' = [helper EXCEPT !.pc = "publish"]
    /\ UNCHANGED <<outs, file, info, mem, queue, copying, prog, disp>>

(* complete_slm_demand_read: the extent at the demanded offset is ready,   *)
Completed ==
    [info EXCEPT
        !.extents = [j \in DOMAIN @ |->
            IF @[j].off = info.demand /\ \A k \in 1..(j - 1) : @[k].off # info.demand
            THEN [@[j] EXCEPT !.ready = TRUE] ELSE @[j]]]

(* Faulty variant: any chunk of the demand completes it. *)
CompletesDemand_Any(r) == r.demand /\ info.demand # NONE

CompletesDemand(r) == r.demand /\ r.last /\ info.demand # NONE

(* notify_slm_data_ready, notify_misaligned_slm_data_ready: to the byte. *)
Landed(r) == [info EXCEPT !.seq = @ \cup r.off..(r.off + r.len - 1)]

(* then publish what has arrived, *)
ReclaimPublish ==
    /\ helper.pc = "publish"
    /\ info' = IF CompletesDemand(First) THEN Completed
               ELSE IF First.demand \/ info.mapped THEN info
               ELSE Landed(First)
    /\ helper' = [helper EXCEPT !.pc = "clear"]
    /\ UNCHANGED <<outs, file, task, mem, queue, copying, prog, disp>>

(* let the next demand come, and account for the request. *)
ReclaimDone ==
    /\ helper.pc = "clear"
    /\ info' = [info EXCEPT !.demand = IF CompletesDemand(First) THEN NONE ELSE @]
    /\ task' = [task EXCEPT !.done = IF First.demand THEN @ ELSE @ + First.len,
                            !.ios = @ - 1]
    /\ PopFront
    /\ helper' = [helper EXCEPT !.pc = "reclaim"]
    /\ UNCHANGED <<outs, file, mem, copying, prog, disp>>

(* The front of this list is not due: next list, and after the last one    *)
(* the scan that ends complete loads.                                      *)
NextList ==
    /\ helper.pc = "reclaim"
    /\ queue[helper.list] # << >> => First.status # "DONE"
    /\ helper' = IF helper.list < Lists THEN [helper EXCEPT !.list = @ + 1]
                 ELSE [helper EXCEPT !.pc = "end", !.list = 1]
    /\ UNCHANGED <<outs, file, task, info, mem, queue, copying, prog, disp>>

EndLoad ==
    /\ helper.pc = "end"
    /\ task' = [task EXCEPT !.step = IF @ = "SCHEDULE" /\ task.done >= file.total
                                     THEN "END" ELSE @]
    /\ helper' = [helper EXCEPT !.pc = "request"]
    /\ UNCHANGED <<outs, file, info, mem, queue, copying, prog, disp>>

Helper ==
    \/ StartDemand \/ StartSequential \/ NothingToRequest
    \/ \E w \in 1..file.lists : IssueChunk(w)
    \/ ReclaimOrphan \/ ReclaimPark \/ ReclaimPublish \/ ReclaimDone \/ NextList \/ EndLoad

----------------------------------------------------------------------------
(* The dispatcher thread *)

(* A load task that has ended goes back to the pool. *)
ReclaimLoad ==
    /\ task.step = "END"
    /\ task' = [task EXCEPT !.step = "FREE"]
    /\ UNCHANGED <<outs, file, info, mem, queue, copying, helper, prog, disp>>

(* The lookup has ended: a load that is still SCHEDULE is parked and the   *)
(* buffer is freed when its I/O is back, otherwise at once.                *)
FinishLookup ==
    /\ prog.pc = "done" /\ disp = "running"
    /\ disp' = IF task.step = "SCHEDULE" THEN "deferred" ELSE "free"
    /\ task' = [task EXCEPT !.step = IF @ = "SCHEDULE" THEN "WAIT" ELSE @]
    /\ UNCHANGED <<outs, file, info, mem, queue, copying, helper, prog>>

MayFree ==
    \/ disp = "free"
    \/ disp = "deferred" /\ (task.step = "FREE" \/ task.ios = 0)

(* free_slm_range: the region is gone and its load task ends. *)
Free ==
    /\ MayFree /\ (Prompt => ~InRegion)
    /\ disp' = IF disp = "deferred" THEN "freedLate" ELSE "freed"
    /\ task' = [task EXCEPT !.step = IF @ = "FREE" THEN @ ELSE "END"]
    /\ UNCHANGED <<outs, file, info, mem, queue, copying, helper, prog>>

Dispatcher == ReclaimLoad \/ FinishLookup \/ Free

Next == Program \/ Reader \/ Helper \/ (\E w \in 1..Lists : Worker(w)) \/ Dispatcher

(* Threads bound to cores of their own, polling; a copied request becomes  *)
(* due (ReclaimPark).                                                      *)
Spec ==
    /\ Init /\ [][Next]_vars
    /\ WF_vars(Helper) /\ SF_vars(ReclaimPark) /\ SF_vars(Program) /\ WF_vars(Reader)
    /\ SF_vars(Free) /\ WF_vars(Dispatcher)
    /\ \A w \in 1..Lists : WF_vars(Worker(w))

----------------------------------------------------------------------------
(* extent_translate_addr: by the first extent that contains the address,   *)
(* unchanged when there is none or the region is not mapped.               *)
Translate(off) ==
    LET holds(e) == off \in e.off..(e.off + e.size - 1)
        hits     == {j \in DOMAIN info.extents : holds(info.extents[j])}
    IN  IF Natural \/ ~info.mapped \/ hits = {} THEN off
        ELSE LET e == info.extents[Min(hits)] IN e.slm + (off - e.off)

(* What the program reads of a block after the probe let it pass is the    *)
(* block: all of it has landed, where extent_translate_addr looks for it,  *)
(* from the place on the flash the file has it, and no other extent,       *)
(* prefetch or late chunk lies there.                                      *)
LookupInPlace ==
    prog.pc = "read" =>
        \A b \in Block.off..(Block.off + Block.len - 1) :
            LET a == Translate(Block.off) + file.skip + (b - Block.off)
            IN  a \in DOMAIN mem /\ mem[a] = file.from + file.skip + b

(* task_step is what each side takes it for when the load task is handed   *)
(* over, as the BUG() checks demand: SCHEDULE at the first demand, not     *)
(* SCHEDULE at a later one, not SCHEDULE at the free.  A natural demand,   *)
(* which does not look, never wakes a task that has ended or gone back to  *)
(* the pool; and a free that was deferred until the I/O of the load is     *)
(* back finds no worker copying into the buffer.                           *)
HandoverSafe ==
    /\ prog.pc = "miss" /\ ~Natural /\ ~info.mapped /\ ~Contiguous => task.step = "SCHEDULE"
    /\ prog.pc = "miss" /\ ~Natural /\ info.mapped => task.step # "SCHEDULE"
    /\ prog.pc = "miss" /\ Natural /\ info.mapped => task.step \in {"SCHEDULE", "WAIT"}
    /\ MayFree => task.step # "SCHEDULE"
    /\ disp = "freedLate" => \A w \in 1..Lists : ~copying[w]

(* The host is never told of more output than has been written, and when   *)
(* it gets a short or an empty answer it has been told of all.             *)
HostToldExact ==
    /\ reader.off <= out.written
    /\ reader.pc = "end" => out.done /\ reader.off = out.total

(* Every lookup ends and gives its buffer back, and the host gets the      *)
(* output to its end: no demand is lost between the program, the parked    *)
(* task and the helper.                                                    *)
LookupEnds == <>(Freed /\ reader.pc = "end")
=============================================================================
