------------------------------ MODULE ConvFtl -------------------------------
(***************************************************************************)
(* The conventional flash translation layer (conv_ftl.c) of one partition: *)
(* page map and reverse map, lines (one block of every die, written as a   *)
(* stripe), two write pointers, write credits and foreground garbage       *)
(* collection.  Every caller holds entry_lock (csd_ftl.c), so the layer is *)
(* sequential: while a collection runs (gc # NoGc) nothing else is enabled.*)
(*                                                                         *)
(* conv_write is a loop over logical pages; one Write is one round of it,  *)
(* and a longer command is several in a row.  The write buffer and all     *)
(* latencies are left out: they do not feed back into this state.          *)
(*                                                                         *)
(* The victim queue is the heap of PQueue; a line knows its place in it.   *)
(* free_line_cnt is Len(freeList); the counters of victims and full lines, *)
(* and those of single blocks, are never read except by assertions.        *)
(***************************************************************************)
EXTENDS PQueue, FiniteSets

CONSTANTS
    NLines,     \* lm->tt_lines
    NChs,       \* nchs of the partition
    NLuns,      \* luns_per_ch
    Oneshot,    \* pgs_per_oneshotpg
    Flashpg,    \* pgs_per_flashpg
    PgsPerBlk,  \* pgs_per_blk
    Lpns,       \* logical pages of the namespace
    Unmapped,   \* UNMAPPED_PPA
    InvalidLpn  \* INVALID_LPN

ASSUME FtlAssumption ==
    /\ NLines \in Nat /\ NLines > 4
    /\ {NChs, NLuns, Oneshot, Flashpg, PgsPerBlk} \subseteq Nat \ {0}
    /\ Oneshot % Flashpg = 0 /\ PgsPerBlk % Oneshot = 0
    /\ IsFiniteSet(Lpns) /\ InvalidLpn \notin Lpns
    \* conv_init_namespace: OP_AREA_PERCENT of thousands of lines are spare,
    \* far more than the two open ones and the two that wait for a collection.
    /\ Cardinality(Lpns) <= (NLines - 4) * (NChs * NLuns * PgsPerBlk)

\* conv_init_params
GcThresLinesHigh == 2

Lines == 0..(NLines - 1)
PgsPerLine == NChs * NLuns * PgsPerBlk

\* struct ppa without its plane, which is always 0.
Ppas == [blk : Lines, ch : 0..(NChs - 1), lun : 0..(NLuns - 1), pg : 0..(PgsPerBlk - 1)]

ASSUME UnmappedAssumption == Unmapped \notin Ppas

VARIABLES
    maptbl,    \* logical page |-> physical page
    rmap,      \* physical page |-> logical page
    status,    \* PG_FREE, PG_VALID, PG_INVALID of every page
    line,      \* per line: vpc, ipc, pos, and the list it is on
    heap,      \* victim_line_pq
    freeList,  \* free_line_list
    wp, gcWp,  \* wp and gc_wp: the page each will hand out next
    credits,   \* wfc.write_credits
    refill,    \* wfc.credits_to_refill
    gc         \* the collection under way: the victim and the pages visited

vars == <<maptbl, rmap, status, line, heap, freeList, wp, gcWp, credits, refill, gc>>

NoGc == [blk |-> -1, at |-> 0]

-----------------------------------------------------------------------------
(* Write pointers *)

\* init_write_pointer: the first page of a line.
StartOf(b) == [blk |-> b, ch |-> 0, lun |-> 0, pg |-> 0]

\* advance_write_pointer: pages of a wordline, then channels, then luns, then
\* the next wordline; StartOf the same line when all are used.
NextPage(w) ==
    LET up == (w.pg + 1) % Oneshot # 0
        base == w.pg + 1 - Oneshot
    IN  CASE up -> [w EXCEPT !.pg = @ + 1]
          [] ~up /\ w.ch + 1 # NChs -> [w EXCEPT !.pg = base, !.ch = @ + 1]
          [] ~up /\ w.ch + 1 = NChs /\ w.lun + 1 # NLuns ->
               [w EXCEPT !.pg = base, !.ch = 0, !.lun = @ + 1]
          [] OTHER -> [w EXCEPT !.pg = (w.pg + 1) % PgsPerBlk, !.ch = 0, !.lun = 0]

UsesUp(w) == NextPage(w) = StartOf(w.blk)

\* The line left behind goes to the full list or to the victim queue.
ListFor(n) == IF n.vpc = PgsPerLine THEN "full" ELSE "victim"

\* advance_write_pointer on the lists, the pointer and the lines; the line
\* that is used up is followed by the head of free_line_list.
AdvancedWp(w) == IF UsesUp(w) THEN StartOf(Head(freeList)) ELSE NextPage(w)
AdvancedFree(w) == IF UsesUp(w) THEN Tail(freeList) ELSE freeList
AdvancedLines(s, w) ==
    IF ~UsesUp(w) THEN s
    ELSE LET on == ListFor(s.line[w.blk])
             t == [s EXCEPT !.line[w.blk].on = on, !.line[Head(freeList)].on = "open"]
         IN  IF on = "victim" THEN PqueueInsert(t, w.blk) ELSE t

-----------------------------------------------------------------------------
(* Page status.  s is the lines with the victim queue.                     *)

(* Faulty variant: the queue is not told. *)
MarkPageInvalid_Unqueued(s, p) ==
    LET n == s.line[p.blk]
        t == [s EXCEPT !.line[p.blk].vpc = @ - 1, !.line[p.blk].ipc = @ + 1]
    IN  IF n.vpc = PgsPerLine THEN PqueueInsert([t EXCEPT !.line[p.blk].on = "victim"], p.blk) ELSE t

\* mark_page_invalid on its line: a queued line changes its priority, a full
\* one is queued.
MarkPageInvalid(s, p) ==
    LET n == s.line[p.blk]
        i == [s EXCEPT !.line[p.blk].ipc = @ + 1]
        t == IF n.pos # 0 THEN PqueueChangePriority(i, n.vpc - 1, p.blk)
             ELSE [i EXCEPT !.line[p.blk].vpc = @ - 1]
    IN  IF n.vpc = PgsPerLine THEN PqueueInsert([t EXCEPT !.line[p.blk].on = "victim"], p.blk) ELSE t

MarkPageValid(s, p) == [s EXCEPT !.line[p.blk].vpc = @ + 1]

-----------------------------------------------------------------------------
(* Garbage collection *)

\* select_victim_line with force: the head of a queue that is not empty.
SelectVictimLine(s) ==
    [PqueuePop(s) EXCEPT !.line[PqueuePeek(s)].pos = 0, !.line[PqueuePeek(s)].on = "gc"]

(* Faulty variant: collects only when no line is left. *)
ShouldGcHigh_Late(fl) == Len(fl) = 0

ShouldGcHigh(fl) == Len(fl) <= GcThresLinesHigh

\* do_gc: the pages the collection gains.
CreditsToRefill(n) == n.ipc

\* check_and_refill_write_credit, forground_gc and the head of do_gc.  With a
\* line to collect the refill waits for the end of the collection; a queue
\* without victims is passed over and the old amount is refilled.
CheckAndRefillWriteCredit(s, fl, cr) ==
    IF cr > 0
    THEN line' = s.line /\ heap' = s.heap /\ credits' = cr /\ UNCHANGED <<refill, gc>>
    ELSE IF ShouldGcHigh(fl) /\ s.heap # << >>
    THEN LET t == SelectVictimLine(s)
         IN  /\ line' = t.line /\ heap' = t.heap
             /\ gc' = [blk |-> PqueuePeek(s), at |-> 0]
             /\ refill' = CreditsToRefill(s.line[PqueuePeek(s)])
             /\ credits' = cr
    ELSE line' = s.line /\ heap' = s.heap /\ credits' = cr + refill /\ UNCHANGED <<refill, gc>>

\* The page do_gc and clean_one_flashpg visit k-th: flash pages, then
\* channels, then luns, then the pages of one flash page.
VictimPage(b, k) ==
    LET d == k \div Flashpg
    IN  [blk |-> b, ch |-> (d \div NLuns) % NChs, lun |-> d % NLuns,
         pg |-> (d \div (NLuns * NChs)) * Flashpg + (k % Flashpg)]

(* Faulty variant: erases a block after its first page. *)
MarkBlockFree_FirstPage(s, p) ==
    IF p.pg = 0
    THEN [q \in Ppas |-> IF q.blk = p.blk /\ q.ch = p.ch /\ q.lun = p.lun THEN "free" ELSE s[q]]
    ELSE s

\* mark_block_free, once the last page of a block has been visited.
MarkBlockFree(s, p) ==
    IF p.pg = PgsPerBlk - 1
    THEN [q \in Ppas |-> IF q.blk = p.blk /\ q.ch = p.ch /\ q.lun = p.lun THEN "free" ELSE s[q]]
    ELSE s

\* The reverse entries of erased pages stay behind in the code; gc_write_page
\* reads those of valid pages only, so the model drops them.
ForgetBlock(r, p) ==
    IF p.pg = PgsPerBlk - 1
    THEN [q \in Ppas |-> IF q.blk = p.blk /\ q.ch = p.ch /\ q.lun = p.lun THEN InvalidLpn ELSE r[q]]
    ELSE r

-----------------------------------------------------------------------------
\* init_maptbl, init_rmap
InitMaps ==
    /\ maptbl = [l \in Lpns |-> Unmapped]
    /\ rmap = [p \in Ppas |-> InvalidLpn]

\* init_lines, and the first two free lines that the write pointers take.
InitLines ==
    /\ line = [b \in Lines |-> [vpc |-> 0, ipc |-> 0, pos |-> 0,
                                on |-> IF b < 2 THEN "open" ELSE "free"]]
    /\ heap = << >>
    /\ freeList = [i \in 1..(NLines - 2) |-> i + 1]

\* conv_init_ftl
Init ==
    /\ InitMaps /\ InitLines
    /\ status = [p \in Ppas |-> "free"]
    /\ wp = StartOf(0)
    /\ gcWp = StartOf(1)
    /\ credits = PgsPerLine
    /\ refill = PgsPerLine
    /\ gc = NoGc

Queue == [heap |-> heap, line |-> line]

\* One round of conv_write's loop.
Write(l) ==
    LET old == maptbl[l]
        dropped == IF old = Unmapped THEN Queue ELSE MarkPageInvalid(Queue, old)
        written == MarkPageValid(dropped, wp)
    IN  /\ gc = NoGc
        /\ status' = [p \in Ppas |-> CASE p = wp -> "valid"
                                       [] p = old -> "invalid"
                                       [] OTHER -> status[p]]
        /\ rmap' = [p \in Ppas |-> CASE p = wp -> l
                                     [] p = old -> InvalidLpn
                                     [] OTHER -> rmap[p]]
        /\ maptbl' = [maptbl EXCEPT ![l] = wp]
        /\ wp' = AdvancedWp(wp)
        /\ freeList' = AdvancedFree(wp)
        /\ CheckAndRefillWriteCredit(AdvancedLines(written, wp), AdvancedFree(wp), credits - 1)
        /\ UNCHANGED gcWp

\* gc_write_page of a valid page; the old page keeps its status and its
\* reverse entry until the block is erased.
GcCopy ==
    LET p == VictimPage(gc.blk, gc.at)
        l == rmap[p]
    IN  /\ gc # NoGc /\ gc.at < PgsPerLine
        /\ status[p] = "valid"
        /\ maptbl' = [maptbl EXCEPT ![l] = gcWp]
        /\ rmap' = ForgetBlock([rmap EXCEPT ![gcWp] = l], p)
        /\ status' = MarkBlockFree([status EXCEPT ![gcWp] = "valid"], p)
        /\ LET s == AdvancedLines(MarkPageValid(Queue, gcWp), gcWp)
           IN  line' = s.line /\ heap' = s.heap
        /\ gcWp' = AdvancedWp(gcWp)
        /\ freeList' = AdvancedFree(gcWp)
        /\ gc' = [gc EXCEPT !.at = @ + 1]
        /\ UNCHANGED <<wp, credits, refill>>

\* A page that is not valid is only passed.
GcPass ==
    LET p == VictimPage(gc.blk, gc.at)
    IN  /\ gc # NoGc /\ gc.at < PgsPerLine
        /\ status[p] # "valid"
        /\ status' = MarkBlockFree(status, p)
        /\ rmap' = ForgetBlock(rmap, p)
        /\ gc' = [gc EXCEPT !.at = @ + 1]
        /\ UNCHANGED <<maptbl, line, heap, freeList, wp, gcWp, credits, refill>>

\* mark_line_free, and the refill that follows forground_gc.
GcFinish ==
    /\ gc # NoGc /\ gc.at = PgsPerLine
    /\ line' = [line EXCEPT ![gc.blk] = [@ EXCEPT !.vpc = 0, !.ipc = 0, !.on = "free"]]
    /\ freeList' = Append(freeList, gc.blk)
    /\ credits' = credits + refill
    /\ gc' = NoGc
    /\ UNCHANGED <<maptbl, rmap, status, heap, wp, gcWp, refill>>

Next ==
    \/ \E l \in Lpns : Write(l)
    \/ GcCopy
    \/ GcPass
    \/ GcFinish

Spec == Init /\ [][Next]_vars

-----------------------------------------------------------------------------
PagesOf(b, s) == {p \in Ppas : p.blk = b /\ status[p] = s}

Visited(p) == gc # NoGc /\ \E k \in 0..(gc.at - 1) : p = VictimPage(gc.blk, k)

(* maptbl and rmap are inverse to each other on the valid pages, at every  *)
(* point of a collection: no logical page is lost or left in a block that  *)
(* has been collected, and gc_write_page finds a valid lpn in every valid  *)
(* page.  The only valid pages nobody maps to are those already copied.    *)
MapsAgree ==
    /\ \A l \in Lpns : maptbl[l] # Unmapped =>
         rmap[maptbl[l]] = l /\ status[maptbl[l]] = "valid" /\ ~Visited(maptbl[l])
    /\ \A p \in Ppas : status[p] = "valid" =>
         rmap[p] \in Lpns /\ (maptbl[rmap[p]] = p \/ Visited(p))

(* vpc and ipc of every line, from which victims, refills and lists are    *)
(* chosen, are the numbers of its valid and invalid pages.                 *)
CountsExact ==
    \A b \in Lines \ {gc.blk} :
        /\ line[b].vpc = Cardinality(PagesOf(b, "valid"))
        /\ line[b].ipc = Cardinality(PagesOf(b, "invalid"))

(* Every line is on the list its pages call for: free lines are erased and *)
(* queued once, full lines have nothing to collect, victims have something *)
(* and no unwritten page (the assertion in clean_one_flashpg), and both    *)
(* write pointers point to an erased page of a line of their own.  The     *)
(* victims form a valid heap, the line with least to copy first, and every *)
(* line knows its place there, by which mark_page_invalid finds it.        *)
LinesSorted ==
    /\ \A i, j \in 1..Len(freeList) : freeList[i] = freeList[j] => i = j
    /\ \A b \in Lines :
         LET on == line[b].on
             free == Cardinality(PagesOf(b, "free"))
         IN  /\ (on = "free") = (\E i \in 1..Len(freeList) : freeList[i] = b)
             /\ (on = "open") = (b \in {wp.blk, gcWp.blk})
             /\ (on = "gc") = (gc # NoGc /\ b = gc.blk)
             /\ on = "free" => free = PgsPerLine
             /\ on = "full" => line[b].vpc = PgsPerLine
             /\ on = "victim" => free = 0 /\ line[b].ipc > 0
             /\ IF on = "victim" THEN heap[line[b].pos] = b ELSE line[b].pos = 0
    /\ wp.blk # gcWp.blk /\ status[wp] = "free" /\ status[gcWp] = "free"
    /\ PqueueIsValid(Queue)
    /\ Len(heap) = Cardinality({b \in Lines : line[b].on = "victim"})

(* The bookkeeping of the lines is exact.                                  *)
LinesExact == CountsExact /\ LinesSorted

(* Flow control works: get_next_free_line never meets an empty list, where *)
(* list_first_entry would return a line that does not exist, also when     *)
(* gc_wp's line is used up in the middle of a collection, and              *)
(* write_credits, an unsigned counter that is tested with <= 0, is never   *)
(* decremented at 0.                                                       *)
FreeLineWhenNeeded ==
    /\ gc = NoGc /\ UsesUp(wp) => freeList # << >>
    /\ gc # NoGc /\ gc.at < PgsPerLine /\ UsesUp(gcWp)
         /\ status[VictimPage(gc.blk, gc.at)] = "valid" => freeList # << >>
    /\ gc = NoGc => credits > 0
=============================================================================
