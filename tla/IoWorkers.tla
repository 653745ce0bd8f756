----------------------------- MODULE IoWorkers ------------------------------
(***************************************************************************)
(* The life of an NVMe command in the front end (io.c, main.c): the host   *)
(* rings a doorbell, the dispatcher asks the FTL for a target time and     *)
(* links the command into the process table of an I/O worker, the worker   *)
(* moves the data, waits for the target time, posts a completion and       *)
(* raises an interrupt; the dispatcher takes the entry back.               *)
(*                                                                         *)
(* Dispatcher and worker share the table without a lock.  The dispatcher   *)
(* alone links and unlinks, the worker only follows next; but an entry it  *)
(* stands on may be unlinked, freed and filled anew under its feet.  Every *)
(* store of the dispatcher that the worker's next step can tell apart is a *)
(* step of its own.                                                        *)
(*                                                                         *)
(* Writes also use the write buffer: conv_write queues a writeback entry   *)
(* per wordline it fills, and the worker gives the buffer back when that   *)
(* entry is due.  WriteBuffer, the buffer without tables, is what this     *)
(* module is shown to implement.                                           *)
(*                                                                         *)
(* With SUPPORT_MULTI_IO_WORKER_BY_SQ the queue decides the worker; this   *)
(* is one worker and the queues it serves.  Times count abstract ticks.    *)
(***************************************************************************)
EXTENDS Integers, Sequences, FiniteSets, FiniteSetsExt, SequencesExt

CONSTANTS
    Sqs,        \* submission queues of this worker, each with its own CQ
    NEntries,   \* NR_MAX_PARALLEL_IO
    Hosts,      \* [qsize, budget, reads]: queue_size of every queue, number of
                \* commands, whether there are reads among them
    Reads,      \* reads the host may issue: [lba, len]
    Writes,     \* writes the host may issue: [lba, len]
    MaxCmds,    \* bound on the commands of all hosts
    MaxTime,    \* bound on the clock, and on every target time
    Parts, SecsPerPg, Oneshot, Initial  \* see WriteBuffer

Nil == -1

ASSUME IoAssumption ==
    /\ NEntries \in Nat \ {0} /\ MaxCmds \in Nat /\ MaxTime \in Nat
    /\ Hosts \subseteq [qsize : Nat \ {0, 1}, budget : 0..MaxCmds, reads : BOOLEAN]
    /\ Reads \cup Writes \subseteq [lba : Nat, len : Nat \ {0}] /\ Reads \cap Writes = {}
    /\ IsFiniteSet(Sqs) /\ Nil \notin Sqs
    /\ {Parts, SecsPerPg, Oneshot, Initial} \subseteq Nat \ {0}
    \* What a write needs must not be held by wordlines that stay open.
    /\ \A c \in Writes : c.len <= Initial - Parts * (Oneshot - 1) * SecsPerPg

Entries == 0..(NEntries - 1)

VARIABLES
    hc,         \* the host of this behaviour, never changed
    issued,     \* per queue: the commands the host has put in it
    fetched,    \* per queue: how many of them the dispatcher has taken (old_dbs)
    deferred,   \* per queue: deferred_list, positions in issued
    remaining, open, unpaid,  \* the write buffer, as in WriteBuffer
    table,      \* proc_table
    freeSeq, freeEnd, ioSeq, ioEnd,  \* free_seq, free_seq_end, io_seq, io_seq_end
    procNsecs,  \* proc_io_nsecs
    now,        \* the clock
    disp,       \* what the dispatcher is doing
    wk,         \* where the worker is
    cq,         \* per queue: completion entries, cq_head, phase, interrupt_ready
    host,       \* per queue: the host's side of the completion queue (external)
    performed,  \* per queue and command: times its data was moved
    answered    \* per queue and command: times the host saw it complete

buffer == <<remaining, open, unpaid>>
lists == <<freeSeq, freeEnd, ioSeq, ioEnd>>
queues == <<hc, issued, fetched, deferred>>
hist == <<performed, answered>>
vars == <<queues, buffer, table, lists, procNsecs, now, disp, wk, cq, host, hist>>

QSize == hc.qsize
Slots == 0..(QSize - 1)
Cmds == IF hc.reads THEN Reads \cup Writes ELSE Writes
Idle == [pc |-> "poll"]
FreeEntry(e) ==
    [q |-> Nil, id |-> 0, target |-> 0, done |-> FALSE, copied |-> FALSE, wb |-> FALSE,
     next |-> IF e = NEntries - 1 THEN Nil ELSE e + 1, prev |-> e - 1]

\* NVMEV_IO_PROC_INIT
Init ==
    /\ hc \in Hosts
    /\ issued = [q \in Sqs |-> << >>] /\ fetched = [q \in Sqs |-> 0]
    /\ deferred = [q \in Sqs |-> << >>]
    /\ remaining = Initial /\ open = [i \in 0..(Parts - 1) |-> 0] /\ unpaid = 0
    /\ table = [e \in Entries |-> FreeEntry(e)]
    /\ freeSeq = 0 /\ freeEnd = NEntries - 1 /\ ioSeq = Nil /\ ioEnd = Nil
    /\ procNsecs = 0 /\ now = 0
    /\ disp = Idle /\ wk = [pc |-> "start", cur |-> Nil]
    /\ cq = [q \in Sqs |-> [slot |-> [i \in Slots |-> [id |-> 0, phase |-> 0]],
                             head |-> 0, phase |-> 1, ready |-> FALSE]]
    /\ host = [q \in Sqs |-> [head |-> 0, phase |-> 1, irq |-> FALSE]]
    /\ performed = [q \in Sqs |-> [k \in 1..MaxCmds |-> 0]]
    /\ answered = [q \in Sqs |-> [k \in 1..MaxCmds |-> 0]]

Tick == now < MaxTime /\ now' = now + 1
        /\ UNCHANGED <<queues, buffer, table, lists, procNsecs, disp, wk, cq, host, hist>>

-----------------------------------------------------------------------------
(* The host (external).                                                    *)

Total == Cardinality(UNION {{q} \X (1..Len(issued[q])) : q \in Sqs})
Answered(q) == {k \in 1..MaxCmds : answered[q][k] > 0}

\* The driver has as many tags as the queue has slots, less one.
Issue(q, c) ==
    /\ Total < hc.budget
    /\ Len(issued[q]) - Cardinality(Answered(q)) < QSize - 1
    /\ issued' = [issued EXCEPT ![q] = Append(@, c)]
    /\ UNCHANGED <<hc, fetched, deferred, buffer, table, lists, procNsecs, now, disp, wk, cq, host, hist>>

\* The interrupt handler takes entries as long as their phase bit is new.
Handle(q) ==
    LET e == cq[q].slot[host[q].head]
    IN  /\ host[q].irq
        /\ IF e.phase = host[q].phase
           THEN /\ answered' = [answered EXCEPT ![q][e.id] = @ + 1]
                /\ host' = [host EXCEPT ![q].head = (@ + 1) % QSize,
                                        ![q].phase = IF host[q].head = QSize - 1 THEN 1 - @ ELSE @]
           ELSE host' = [host EXCEPT ![q].irq = FALSE] /\ UNCHANGED answered
        /\ UNCHANGED <<queues, buffer, table, lists, procNsecs, now, disp, wk, cq, performed>>

-----------------------------------------------------------------------------
(* The dispatcher.                                                         *)

Lpns(c) == (c.lba \div SecsPerPg)..((c.lba + c.len - 1) \div SecsPerPg)
PagesIn(c, i) == Cardinality({l \in Lpns(c) : l % Parts = i})

\* proc_io_cmd: a write that does not fit in the buffer is deferred.
Defers(c) == c \in Writes /\ remaining < c.len

\* proc_io_cmd on a command it accepts.  wbs counts the wordlines that
\* conv_write fills; their entries are queued before the command's own.
Accept(q, k) ==
    LET c == issued[q][k]
        filled == UNION {{i} \X (1..((open[i] + PagesIn(c, i)) \div Oneshot)) : i \in DOMAIN open}
    IN  IF c \in Writes
        THEN /\ remaining' = remaining - c.len
             /\ open' = [i \in DOMAIN open |-> (open[i] + PagesIn(c, i)) % Oneshot]
             /\ unpaid' = unpaid + Cardinality(Lpns(c)) * SecsPerPg - c.len
             /\ disp' = [pc |-> "alloc", q |-> q, id |-> k,
                         wbs |-> Cardinality(filled)]
        ELSE /\ disp' = [pc |-> "alloc", q |-> q, id |-> k, wbs |-> 0]
             /\ UNCHANGED buffer

\* nvmev_proc_io_sq, one round of its loop.
ProcIoSq(q) ==
    /\ disp.pc = "poll" /\ fetched[q] < Len(issued[q])
    /\ fetched' = [fetched EXCEPT ![q] = @ + 1]
    /\ LET k == fetched[q] + 1
       IN  \/ ~Defers(issued[q][k]) /\ Accept(q, k) /\ UNCHANGED deferred
           \/ /\ Defers(issued[q][k])
              /\ deferred' = [deferred EXCEPT ![q] = Append(@, k)]
              /\ UNCHANGED <<buffer, disp>>
    /\ UNCHANGED <<hc, issued, table, lists, procNsecs, now, wk, cq, host, hist>>

\* nvmev_proc_io_dq: a head that is deferred again stays the head.
ProcIoDq(q) ==
    /\ disp.pc = "poll" /\ deferred[q] # << >>
    /\ ~Defers(issued[q][Head(deferred[q])])
    /\ Accept(q, Head(deferred[q]))
    /\ deferred' = [deferred EXCEPT ![q] = Tail(@)]
    /\ UNCHANGED <<hc, issued, fetched, table, lists, procNsecs, now, wk, cq, host, hist>>

\* What follows when an entry is queued, or dropped.
Queued == IF disp.wbs > 0 THEN [pc |-> "alloc", q |-> disp.q, id |-> disp.id, wbs |-> disp.wbs - 1]
          ELSE [pc |-> "reclaim", last |-> Nil]

\* __enqueue_io_req and enqueue_writeback_io_req up to the barrier: fill the
\* first free entry.  If it is the last one the request is dropped, and the
\* caller goes on.
Enqueue ==
    /\ disp.pc = "alloc"
    /\ IF table[freeSeq].next = Nil
       THEN disp' = Queued /\ UNCHANGED <<freeSeq, table>>
       ELSE /\ freeSeq' = table[freeSeq].next
            /\ \E t \in now..MaxTime :
                  table' = [table EXCEPT ![freeSeq] =
                      [q |-> disp.q, id |-> disp.id, target |-> t, done |-> FALSE,
                       copied |-> disp.wbs > 0, wb |-> disp.wbs > 0, next |-> Nil, prev |-> Nil]]
            /\ disp' = [pc |-> "link", q |-> disp.q, id |-> disp.id, wbs |-> disp.wbs,
                        ent |-> freeSeq, at |-> ioEnd]
    /\ UNCHANGED <<queues, buffer, freeEnd, ioSeq, ioEnd, procNsecs, now, wk, cq, host, hist>>

\* The loop from the end of the list passes entries that are due later,
\* unless the worker's clock has already reached them.
WalksOn ==
    /\ ioSeq # Nil /\ disp.at # Nil
    /\ table[disp.at].target > procNsecs
    /\ table[disp.at].target > table[disp.ent].target

WalkBack ==
    /\ disp.pc = "link" /\ WalksOn
    /\ disp' = [disp EXCEPT !.at = table[@].prev]
    /\ UNCHANGED <<queues, buffer, table, lists, procNsecs, now, wk, cq, host, hist>>

\* The links of the new entry: alone, at the head, at the tail, in between.
Link ==
    LET e == disp.ent
        a == disp.at
    IN  /\ disp.pc = "link" /\ ~WalksOn
        /\ CASE ioSeq = Nil -> ioSeq' = e /\ ioEnd' = e /\ UNCHANGED table
             [] ioSeq # Nil /\ a = Nil ->
                  /\ table' = [table EXCEPT ![ioSeq].prev = e, ![e].next = ioSeq]
                  /\ ioSeq' = e /\ UNCHANGED ioEnd
             [] ioSeq # Nil /\ a # Nil /\ table[a].next = Nil ->
                  /\ table' = [table EXCEPT ![e].prev = a, ![a].next = e]
                  /\ ioEnd' = e /\ UNCHANGED ioSeq
             [] OTHER ->
                  /\ table' = [table EXCEPT ![e].prev = a, ![e].next = table[a].next,
                                            ![table[a].next].prev = e, ![a].next = e]
                  /\ UNCHANGED <<ioSeq, ioEnd>>
        /\ disp' = Queued
        /\ UNCHANGED <<queues, buffer, freeSeq, freeEnd, procNsecs, now, wk, cq, host, hist>>

Reclaimable(e) == table[e].done /\ table[e].copied /\ table[e].target <= procNsecs

\* The entry that __reclaim_completed_reqs looks at next.
Candidate == IF disp.last = Nil THEN ioSeq ELSE table[disp.last].next
TakesBack == IF Candidate = Nil THEN FALSE ELSE Reclaimable(Candidate)

\* It joins the run that is taken back.  What nobody reads before the entry
\* is filled again is cleared, cmd among it.
Scan ==
    /\ disp.pc = "reclaim" /\ TakesBack
    /\ disp' = [disp EXCEPT !.last = Candidate]
    /\ table' = [table EXCEPT ![Candidate].q = Nil, ![Candidate].id = 0,
                              ![Candidate].target = 0, ![Candidate].wb = FALSE]
    /\ UNCHANGED <<queues, buffer, lists, procNsecs, now, wk, cq, host, hist>>

\* The run at the head of the list ends: io_seq moves past it ...
Unlink ==
    /\ disp.pc = "reclaim" /\ ~TakesBack
    /\ IF disp.last = Nil
       THEN disp' = Idle /\ UNCHANGED <<ioSeq, table>>
       ELSE LET n == table[disp.last].next
            IN  /\ ioSeq' = n
                /\ table' = IF n = Nil THEN table ELSE [table EXCEPT ![n].prev = Nil]
                /\ disp' = [pc |-> "free", first |-> ioSeq, last |-> disp.last]
    /\ UNCHANGED <<queues, buffer, freeSeq, freeEnd, ioEnd, procNsecs, now, wk, cq, host, hist>>

(* Faulty variant: the run goes to the front of the free list. *)
Free_Front ==
    /\ disp.pc = "free"
    /\ table' = [table EXCEPT ![disp.last].next = freeSeq, ![freeSeq].prev = disp.last]
    /\ freeSeq' = disp.first
    /\ disp' = Idle
    /\ UNCHANGED <<queues, buffer, freeEnd, ioSeq, ioEnd, procNsecs, now, wk, cq, host, hist>>

\* ... and the run is put at the end of the free list.
Free ==
    /\ disp.pc = "free"
    /\ table' = [table EXCEPT ![disp.last].next = Nil, ![disp.first].prev = freeEnd,
                              ![freeEnd].next = disp.first]
    /\ freeEnd' = disp.last
    /\ disp' = Idle
    /\ UNCHANGED <<queues, buffer, freeSeq, ioSeq, ioEnd, procNsecs, now, wk, cq, host, hist>>

-----------------------------------------------------------------------------
(* The I/O worker, nvmev_kthread_io.                                       *)

StartPass ==
    /\ wk.pc = "start"
    /\ wk' = [cur |-> ioSeq, pc |-> IF ioSeq = Nil THEN "irq" ELSE "visit"]
    /\ UNCHANGED <<queues, buffer, table, lists, procNsecs, now, disp, cq, host, hist>>

Here == table[wk.cur]

Skip ==
    /\ wk.pc = "visit" /\ Here.done
    /\ procNsecs' = now
    /\ wk' = [wk EXCEPT !.pc = "next"]
    /\ UNCHANGED <<queues, buffer, table, lists, now, disp, cq, host, hist>>

\* __do_perform_io, for an entry not copied yet.
Perform ==
    /\ table' = [table EXCEPT ![wk.cur].copied = TRUE]
    /\ performed' = IF Here.copied THEN performed
                    ELSE [performed EXCEPT ![Here.q][Here.id] = @ + 1]

\* An entry whose target time has not come.
VisitEarly ==
    /\ wk.pc = "visit" /\ ~Here.done /\ Here.target > now
    /\ Perform
    /\ procNsecs' = now
    /\ wk' = [wk EXCEPT !.pc = "next"]
    /\ UNCHANGED <<queues, buffer, lists, now, disp, cq, host, answered>>

(* Faulty variant: goes on without marking the entry. *)
Release_Unmarked ==
    /\ wk.pc = "visit" /\ ~Here.done /\ Here.target <= now /\ Here.wb
    /\ remaining' = remaining + Oneshot * SecsPerPg
    /\ procNsecs' = now
    /\ wk' = [wk EXCEPT !.pc = "next"]
    /\ UNCHANGED <<queues, open, unpaid, table, lists, now, disp, cq, host, hist>>

\* buffer_release: a whole wordline.
Release ==
    /\ wk.pc = "visit" /\ ~Here.done /\ Here.target <= now /\ Here.wb
    /\ remaining' = remaining + Oneshot * SecsPerPg
    /\ procNsecs' = now
    /\ wk' = [wk EXCEPT !.pc = "mark"]
    /\ UNCHANGED <<queues, open, unpaid, table, lists, now, disp, cq, host, hist>>

(* Faulty variant: the phase does not turn at the end of the queue. *)
Post_SamePhase(c, id) ==
    [slot |-> [c.slot EXCEPT ![c.head] = [id |-> id, phase |-> c.phase]],
     head |-> (c.head + 1) % QSize, phase |-> c.phase, ready |-> TRUE]

\* __fill_cq_result
Post(c, id) ==
    [slot |-> [c.slot EXCEPT ![c.head] = [id |-> id, phase |-> c.phase]],
     head |-> (c.head + 1) % QSize,
     phase |-> IF c.head = QSize - 1 THEN 1 - c.phase ELSE c.phase,
     ready |-> TRUE]

Complete ==
    /\ wk.pc = "visit" /\ ~Here.done /\ Here.target <= now /\ ~Here.wb
    /\ Perform
    /\ procNsecs' = now
    /\ cq' = [cq EXCEPT ![Here.q] = Post(@, Here.id)]
    /\ wk' = [wk EXCEPT !.pc = "mark"]
    /\ UNCHANGED <<queues, buffer, lists, now, disp, host, answered>>

(* Faulty variant: marks an entry only when the host has seen it. *)
Mark_Late ==
    /\ wk.pc = "mark"
    /\ table' = [table EXCEPT ![wk.cur].done = Here.wb \/ answered[Here.q][Here.id] > 0]
    /\ wk' = [wk EXCEPT !.pc = "next"]
    /\ UNCHANGED <<queues, buffer, lists, procNsecs, now, disp, cq, host, hist>>

\* is_completed is stored last.
Mark ==
    /\ wk.pc = "mark"
    /\ table' = [table EXCEPT ![wk.cur].done = TRUE]
    /\ wk' = [wk EXCEPT !.pc = "next"]
    /\ UNCHANGED <<queues, buffer, lists, procNsecs, now, disp, cq, host, hist>>

Advance ==
    /\ wk.pc = "next"
    /\ wk' = [cur |-> Here.next, pc |-> IF Here.next = Nil THEN "irq" ELSE "visit"]
    /\ UNCHANGED <<queues, buffer, table, lists, procNsecs, now, disp, cq, host, hist>>

\* The loop over the completion queues.
SignalIrq ==
    /\ wk.pc = "irq"
    /\ cq' = [q \in Sqs |-> [cq[q] EXCEPT !.ready = FALSE]]
    /\ host' = [q \in Sqs |-> [host[q] EXCEPT !.irq = @ \/ cq[q].ready]]
    /\ wk' = [wk EXCEPT !.pc = "start"]
    /\ UNCHANGED <<queues, buffer, table, lists, procNsecs, now, disp, hist>>

-----------------------------------------------------------------------------
Dispatcher ==
    \/ \E q \in Sqs : ProcIoSq(q)
    \/ \E q \in Sqs : ProcIoDq(q)
    \/ Enqueue \/ WalkBack \/ Link \/ Scan \/ Unlink \/ Free

Worker ==
    \/ StartPass \/ Skip \/ VisitEarly \/ Release \/ Complete
    \/ Mark \/ Advance \/ SignalIrq

Next ==
    \/ Tick
    \/ \E q \in Sqs, c \in Cmds : Issue(q, c)
    \/ \E q \in Sqs : Handle(q)
    \/ Dispatcher
    \/ Worker

\* The host's commands end; all threads poll, and time passes.
Fairness ==
    /\ WF_vars(Tick) /\ WF_vars(Worker)
    /\ WF_vars(Enqueue \/ WalkBack \/ Link \/ Scan \/ Unlink \/ Free)
    /\ \A q \in Sqs : WF_vars(ProcIoSq(q)) /\ WF_vars(ProcIoDq(q)) /\ WF_vars(Handle(q))

Spec == Init /\ [][Next]_vars /\ Fairness

-----------------------------------------------------------------------------
EntryOf ==
    [q : Sqs \cup {Nil}, id : 0..MaxCmds, target : 0..MaxTime, done : BOOLEAN,
     copied : BOOLEAN, wb : BOOLEAN, next : Entries \cup {Nil}, prev : Entries \cup {Nil}]

(* Types.                                                                  *)
TypeOK ==
    /\ table \in [Entries -> EntryOf]
    /\ {freeSeq, freeEnd} \subseteq Entries
    /\ {ioSeq, ioEnd, wk.cur} \subseteq Entries \cup {Nil}
    /\ remaining \in Nat /\ procNsecs \in 0..now /\ now \in 0..MaxTime
    /\ \A q \in Sqs : cq[q].head \in Slots /\ host[q].head \in Slots
                      /\ fetched[q] \in 0..Len(issued[q])

\* The entries reached from h through next, in this order.
Further(h, c) ==
    LET e == IF c = << >> THEN h ELSE table[Last(c)].next
    IN  IF e = Nil THEN c ELSE Append(c, e)

Chain(h) ==
    LET f[n \in 0..NEntries] == IF n = 0 THEN << >> ELSE Further(h, f[n - 1])
    IN  f[NEntries]

\* Entries the dispatcher holds between two lists.
InHand == CASE disp.pc = "link" -> {disp.ent}
            [] disp.pc = "free" -> {e \in Entries : table[e].done}
            [] OTHER -> {}

(* The two lists stay lists: no entry is on both, none is lost, prev is    *)
(* the inverse of next in the list that is searched backwards.             *)
ListsSound ==
    LET io == Chain(ioSeq)
        fr == Chain(freeSeq)
    IN  /\ IsInjective(io) /\ IsInjective(fr)
        /\ Range(io) \cap Range(fr) = {}
        /\ Entries \ (Range(io) \cup Range(fr)) \subseteq InHand
        /\ Last(fr) = freeEnd
        /\ \A i \in 2..Len(io) : table[io[i]].prev = io[i-1]
        /\ io # << >> => table[io[1]].prev = Nil /\ Last(io) = ioEnd

(* An entry that left the list while the worker stood on it leads nowhere  *)
(* dangerous: what the worker still reaches from there is finished, or is  *)
(* filled again and about to be linked.                                    *)
WorkerOnSafeGround ==
    wk.cur # Nil /\ wk.cur \notin Range(Chain(ioSeq)) =>
        \A e \in Range(Chain(wk.cur)) \ Range(Chain(ioSeq)) :
            table[e].done \/ (disp.pc = "link" /\ e = disp.ent)

(* Each command is carried out and answered once, never answered before    *)
(* its data has moved, and no completion is overwritten unseen.            *)
OnceEach ==
    \A q \in Sqs, k \in 1..MaxCmds :
        /\ performed[q][k] <= 1 /\ answered[q][k] <= performed[q][k]

\* Commands the dispatcher has not come to, and those it has put off.
Unseen == [q \in Sqs |-> SubSeq(issued[q], fetched[q] + 1, Len(issued[q]))]
Postponed == [q \in Sqs |-> [i \in DOMAIN deferred[q] |-> issued[q][deferred[q][i]]]]

\* Writebacks in the table, up to the store that gives their sectors back,
\* and those the dispatcher has still to queue.
Owing(e) == table[e].wb /\ ~table[e].done /\ ~(wk.cur = e /\ wk.pc = "mark")
Coming == CASE disp.pc = "alloc" -> disp.wbs
            [] disp.pc = "link" /\ disp.wbs > 0 -> disp.wbs - 1
            [] OTHER -> 0
Writebacks == Cardinality({e \in Entries : Owing(e)}) + Coming

WB == INSTANCE WriteBuffer WITH
    Cmds <- Reads \cup Writes, issued <- Total, sq <- Unseen, deferred <- Postponed,
    writebacks <- Writebacks

(* The tables implement the buffer: every step is one of WriteBuffer's or  *)
(* leaves it alone; in particular no wordline is released twice or never.  *)
ImplementsWriteBuffer == WB!Spec

(* The sectors that commands, open wordlines and the writebacks in the     *)
(* table hold add up to the buffer, whoever is in between two stores.      *)
SectorsAddUp == WB!BufferBalance

(* What dispatcher and worker share without a lock is never lost or on two *)
(* lists, however far the worker falls behind.                             *)
NothingLost == TypeOK /\ ListsSound /\ WorkerOnSafeGround

(* Every command the host issues is answered.                              *)
AllAnswered == <>[](\A q \in Sqs : Cardinality(Answered(q)) = Len(issued[q]))
=============================================================================
