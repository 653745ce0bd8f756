---------------------------- MODULE WriteBuffer -----------------------------
(***************************************************************************)
(* The write buffer of the emulated SSD and the deferral of writes that do *)
(* not fit: buffer_allocate and buffer_release (ssd.c), conv_write's side  *)
(* of it (conv_ftl.c), the submission and deferred queues (io.c).          *)
(*                                                                         *)
(* conv_write takes the sectors of a command from the buffer all at once.  *)
(* They come back wordline by wordline: whenever the last page of a        *)
(* partition's wordline is written, a writeback is queued, and an I/O      *)
(* worker releases a whole wordline when its target time has passed.  The  *)
(* pages of a wordline that is still open stay in the buffer.              *)
(*                                                                         *)
(* The dispatcher visits the queues in a loop; new commands and deferred   *)
(* ones of all queues are taken in any order here.  Sizes are in sectors.  *)
(* This is what the process tables of IoWorkers promise; the 32-bit wrap   *)
(* of remaining is beyond the bounds of both.                              *)
(***************************************************************************)
EXTENDS Integers, Sequences, FiniteSets, FiniteSetsExt

CONSTANTS
    Sqs,        \* submission queues
    Parts,      \* SSD_PARTITIONS
    SecsPerPg,  \* secs_per_pg
    Oneshot,    \* pgs_per_oneshotpg
    Initial,    \* WRITE_BUFFER_SIZE
    Cmds,       \* commands the host may issue: [lba, len]
    Writes,     \* those that write
    MaxCmds     \* bound on the number of commands

WordlineSecs == Oneshot * SecsPerPg

VARIABLES
    issued,     \* commands the host has issued so far
    sq,         \* per queue: issued and not yet seen by the dispatcher
    deferred,   \* per queue: deferred_list
    remaining,  \* buf->remaining
    open,       \* per partition: pages written to its open wordline
    writebacks, \* wordlines queued for release at the I/O workers
    unpaid      \* sectors written beyond what the commands took, in total

vars == <<issued, sq, deferred, remaining, open, writebacks, unpaid>>

Lpns(c) == (c.lba \div SecsPerPg)..((c.lba + c.len - 1) \div SecsPerPg)

\* Pages of a command that go to partition i.
PagesIn(c, i) == Cardinality({l \in Lpns(c) : l % Parts = i})

-----------------------------------------------------------------------------
Init ==
    /\ issued = 0 /\ unpaid = 0 /\ writebacks = 0
    /\ sq = [q \in Sqs |-> << >>]
    /\ deferred = [q \in Sqs |-> << >>]
    /\ remaining = Initial
    /\ open = [i \in 0..(Parts - 1) |-> 0]

\* The host puts a command in a queue and rings its doorbell (external).
Issue(q, c) ==
    /\ issued < MaxCmds
    /\ issued' = issued + 1
    /\ sq' = [sq EXCEPT ![q] = Append(@, c)]
    /\ UNCHANGED <<deferred, remaining, open, writebacks, unpaid>>

\* buffer_allocate: a write that does not fit is deferred.
Fits(c) == c \in Writes => remaining >= c.len

\* Full wordlines after the loop over the command's pages.
Filled(c, i) == (open[i] + PagesIn(c, i)) \div Oneshot

\* conv_write on the buffer: the loop over the pages fills wordlines and
\* queues one writeback for each that becomes full.
ConvWrite(c) ==
    /\ remaining' = remaining - c.len
    /\ open' = [i \in DOMAIN open |-> (open[i] + PagesIn(c, i)) % Oneshot]
    /\ writebacks' = writebacks + Cardinality(UNION {{i} \X (1..Filled(c, i)) : i \in DOMAIN open})
    /\ unpaid' = unpaid + Cardinality(Lpns(c)) * SecsPerPg - c.len

\* proc_io_cmd on a command it accepts: a read takes nothing.
ProcIoCmd(c) ==
    \/ c \in Writes /\ ConvWrite(c)
    \/ c \notin Writes /\ UNCHANGED <<remaining, open, writebacks, unpaid>>

\* nvmev_proc_io_sq on one entry: a write that does not fit is deferred, and
\* later entries of the queue are still tried.
ProcIoSq(q) ==
    /\ sq[q] # << >>
    /\ sq' = [sq EXCEPT ![q] = Tail(@)]
    /\ LET c == Head(sq[q])
       IN  \/ Fits(c) /\ ProcIoCmd(c) /\ UNCHANGED deferred
           \/ /\ ~Fits(c)
              /\ deferred' = [deferred EXCEPT ![q] = Append(@, c)]
              /\ UNCHANGED <<remaining, open, writebacks, unpaid>>
    /\ UNCHANGED issued

\* nvmev_proc_io_dq: the head is tried again; deferred once more, it stays
\* the head and ends the round.
ProcIoDq(q) ==
    /\ deferred[q] # << >>
    /\ Fits(Head(deferred[q]))
    /\ ProcIoCmd(Head(deferred[q]))
    /\ deferred' = [deferred EXCEPT ![q] = Tail(@)]
    /\ UNCHANGED <<issued, sq>>

\* nvmev_kthread_io on a writeback whose target time has come.
Release ==
    /\ writebacks > 0
    /\ writebacks' = writebacks - 1
    /\ remaining' = remaining + WordlineSecs
    /\ UNCHANGED <<issued, sq, deferred, open, unpaid>>

Next ==
    \/ \E q \in Sqs, c \in Cmds : Issue(q, c)
    \/ \E q \in Sqs : ProcIoSq(q)
    \/ \E q \in Sqs : ProcIoDq(q)
    \/ Release

Spec == Init /\ [][Next]_vars

-----------------------------------------------------------------------------
HeldOpen == Cardinality(UNION {{i} \X (1..open[i]) : i \in DOMAIN open}) * SecsPerPg

(* The buffer is neither leaked nor handed out twice: what is free, what   *)
(* open wordlines hold and what waits for a writeback add up to its size,  *)
(* plus what writes of partial pages have been given back without taking.  *)
BufferBalance ==
    remaining + HeldOpen + writebacks * WordlineSecs = Initial + unpaid
=============================================================================
