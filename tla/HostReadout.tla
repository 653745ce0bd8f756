---------------------------- MODULE HostReadout -----------------------------
(***************************************************************************)
(* The host reads a circular output ring back: csdvirt_read_slm sends one  *)
(* memory_read command and waits for it.  The NVMe dispatcher checks the   *)
(* command (check_output_slm_data_ready), defers it while the data is not  *)
(* there, an I/O worker copies and reports the bytes consumed, and the     *)
(* writer of the ring goes on.  The ring and its writer are OutputRing.    *)
(***************************************************************************)
EXTENDS OutputRing

CONSTANT HostLens  \* lengths the host asks for; a read does not pass the ghost page

ASSUME HostAssumption == HostLens \subseteq 1..RING

VARIABLES
    hpc,       \* the command: "idle", "total", "head", "copy", "notify", "tail", "done"
    len,       \* cmd->memory.length as sent by the host
    clamped,   \* length after the end-of-data clamp of this attempt
    consumed,  \* host_consumed_logical_offset
    received   \* bytes the host has in its files

hostVars == <<hpc, len, clamped, consumed, received>>
hostReadVars == <<ringVars, writerVars, hostVars>>

HostTypeOK ==
    /\ RingTypeOK
    /\ hpc \in {"idle", "total", "head", "copy", "notify", "tail", "done"}
    /\ len \in HostLens \cup {0} /\ clamped \in 0..len
    /\ consumed \in 0..OutTotal /\ received \in 0..OutTotal

HostInit ==
    /\ RingInit
    /\ hpc = "idle" /\ len = 0 /\ clamped = 0 /\ consumed = 0 /\ received = 0

----------------------------------------------------------------------------
(* The host asks for the next n bytes at the ring location it has come to. *)
Submit(n) ==
    /\ hpc = "idle" /\ Phys(received) + n <= RING + GHOST
    /\ len' = n /\ clamped' = n /\ hpc' = "total"
    /\ UNCHANGED <<ringVars, writerVars, consumed, received>>

(* Faulty variant: clamps to what has been produced so far. *)
CheckTotal_Produced ==
    /\ hpc = "total"
    /\ clamped' = IF consumed >= head THEN 0 ELSE Lesser(len, head - consumed)
    /\ hpc' = "copy"
    /\ UNCHANGED <<ringVars, writerVars, len, consumed, received>>

(* The end-of-data clamp, once the final size is known: an empty answer at *)
(* the end, a short one before it.                                         *)
CheckTotal ==
    /\ hpc = "total"
    /\ IF outTotal > 0
       THEN /\ clamped' = IF consumed >= outTotal THEN 0 ELSE Lesser(len, outTotal - consumed)
            /\ hpc' = IF consumed >= outTotal THEN "copy" ELSE "head"
       ELSE clamped' = len /\ hpc' = "head"
    /\ UNCHANGED <<ringVars, writerVars, len, consumed, received>>

(* The range is produced: the command goes to an I/O worker. *)
CheckHead ==
    /\ hpc = "head" /\ consumed + clamped <= head
    /\ hpc' = "copy"
    /\ UNCHANGED <<ringVars, writerVars, len, clamped, consumed, received>>

(* Not produced yet: NVMEV_IO_STATUS_DEFERRED; nvmev_proc_io_dq tries the  *)
(* unchanged command again.                                                *)
Defer ==
    /\ hpc = "head" /\ consumed + clamped > head
    /\ hpc' = "total"
    /\ UNCHANGED <<ringVars, writerVars, len, clamped, consumed, received>>

(* __do_perform_io has copied the bytes out ... *)
CopyOut ==
    /\ hpc = "copy"
    /\ hpc' = "notify"
    /\ UNCHANGED <<ringVars, writerVars, len, clamped, consumed, received>>

(* ... and notify_output_consumed advances the consumed offset, then the   *)
(* frontier the writer waits on.                                           *)
NotifyConsumed ==
    /\ hpc = "notify"
    /\ consumed' = consumed + clamped
    /\ hpc' = "tail"
    /\ UNCHANGED <<ringVars, writerVars, len, clamped, received>>

(* Faulty variant: the writer is not told. *)
NotifyTail_Lost ==
    /\ hpc = "tail"
    /\ received' = received + clamped
    /\ hpc' = IF clamped = 0 THEN "done" ELSE "idle"
    /\ UNCHANGED <<ringVars, writerVars, len, clamped, consumed>>

(* ht_set_tail; then the completion reaches the host, which stops at an    *)
(* empty answer.                                                           *)
NotifyTail ==
    /\ hpc = "tail"
    /\ tail' = Greater(tail, consumed)
    /\ received' = received + clamped
    /\ hpc' = IF clamped = 0 THEN "done" ELSE "idle"
    /\ UNCHANGED <<head, producerDone, outTotal, loadComplete, logicalTotal, ring,
                   writerVars, len, clamped, consumed>>

Device == CheckTotal \/ CheckHead \/ Defer \/ CopyOut \/ NotifyConsumed \/ NotifyTail

HostNext ==
    \/ Writer /\ UNCHANGED hostVars
    \/ \E n \in HostLens : Submit(n)
    \/ Device

(* The writer spins on a compute worker, dispatcher and I/O workers poll;  *)
(* the host keeps reading until the empty answer.                          *)
HostSpec ==
    /\ HostInit /\ [][HostNext]_hostReadVars
    /\ WF_hostReadVars(Writer /\ UNCHANGED hostVars)
    /\ WF_hostReadVars(Device) /\ WF_hostReadVars(\E n \in HostLens : Submit(n))

----------------------------------------------------------------------------
(* While the I/O worker copies, every byte of the answer is the one of     *)
(* this place of the stream: neither unwritten nor overwritten by the next *)
(* lap (check_output_slm_data_ready against circular_output_wait_for_space). *)
HostReadsInPlace ==
    hpc = "copy" => \A b \in received..(received + clamped - 1) : Holds(received, b)

(* The host stops with the whole output, no earlier and no longer: the     *)
(* empty answer is given only at the final size.                           *)
DoneMeansAll == hpc = "done" => received = OutTotal /\ wpc # "write"

(* The writer is never more than a ring ahead of the bytes the host has    *)
(* acknowledged, and publishes only what it has written.                   *)
WithinRing ==
    /\ tail <= consumed /\ consumed <= head /\ head <= written
    /\ written <= tail + RING

(* The host gets everything although its reads, the writer's grain-wise    *)
(* head and the page-rounded space wait all hold each other up.            *)
HostGetsAll == <>(hpc = "done" /\ wpc = "end")
=============================================================================
