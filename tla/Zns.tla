-------------------------------- MODULE Zns ---------------------------------
(***************************************************************************)
(* The zoned-namespace FTL: zone descriptors and zone resources            *)
(* (zns_ftl.c, zns_ftl.h), writes with and without a zone random write     *)
(* area (zns_read_write.c) and zone management (zns_mgmt_send.c).          *)
(*                                                                         *)
(* The dispatcher runs a command to its end, so a command is one step.  A  *)
(* write that finds the buffer exhausted is deferred and run again from    *)
(* the start; later commands overtake it.  The data of a write is copied   *)
(* into the storage by an I/O worker some time later, whatever the status  *)
(* of the command (io.c, nvmev_kthread_io), and the buffer space of a      *)
(* flash page comes back when its writeback's time has passed.             *)
(*                                                                         *)
(* The host does not send a write or a reset over blocks for which it has  *)
(* a write outstanding: NVMe gives such commands no order.                 *)
(*                                                                         *)
(* Sizes are in logical blocks.  ASSERT is empty in this build (nvmev.h),  *)
(* so a counter that is released at zero wraps; NVMEV_ASSERT stops the     *)
(* machine, which bug records.                                             *)
(***************************************************************************)
EXTENDS Integers, Sequences, FiniteSets, FiniteSetsExt

CONSTANTS
    NZones,     \* nr_zones
    ZoneSize,   \* zone_size
    SecsPerPg,  \* secs_per_pg
    Oneshot,    \* pgs_per_oneshotpg
    LbasZrwa,   \* lbas_per_zrwa
    LbasZrwafg, \* lbas_per_zrwafg
    ZrwaBuffer, \* ZRWA_BUFFER_SIZE
    Initial,    \* WRITE_BUFFER_SIZE
    CntMod,     \* modulus of acquired_cnt, 2^32 in the code
    Starts,     \* blocks at which the host's writes start
    Lens,       \* lengths of the host's writes
    MaxWrites   \* bound on the number of writes

WriteUnit == Oneshot * SecsPerPg

ASSUME ZnsAssumption ==
    /\ {NZones, ZoneSize, SecsPerPg, Oneshot, LbasZrwafg} \subseteq Nat \ {0}
    /\ {LbasZrwa, ZrwaBuffer, Initial, MaxWrites} \subseteq Nat
    /\ Starts \subseteq Nat /\ Lens \subseteq Nat \ {0} /\ CntMod \in Nat /\ CntMod > NZones
    \* zns_init_params; the flush granularity divides the random write area.
    /\ ZoneSize % WriteUnit = 0 /\ ZoneSize % LbasZrwafg = 0 /\ LbasZrwa % LbasZrwafg = 0

Zones == 0..(NZones - 1)
Lbas == 0..(NZones * ZoneSize - 1)
Ssd == NZones                 \* the SSD's write buffer, beside those of the zones
Buffers == Zones \cup {Ssd}
Resources == {"ACTIVE", "OPEN", "ZRWA"}
Opened == {"OPENED_IMPL", "OPENED_EXPL"}
Active == Opened \cup {"CLOSED"}
ZoneStates == Active \cup {"EMPTY", "FULL", "READ_ONLY", "OFFLINE"}

VARIABLES
    dev,      \* the device: [zone, res, wbuf, zbuf, data]; data is what a block
              \* holds: ZERO, the data of the LAST accepted write over it,
              \* OLDER data while that is not copied yet, or a REFUSED write's
    deferred, \* deferred writes, oldest first
    copies,   \* writes whose data has not been copied yet
    backs,    \* per buffer: writebacks queued at the I/O workers
    issued,   \* writes sent so far
    bug,      \* an NVMEV_ASSERT has failed
    lost,     \* history: blocks of the write buffer no writeback will return
    written   \* history: blocks of an accepted write since the last reset

vars == <<dev, deferred, copies, backs, issued, bug, lost, written>>

ZoneOf(lba) == lba \div ZoneSize
Slba(z) == z * ZoneSize
Elba(z) == Slba(z + 1) - 1
Blocks(w) == w.slba..(w.slba + w.len - 1)
ZoneBlocks(z) == Slba(z)..Elba(z)

Init ==
    /\ dev = [zone |-> [z \in Zones |-> [state |-> "EMPTY", wp |-> Slba(z), zrwav |-> FALSE]],
              res  |-> [r \in Resources |-> 0],
              wbuf |-> Initial,
              zbuf |-> [z \in Zones |-> ZrwaBuffer],
              data |-> [l \in Lbas |-> "ZERO"]]
    /\ deferred = << >> /\ copies = {}
    /\ backs = [b \in Buffers |-> 0]
    /\ issued = 0 /\ bug = FALSE
    /\ lost = 0 /\ written = {}

-----------------------------------------------------------------------------
(* Zone resources and states.  d is the device in the midst of a command. *)

\* __init_resource: every total is the number of zones.
Exhausted(d, r) == d.res[r] = NZones
Acquire(d, r) == [d EXCEPT !.res[r] = @ + 1]
Release(d, r) == [d EXCEPT !.res[r] = (@ - 1) % CntMod]
ChangeState(d, z, s) == [d EXCEPT !.zone[z].state = s]

\* The releases of finish and reset, which fall through from open to closed.
Deactivate(d, z) ==
    LET s  == d.zone[z].state
        d1 == IF s \in Opened THEN Release(d, "OPEN") ELSE d
        d2 == IF s \in Active THEN Release(d1, "ACTIVE") ELSE d1
    IN  IF s \in Active /\ d.zone[z].zrwav THEN Release(d2, "ZRWA") ELSE d2

Done(d) == [dev |-> d, status |-> "SUCCESS"]
Fail(d, s) == [dev |-> d, status |-> s]

\* __zmgmt_send_close_zone
CloseZone(d, z) ==
    CASE d.zone[z].state \in Opened -> Done(Release(ChangeState(d, z, "CLOSED"), "OPEN"))
      [] d.zone[z].state = "CLOSED" -> Done(d)
      [] OTHER -> Fail(d, "INVALID_TRANSITION")

(* Faulty variant: only the open resource is released. *)
FinishZone_KeepsActive(d, z) ==
    IF d.zone[z].state \in Active \cup {"EMPTY", "FULL"}
    THEN Done(ChangeState(IF d.zone[z].state \in Opened THEN Release(d, "OPEN") ELSE d, z, "FULL"))
    ELSE Fail(d, "INVALID_TRANSITION")

\* __zmgmt_send_finish_zone: the write pointer stays where it is.
FinishZone(d, z) ==
    IF d.zone[z].state \in Active \cup {"EMPTY", "FULL"}
    THEN Done(ChangeState(Deactivate(d, z), z, "FULL"))
    ELSE Fail(d, "INVALID_TRANSITION")

(* Faulty variant: the random write area is taken before the zone is
   known to be empty. *)
OpenZone_ZrwaFirst(d, z, zrwa) ==
    LET e == IF zrwa THEN [Acquire(d, "ZRWA") EXCEPT !.zone[z].zrwav = TRUE] ELSE d
    IN  CASE d.zone[z].state = "EMPTY" ->
                 Done(ChangeState(Acquire(Acquire(e, "ACTIVE"), "OPEN"), z, "OPENED_EXPL"))
          [] d.zone[z].state = "CLOSED" -> Done(ChangeState(Acquire(e, "OPEN"), z, "OPENED_EXPL"))
          [] d.zone[z].state \in Opened -> Done(ChangeState(e, z, "OPENED_EXPL"))
          [] OTHER -> Fail(e, "INVALID_TRANSITION")

\* __zmgmt_send_open_zone
OpenZone(d, z, zrwa) ==
    LET s == d.zone[z].state
        e == IF zrwa THEN [Acquire(d, "ZRWA") EXCEPT !.zone[z].zrwav = TRUE] ELSE d
        error ==
            IF s \notin Active \cup {"EMPTY"} THEN "INVALID_TRANSITION"
            ELSE IF s = "EMPTY" /\ Exhausted(d, "ACTIVE") THEN "NO_ACTIVE_ZONE"
            ELSE IF s \in {"EMPTY", "CLOSED"} /\ Exhausted(d, "OPEN") THEN "NO_OPEN_ZONE"
            ELSE IF s = "EMPTY" /\ zrwa /\ Exhausted(d, "ZRWA") THEN "ZRWA_RSRC_UNAVAIL"
            ELSE "NONE"
    IN  IF error # "NONE" THEN Fail(d, error) ELSE
        CASE s = "EMPTY"  -> Done(ChangeState(Acquire(Acquire(e, "ACTIVE"), "OPEN"), z, "OPENED_EXPL"))
          [] s = "CLOSED" -> Done(ChangeState(Acquire(d, "OPEN"), z, "OPENED_EXPL"))
          [] s \in Opened -> Done(ChangeState(d, z, "OPENED_EXPL"))

(* Faulty variant: the data of the zone is not cleared. *)
Cleared_Not(d, z) ==
    [d EXCEPT !.zone[z].wp = Slba(z), !.zone[z].zrwav = FALSE, !.zbuf[z] = ZrwaBuffer]

\* __reset_zone
Cleared(d, z) ==
    [d EXCEPT !.data = [l \in Lbas |-> IF ZoneOf(l) = z THEN "ZERO" ELSE @[l]],
              !.zone[z].wp = Slba(z), !.zone[z].zrwav = FALSE, !.zbuf[z] = ZrwaBuffer]

\* __zmgmt_send_reset_zone
ResetZone(d, z) ==
    IF d.zone[z].state \in Active \cup {"EMPTY", "FULL"}
    THEN Done(Cleared(ChangeState(Deactivate(d, z), z, "EMPTY"), z))
    ELSE Fail(d, "INVALID_TRANSITION")

\* __zmgmt_send_offline_zone
OfflineZone(d, z) ==
    CASE d.zone[z].state = "READ_ONLY" -> Done(ChangeState(d, z, "OFFLINE"))
      [] d.zone[z].state = "OFFLINE"   -> Done(d)
      [] OTHER -> Fail(d, "INVALID_TRANSITION")

\* __zmgmt_send_flush_explicit_zrwa: commits the blocks up to lba.
FlushZrwa(d, lba) ==
    LET z    == ZoneOf(lba)
        zn   == d.zone[z]
        last == Min({zn.wp + LbasZrwa - 1, Elba(z)})
        e    == [d EXCEPT !.zone[z].wp = lba + 1]
    IN  IF ~zn.zrwav \/ ~(lba >= zn.wp /\ lba <= last) THEN Fail(d, "INVALID_ZONE_OPERATION")
        ELSE IF (lba - zn.wp + 1) % LbasZrwafg # 0 THEN Fail(d, "INVALID_FIELD")
        ELSE IF zn.state \notin Active THEN Fail(d, "INVALID_ZONE_OPERATION")
        ELSE IF lba + 1 = Slba(z) + ZoneSize THEN Done(ChangeState(Deactivate(e, z), z, "FULL"))
        ELSE Done(e)

\* __zmgmt_send
Manage(d, lba, a) ==
    CASE a = "CLOSE"     -> CloseZone(d, ZoneOf(lba))
      [] a = "FINISH"    -> FinishZone(d, ZoneOf(lba))
      [] a = "OPEN"      -> OpenZone(d, ZoneOf(lba), FALSE)
      [] a = "OPEN_ZRWA" -> OpenZone(d, ZoneOf(lba), TRUE)
      [] a = "RESET"     -> ResetZone(d, ZoneOf(lba))
      [] a = "OFFLINE"   -> OfflineZone(d, ZoneOf(lba))
      [] a = "FLUSH"     -> FlushZrwa(d, lba)

ManageActions == {"CLOSE", "FINISH", "OPEN", "OPEN_ZRWA", "RESET", "OFFLINE", "FLUSH"}

-----------------------------------------------------------------------------
(* Writes. *)

\* __check_boundary_error: the write lies in one zone.
OneZone(w) == ZoneOf(w.slba) = ZoneOf(w.slba + w.len - 1)

\* __increase_write_ptr: the random write area of the zone is not released.
IncreaseWp(d, z, n) ==
    LET e == [d EXCEPT !.zone[z].wp = @ + n]
    IN  IF e.zone[z].wp = Slba(z) + ZoneSize
        THEN ChangeState(Release(Release(e, "OPEN"), "ACTIVE"), z, "FULL")
        ELSE e

\* Flash pages that the pages of n blocks from lba on complete (the loops
\* over __lpn_to_ppa): one writeback each.
Completed(lba, n) ==
    LET first == lba \div SecsPerPg
    IN  Cardinality({p \in first..(first + (n \div SecsPerPg) - 1) :
                        (p - Slba(ZoneOf(lba)) \div SecsPerPg) % Oneshot = Oneshot - 1})

\* An accepted write, the writebacks it queues and the buffer they go to.
Accept(d, n, b) == [dev |-> d, status |-> "SUCCESS", backs |-> n, to |-> b]
Refuse(d, s) == [dev |-> d, status |-> s, backs |-> 0, to |-> Ssd]

(* Faulty variant: the position of the write is not compared with the
   write pointer. *)
PlainWrite_Anywhere(d, w) ==
    LET z == ZoneOf(w.slba)
        s == d.zone[z].state
    IN  IF w.len % WriteUnit # 0 \/ ~OneZone(w) THEN Refuse(d, "INVALID_WRITE") ELSE
        CASE s = "EMPTY" ->
                 Accept(IncreaseWp(ChangeState(Acquire(Acquire(d, "ACTIVE"), "OPEN"), z, "OPENED_IMPL"), z, w.len),
                        Completed(w.slba, w.len), Ssd)
          [] s = "CLOSED" ->
                 Accept(IncreaseWp(ChangeState(Acquire(d, "OPEN"), z, "OPENED_IMPL"), z, w.len),
                        Completed(w.slba, w.len), Ssd)
          [] s \in Opened -> Accept(IncreaseWp(d, z, w.len), Completed(w.slba, w.len), Ssd)
          [] OTHER -> Refuse(d, "ERR_OFFLINE")

\* __zns_write.  Its last cases fall through: a full zone answers as an
\* offline one.
PlainWrite(d, w) ==
    LET z    == ZoneOf(w.slba)
        s    == d.zone[z].state
        n    == Completed(w.slba, w.len)
        impl(e) == IncreaseWp(ChangeState(e, z, "OPENED_IMPL"), z, w.len)
        error ==
            IF w.len % WriteUnit # 0 THEN "INVALID_WRITE"
            ELSE IF ~OneZone(w) THEN "ERR_BOUNDARY"
            ELSE IF w.slba # d.zone[z].wp \/ (s = "EMPTY" /\ w.slba # Slba(z)) THEN "INVALID_WRITE"
            ELSE IF s \notin Active \cup {"EMPTY"} THEN "ERR_OFFLINE"
            ELSE IF s = "EMPTY" /\ Exhausted(d, "ACTIVE") THEN "NO_ACTIVE_ZONE"
            ELSE IF s \in {"EMPTY", "CLOSED"} /\ Exhausted(d, "OPEN") THEN "NO_OPEN_ZONE"
            ELSE "NONE"
    IN  IF error # "NONE" THEN Refuse(d, error) ELSE
        CASE s = "EMPTY"   -> Accept(impl(Acquire(Acquire(d, "ACTIVE"), "OPEN")), n, Ssd)
          [] s = "CLOSED"  -> Accept(impl(Acquire(d, "OPEN")), n, Ssd)
          [] s \in Opened  -> Accept(IncreaseWp(d, z, w.len), n, Ssd)

\* Blocks a write commits implicitly: those beyond the random write area in
\* whole flush groups, or the rest of the zone when it reaches its end.
ImplicitFlush(d, w) ==
    LET z     == ZoneOf(w.slba)
        wp    == d.zone[z].wp
        elba  == w.slba + w.len - 1
        start == wp + LbasZrwa
    IN  IF elba >= start THEN ((elba - start + 1 + LbasZrwafg - 1) \div LbasZrwafg) * LbasZrwafg
        ELSE IF elba = Elba(z) THEN elba - wp + 1
        ELSE 0

\* The part of __zns_write_zrwa after the switch over the states.
ZrwaFlush(d, w) ==
    LET z == ZoneOf(w.slba)
        n == ImplicitFlush(d, w)
    IN  IF n <= 0 THEN Accept(d, 0, z)
        ELSE IF d.zbuf[z] < n THEN Refuse(d, "DEFERRED")
        ELSE Accept(IncreaseWp([d EXCEPT !.zbuf[z] = @ - n], z, n), Completed(d.zone[z].wp, n), z)

\* __zns_write_zrwa.  Reopening takes the area from the zone's buffer again
\* every time; a write that is deferred keeps the zone open.
ZrwaWrite(d, w) ==
    LET z  == ZoneOf(w.slba)
        s  == d.zone[z].state
        wp == d.zone[z].wp
        error ==
            IF w.len % WriteUnit # 0 THEN "INVALID_WRITE"
            ELSE IF ~OneZone(w) THEN "ERR_BOUNDARY"
            ELSE IF w.slba < wp \/ w.slba + w.len - 1 > wp + 2 * LbasZrwa - 1 THEN "INVALID_WRITE"
            ELSE IF s = "FULL" THEN "ERR_FULL"
            ELSE IF s = "READ_ONLY" THEN "ERR_READ_ONLY"
            ELSE IF s = "OFFLINE" THEN "ERR_OFFLINE"
            ELSE IF s \in {"CLOSED", "EMPTY"} /\ Exhausted(d, "OPEN") THEN "NO_OPEN_ZONE"
            ELSE IF s \in {"CLOSED", "EMPTY"} /\ d.zbuf[z] < LbasZrwa THEN "BUG"
            ELSE "NONE"
    IN  IF error # "NONE" THEN Refuse(d, error)
        ELSE IF s \in Opened THEN ZrwaFlush(d, w)
        ELSE ZrwaFlush([ChangeState(Acquire(d, "OPEN"), z, "OPENED_IMPL")
                          EXCEPT !.zbuf[z] = @ - LbasZrwa], w)

\* zns_write: the write buffer pays for the whole write before any check.
ZnsWrite(d, w) ==
    LET e == [d EXCEPT !.wbuf = @ - w.len]
    IN  IF d.wbuf < w.len THEN Refuse(d, "DEFERRED")
        ELSE IF d.zone[ZoneOf(w.slba)].zrwav THEN ZrwaWrite(e, w)
        ELSE PlainWrite(e, w)

-----------------------------------------------------------------------------
(* Commands of the host. *)

Outstanding == copies \cup {deferred[i] : i \in DOMAIN deferred}

\* No write outstanding over these blocks.
Quiet(blocks) == \A w \in Outstanding : Blocks(w) \cap blocks = {}

\* The blocks of w now hold data of this kind.
Fill(d, w, kind) == [d EXCEPT !.data = [l \in Lbas |-> IF l \in Blocks(w) THEN kind ELSE @[l]]]

\* What an answered or deferred write does beside the device.
Run(w, out) ==
    /\ dev' = IF out.status = "SUCCESS" THEN Fill(out.dev, w, "OLDER") ELSE out.dev
    /\ bug' = (out.status = "BUG")
    /\ backs' = [backs EXCEPT ![out.to] = @ + out.backs]
    /\ lost' = IF dev.wbuf < w.len \/ (out.status = "SUCCESS" /\ out.to = Ssd)
               THEN lost ELSE lost + w.len
    /\ copies' = IF out.status \in {"DEFERRED", "BUG"} THEN copies
                 ELSE copies \cup {[w EXCEPT !.ok = (out.status = "SUCCESS")]}
    /\ written' = IF out.status = "SUCCESS" THEN written \cup Blocks(w) ELSE written

\* nvme_cmd_write, seen by the dispatcher for the first time.
Write(slba, len) ==
    LET w   == [slba |-> slba, len |-> len, ok |-> FALSE]
        out == ZnsWrite(dev, w)
    IN  /\ ~bug /\ issued < MaxWrites
        /\ Blocks(w) \subseteq Lbas /\ Quiet(Blocks(w))
        /\ issued' = issued + 1
        /\ Run(w, out)
        /\ deferred' = IF out.status = "DEFERRED" THEN Append(deferred, w) ELSE deferred

\* nvmev_proc_io_dq: the oldest deferred write is run again.
Retry ==
    /\ ~bug /\ deferred # << >>
    /\ LET out == ZnsWrite(dev, Head(deferred))
       IN  /\ Run(Head(deferred), out)
           /\ deferred' = IF out.status = "DEFERRED" THEN deferred ELSE Tail(deferred)
    /\ UNCHANGED issued

\* History of a reset: the blocks of the zones ought to be zero again.
Wiped(zones) ==
    written' = {l \in written : ZoneOf(l) \notin zones}

\* zns_zmgmt_send on one zone.
MgmtSend(lba, a) ==
    LET out == Manage(dev, lba, a)
    IN  /\ ~bug /\ (a = "RESET" => Quiet(ZoneBlocks(ZoneOf(lba))))
        /\ dev' = out.dev
        /\ Wiped(IF a = "RESET" /\ out.status = "SUCCESS" THEN {ZoneOf(lba)} ELSE {})
        /\ UNCHANGED <<deferred, copies, backs, issued, bug, lost>>

\* The device after the action on zones 0 .. n - 1; the zones' statuses are dropped.
ManageUpTo(a) ==
    LET f[n \in 0..NZones] == IF n = 0 THEN dev ELSE Manage(f[n - 1], Slba(n - 1), a).dev
    IN  f[NZones]

\* zns_zmgmt_send with select_all.
MgmtSendAll(a) ==
    /\ ~bug /\ (a = "RESET" => Quiet(Lbas))
    /\ dev' = ManageUpTo(a)
    /\ Wiped(IF a = "RESET" THEN Zones ELSE {})
    /\ UNCHANGED <<deferred, copies, backs, issued, bug, lost>>

\* __do_perform_io by an I/O worker: the data arrives.
Copy(w) ==
    /\ ~bug /\ w \in copies
    /\ copies' = copies \ {w}
    /\ dev' = Fill(dev, w, IF w.ok THEN "LAST" ELSE "REFUSED")
    /\ UNCHANGED <<deferred, backs, issued, bug, lost, written>>

\* An I/O worker releases the buffer space of a flash page.
Writeback(b) ==
    /\ ~bug /\ backs[b] > 0
    /\ backs' = [backs EXCEPT ![b] = @ - 1]
    /\ dev' = IF b = Ssd THEN [dev EXCEPT !.wbuf = @ + WriteUnit]
                         ELSE [dev EXCEPT !.zbuf[b] = @ + WriteUnit]
    /\ UNCHANGED <<deferred, copies, issued, bug, lost, written>>

Next ==
    \/ \E lba \in Starts, n \in Lens : Write(lba, n)
    \/ Retry
    \/ \E z \in Zones, a \in ManageActions \ {"FLUSH"} : MgmtSend(Slba(z), a)
    \/ \E lba \in Lbas : MgmtSend(lba, "FLUSH")
    \/ \E a \in ManageActions : MgmtSendAll(a)
    \/ \E w \in copies : Copy(w)
    \/ \E b \in DOMAIN backs : Writeback(b)

Spec == Init /\ [][Next]_vars

-----------------------------------------------------------------------------
ZoneRecords == [state : ZoneStates, wp : 0..(NZones * ZoneSize), zrwav : BOOLEAN]
Devices == [zone : [Zones -> ZoneRecords], res : [Resources -> 0..NZones], wbuf : Nat,
            zbuf : [Zones -> Nat], data : [Lbas -> {"ZERO", "OLDER", "LAST", "REFUSED"}]]

TypeOK ==
    /\ dev \in Devices /\ dev.wbuf <= Initial
    /\ Outstanding \subseteq [slba : Starts, len : Lens, ok : BOOLEAN]
    /\ backs \in [Buffers -> Nat] /\ lost \in 0..Initial
    /\ issued \in 0..MaxWrites /\ bug \in BOOLEAN /\ written \subseteq Lbas

ZonesIn(states) == {z \in Zones : dev.zone[z].state \in states}

(* The resource counters never drift from the zones, over any sequence of  *)
(* writes and management commands: as many open resources are held as      *)
(* zones are open, as many active ones as zones are open or closed.  A     *)
(* random write area is held for every active zone that has one, and also, *)
(* for ever, for a zone that a write filled up (zns_read_write.c:47).      *)
ResourcesExact ==
    /\ dev.res["OPEN"] = Cardinality(ZonesIn(Opened))
    /\ dev.res["ACTIVE"] = Cardinality(ZonesIn(Active))
    /\ dev.res["ZRWA"] >= Cardinality({z \in ZonesIn(Active) : dev.zone[z].zrwav})

(* Every block of the write buffer is free, on its way back with a queued  *)
(* writeback, or was taken by a write that was refused or went through a   *)
(* random write area; whatever order writebacks and deferred writes run    *)
(* in, no other block disappears and none is returned twice.               *)
BufferAccounted == dev.wbuf + WriteUnit * backs[Ssd] + lost = Initial

(* The write pointer and the state of a zone agree: an empty zone starts   *)
(* at its first block and has no random write area, a pointer at the end   *)
(* means full, and a zone without a random write area is only ever written *)
(* in whole units.                                                         *)
PointerAgrees ==
    \A z \in Zones :
        LET zn == dev.zone[z]
        IN  /\ zn.wp \in Slba(z)..(Slba(z) + ZoneSize)
            /\ zn.state = "EMPTY" => zn.wp = Slba(z) /\ ~zn.zrwav
            /\ zn.wp = Slba(z) + ZoneSize => zn.state = "FULL"
            /\ ~zn.zrwav => (zn.wp - Slba(z)) % WriteUnit = 0

(* The storage holds what the accepted writes put there: a block with no   *)
(* write outstanding has the data of the last accepted write since the     *)
(* reset of its zone, or zero, unless the data of a refused write was      *)
(* copied over it (the copy does not ask for the status).                  *)
DataKept ==
    \A l \in Lbas :
        Quiet({l}) => dev.data[l] \in {IF l \in written THEN "LAST" ELSE "ZERO", "REFUSED"}

(* What the device counts and what it is counted for never drift apart.    *)
CountersExact == TypeOK /\ ResourcesExact /\ BufferAccounted

(* Pointer, state and data of every zone agree.                            *)
ZonesSound == PointerAgrees /\ DataKept

(* Only a reset takes a zone back: otherwise its write pointer does not    *)
(* move backwards, a full zone stays full, and what lies below the write   *)
(* pointer of a zone without a random write area is not accepted again.    *)
ZonesMoveOn ==
    [][\A z \in Zones :
          LET old == dev.zone[z]
              new == dev'.zone[z]
          IN  \/ new.state = "EMPTY" /\ new.wp = Slba(z) /\ \A l \in ZoneBlocks(z) : dev'.data[l] = "ZERO"
              \/ /\ new.wp >= old.wp
                 /\ old.state = "FULL" => new.state = "FULL"
                 /\ ~old.zrwav => \A l \in Slba(z)..(old.wp - 1) :
                                    dev'.data[l] = "OLDER" => dev.data[l] = "OLDER"]_vars

(* In every state the program can be in, a command that would be refused   *)
(* leaves zones and resources as they are, also the ones it acquires in    *)
(* several steps (active, open, random write area).                        *)
RefusalChangesNothing ==
    LET same(d) == d.zone = dev.zone /\ d.res = dev.res
    IN  /\ \A lba \in Lbas, a \in ManageActions :
               a = "FLUSH" \/ lba = Slba(ZoneOf(lba)) =>
               LET out == Manage(dev, lba, a)
               IN  out.status # "SUCCESS" => same(out.dev)
        /\ \A lba \in Starts, n \in Lens :
               LET out == ZnsWrite(dev, [slba |-> lba, len |-> n, ok |-> FALSE])
               IN  out.status \notin {"SUCCESS", "DEFERRED"} => same(out.dev)
=============================================================================
