----------------------------- MODULE NvmeAdmin ------------------------------
(***************************************************************************)
(* Registers, admin queue and I/O queue tables of the device (pci.c,       *)
(* admin.c, main.c).                                                       *)
(*                                                                         *)
(* The registers are plain memory.  The host writes them one after the     *)
(* other; nvmev_dispatcher compares them with what it saw before, handles  *)
(* at most one change per pass in a fixed order (aqa, asq, acq, cc) and    *)
(* then looks at the doorbells.  Every comparison, every admin command and *)
(* every store of the host is a step.                                      *)
(*                                                                         *)
(* The host (external) is a driver that configures the admin queue, sets   *)
(* up I/O queues, sends other admin commands beside that, and shuts the    *)
(* device down or resets it at any time.  Every boot gives the admin queue *)
(* fresh memory.                                                           *)
(***************************************************************************)
EXTENDS Integers, Sequences, FiniteSets, FiniteSetsExt, SequencesExt

CONSTANTS
    NULL,
    MAXQ,       \* NR_MAX_IO_QUEUE
    Setups,     \* pairs of module parameters and a host: [par, hp].  par: sizes
                \* memmap and slm, capacity of every namespace (0: all that is
                \* left), over-provisioning (pcent).  hp: the depths of admin queues they choose from (aqas), the
                \* numbers of I/O queues they ask for (wants), the commands they
                \* send beside the queue setup (cmds), and two bounds: the boots
                \* and the number of such commands per boot (others)
    Spaced      \* TRUE: see WriteReg

Hosts == {s.hp : s \in Setups}

ASSUME AdminAssumption ==
    /\ MAXQ \in Nat \ {0} /\ Spaced \in BOOLEAN
    /\ \A s \in Setups : /\ s.par.memmap > s.par.slm + 1 /\ s.par.pcent >= 100
                         /\ Len(s.par.caps) \in 1..2
    /\ \A h \in Hosts : /\ h.aqas \subseteq [sq : Nat \ {0, 1}, cq : Nat \ {0, 1}]
                        /\ h.wants \subseteq Nat \ {0} /\ {h.boots, h.others} \subseteq Nat

Queues == 1..MAXQ
Bases == 1..2
Aqas == UNION {h.aqas : h \in Hosts}
MaxDepth == Max({a.sq : a \in Aqas} \cup {a.cq : a \in Aqas})
Cids == 1..(MaxDepth - 1)

VARIABLES
    par, hp,    \* the module parameters and the host of this behaviour
    reg, old,   \* bar and old_bar: aqa, asq, acq, en, shn
    rdy, shst,  \* csts
    dbs, olddbs,
    aq,         \* vdev->admin_q
    sqm, cqm,   \* the host's memory of the admin queues, per base
    page,       \* the host's buffer of every command
    sqes, cqes, nrsq, nrcq,
    irq,        \* interrupts 0 raised and not taken: via MSI-X, via the pin
    msix,       \* pdev->msix_enabled
    d,          \* the dispatcher: pc, commands cur..end to handle, WriteReg's flag
    host        \* the driver

regs == <<reg, old, rdy, shst>>
ioq == <<sqes, cqes, nrsq, nrcq>>
vars == <<par, hp, regs, dbs, olddbs, aq, sqm, cqm, page, ioq, irq, msix, d, host>>

----------------------------------------------------------------------------
(* Loading the module *)

(* __validate_configs: sizes must be given.  That storage is left beside   *)
(* the SLM is not checked by the code and an assumption here.              *)
Validated(p) == p.memmap > 1 /\ p.slm > 0

(* __load_configs and NVMEV_NAMESPACE_INIT: one unit of registers, the     *)
(* SLM, the storage; each namespace takes its capacity (0: all) of what    *)
(* is left.  conv_init_namespace keeps the over-provisioned share back.    *)
StorageStart == 1 + par.slm
StorageSize == par.memmap - par.slm - 1
Share(cap, left) == IF cap = 0 THEN left ELSE Min({cap, left})
NrNs == Len(par.caps)
Left == [i \in 1..NrNs |->
            IF i = 1 THEN StorageSize ELSE StorageSize - Share(par.caps[1], StorageSize)]
NsAddr(i) == StorageStart + (StorageSize - Left[i])
NsSize(i) == (Share(par.caps[i], Left[i]) * 100) \div par.pcent

NoCqe == [cid |-> 0, status |-> "none", result |-> 0, phase |-> 0]
NoCmd == [op |-> "none", arg |-> 0, cid |-> 0]
HostOff == [pc |-> "off", boot |-> 0, base |-> 2, aqa |-> [sq |-> 0, cq |-> 0], tail |-> 0,
            head |-> 0, phase |-> 1, out |-> << >>, script |-> << >>, want |-> 0,
            sqs |-> {}, cqs |-> {}, rung |-> {}, others |-> 0, poll |-> FALSE, wrong |-> FALSE]

ClearedRegs == [aqa |-> NULL, asq |-> NULL, acq |-> NULL, en |-> 0, shn |-> 0]

(* VDEV_INIT, NVMEV_PCI_INIT *)
Init ==
    /\ \E s \in Setups : Validated(s.par) /\ par = s.par /\ hp = s.hp
    /\ reg = ClearedRegs /\ old = ClearedRegs
    /\ rdy = FALSE /\ shst = 0
    /\ dbs = [i \in 0..(2 * MAXQ + 1) |-> 0] /\ olddbs = dbs
    /\ aq = NULL
    /\ sqm = [b \in Bases |-> [i \in 0..(MaxDepth - 1) |-> NoCmd]]
    /\ cqm = [b \in Bases |-> [i \in 0..(MaxDepth - 1) |-> NoCqe]]
    /\ page = [c \in Cids |-> << >>]
    /\ sqes = [q \in Queues |-> NULL] /\ cqes = [q \in Queues |-> NULL]
    /\ nrsq = 0 /\ nrcq = 0
    /\ irq = [msix |-> FALSE, pin |-> FALSE] /\ msix = FALSE
    /\ d = [pc |-> "aqa", cur |-> 0, end |-> 0, acq |-> FALSE]
    /\ host = HostOff

----------------------------------------------------------------------------
(* nvmev_proc_bars *)

Goto(pc) == d' = [d EXCEPT !.pc = pc]
Zeroed(f, S) == [i \in DOMAIN f |-> IF i \in S THEN 0 ELSE f[i]]
ResetDbs(S) == dbs' = Zeroed(dbs, S) /\ olddbs' = Zeroed(olddbs, S)

(* A change ends the pass over the registers, "retrying" included. *)
CheckAqa ==
    /\ d.pc = "aqa"
    /\ d' = [d EXCEPT !.pc = IF reg.aqa # old.aqa THEN "sq" ELSE "asq", !.acq = FALSE]
    /\ IF reg.aqa = old.aqa THEN UNCHANGED <<old, aq, dbs, olddbs>>
       ELSE /\ old' = [old EXCEPT !.aqa = reg.aqa]
            /\ aq' = [head |-> 0, phase |-> 1, sqDepth |-> reg.aqa.sq, cqDepth |-> reg.aqa.cq,
                      sq |-> IF aq = NULL THEN NULL ELSE aq.sq,
                      cq |-> IF aq = NULL THEN NULL ELSE aq.cq]
            /\ ResetDbs({0, 1})
    /\ UNCHANGED <<par, hp, reg, rdy, shst, sqm, cqm, page, ioq, irq, msix, host>>

(* Faulty variant: the doorbell of the previous queue stays. *)
CheckAsq_KeepsDoorbell ==
    /\ d.pc = "asq"
    /\ Goto(IF reg.asq # old.asq THEN "sq" ELSE "acq")
    /\ IF reg.asq = old.asq \/ aq = NULL THEN UNCHANGED <<old, aq>>
       ELSE /\ old' = [old EXCEPT !.asq = reg.asq]
            /\ aq' = [aq EXCEPT !.sq = reg.asq, !.sqDepth = reg.aqa.sq]
    /\ UNCHANGED <<par, hp, reg, rdy, shst, dbs, olddbs, sqm, cqm, page, ioq, irq, msix, host>>

CheckAsq ==
    /\ d.pc = "asq"
    /\ Goto(IF reg.asq # old.asq THEN "sq" ELSE "acq")
    /\ IF reg.asq = old.asq \/ aq = NULL THEN UNCHANGED <<old, aq, dbs, olddbs>>
       ELSE /\ old' = [old EXCEPT !.asq = reg.asq]
            /\ aq' = [aq EXCEPT !.sq = reg.asq, !.sqDepth = reg.aqa.sq]
            /\ ResetDbs({0})
    /\ UNCHANGED <<par, hp, reg, rdy, shst, sqm, cqm, page, ioq, irq, msix, host>>

CheckAcq ==
    /\ d.pc = "acq"
    /\ Goto(IF reg.acq # old.acq THEN "sq" ELSE "cc")
    /\ IF reg.acq = old.acq \/ aq = NULL THEN UNCHANGED <<old, aq, dbs, olddbs>>
       ELSE /\ old' = [old EXCEPT !.acq = reg.acq]
            /\ aq' = [aq EXCEPT !.cq = reg.acq, !.cqDepth = reg.aqa.cq, !.head = 0, !.phase = 1]
            /\ ResetDbs({1})
    /\ UNCHANGED <<par, hp, reg, rdy, shst, sqm, cqm, page, ioq, irq, msix, host>>

(* Enable without an admin queue only warns; a shutdown resets the         *)
(* doorbells and the head, not the phase.                                  *)
CheckCc ==
    LET changed == reg.en # old.en \/ reg.shn # old.shn IN
    /\ d.pc = "cc"
    /\ Goto("sq")
    /\ old' = [old EXCEPT !.en = reg.en, !.shn = reg.shn]
    /\ rdy' = IF changed THEN IF reg.en = 1 THEN rdy \/ aq # NULL ELSE FALSE ELSE rdy
    /\ IF changed /\ reg.shn = 1
       THEN /\ shst' = 2
            /\ aq' = [aq EXCEPT !.head = 0]
            /\ ResetDbs({0, 1})
       ELSE UNCHANGED <<shst, aq, dbs, olddbs>>
    /\ UNCHANGED <<par, hp, reg, sqm, cqm, page, ioq, irq, msix, host>>

----------------------------------------------------------------------------
(* Admin commands: status, result0 and what lands in the host's buffer *)

Done(status, result) == [status |-> status, result |-> result]
Success == Done("success", 0)

CreateCq(c) ==
    /\ cqes' = [cqes EXCEPT ![c.arg] = [qid |-> c.arg]]
    /\ ResetDbs({c.arg * 2 + 1})
    /\ UNCHANGED <<sqes, nrsq, nrcq>>

DeleteCq(c) ==
    /\ cqes' = [cqes EXCEPT ![c.arg] = NULL]
    /\ UNCHANGED <<sqes, nrsq, nrcq, dbs, olddbs>>

(* Faulty variant: the doorbell of an earlier queue of this id stays. *)
CreateSq_KeepsDoorbell(c) ==
    /\ sqes' = [sqes EXCEPT ![c.arg] = [qid |-> c.arg, cqid |-> c.arg]]
    /\ UNCHANGED <<cqes, nrsq, nrcq, dbs, olddbs>>

CreateSq(c) ==
    /\ sqes' = [sqes EXCEPT ![c.arg] = [qid |-> c.arg, cqid |-> c.arg]]
    /\ ResetDbs({c.arg * 2})
    /\ UNCHANGED <<cqes, nrsq, nrcq>>

DeleteSq(c) ==
    /\ sqes' = [sqes EXCEPT ![c.arg] = NULL]
    /\ UNCHANGED <<cqes, nrsq, nrcq, dbs, olddbs>>

Granted(want) == Min({want, MAXQ})

SetFeatures(c) ==
    /\ nrsq' = Granted(c.arg) /\ nrcq' = Granted(c.arg)
    /\ UNCHANGED <<sqes, cqes, dbs, olddbs>>

Reads == UNCHANGED <<ioq, dbs, olddbs>>

(* __nvmev_admin_identify: cns 0 to 6.  A namespace list holds the ids     *)
(* above the one named; ZNS pages are left alone on another type.          *)
IdentifyPage(c) ==
    CASE c.op = "id_ns"   -> <<NsSize(c.arg)>>
      [] c.op = "id_list" -> SelectSeq([i \in 1..NrNs |-> i], LAMBDA i : i > c.arg)
      [] c.op = "id_ctrl" -> <<NrNs>>
      [] OTHER            -> << >>

IdentifyOps == {"id_ns", "id_list", "id_ctrl", "id_zns"}
PlainOps == IdentifyOps \cup {"get_log_page", "get_features", "async_event"}

(* __nvmev_proc_admin_req: an abort gets no completion. *)
Status(c) ==
    CASE c.op = "set_num"                          -> Done("success", Granted(c.arg))
      [] c.op = "get_features"                     -> Done("success", nrsq)
      [] c.op \in {"create_cq", "delete_cq", "delete_sq"} -> Success
      [] c.op \in PlainOps \ {"get_features"}      -> Success
      [] OTHER                                     -> Done("invalid_opcode", 0)

Effect(c) ==
    CASE c.op = "create_cq" -> CreateCq(c)
      [] c.op = "delete_cq" -> DeleteCq(c)
      [] c.op = "create_sq" -> CreateSq(c)
      [] c.op = "delete_sq" -> DeleteSq(c)
      [] c.op = "set_num"   -> SetFeatures(c)
      [] OTHER              -> Reads

(* Faulty variant: the phase does not change when the queue wraps. *)
MakeCqEntry_NoFlip(c, s) ==
    /\ cqm' = [cqm EXCEPT ![aq.cq][aq.head] =
                  [cid |-> c.cid, status |-> s.status, result |-> s.result, phase |-> aq.phase]]
    /\ aq' = [aq EXCEPT !.head = (@ + 1) % aq.cqDepth]

(* __make_cq_entry_results *)
MakeCqEntry(c, s) ==
    LET wraps == aq.head + 1 = aq.cqDepth IN
    /\ cqm' = [cqm EXCEPT ![aq.cq][aq.head] =
                  [cid |-> c.cid, status |-> s.status, result |-> s.result, phase |-> aq.phase]]
    /\ aq' = [aq EXCEPT !.head = IF wraps THEN 0 ELSE @ + 1,
                        !.phase = IF wraps THEN 1 - @ ELSE @]

----------------------------------------------------------------------------
(* nvmev_proc_dbs *)

(* The I/O queues' doorbells; what their queues hold is IoWorkers' matter. *)
Served(i) == i = 1 \/ \E q \in 1..nrsq : i = 2 * q /\ sqes[q] # NULL
ServeOthers(o) == olddbs' = [i \in DOMAIN o |-> IF Served(i) THEN dbs[i] ELSE o[i]]

FetchDoorbell ==
    /\ d.pc = "sq"
    /\ IF dbs[0] = olddbs[0] THEN Goto("aqa") /\ ServeOthers(olddbs)
       ELSE /\ d' = [d EXCEPT !.pc = "cmd", !.cur = olddbs[0], !.end = dbs[0]]
            /\ UNCHANGED olddbs
    /\ UNCHANGED <<par, hp, regs, dbs, aq, sqm, cqm, page, ioq, irq, msix, host>>

Command == sqm[aq.sq][d.cur]
NextCur == d' = [d EXCEPT !.cur = IF @ + 1 = aq.sqDepth THEN 0 ELSE @ + 1,
                          !.pc = IF (d.cur + 1) % aq.sqDepth = d.end THEN "irq" ELSE @]

(* One command of nvmev_proc_admin_sq. *)
ProcAdminReq ==
    /\ d.pc = "cmd" /\ Command.op \notin {"abort", "create_sq"}
    /\ Effect(Command)
    /\ page' = IF Command.op \in IdentifyOps
               THEN [page EXCEPT ![Command.cid] = IdentifyPage(Command)] ELSE page
    /\ MakeCqEntry(Command, Status(Command))
    /\ NextCur
    /\ UNCHANGED <<par, hp, regs, sqm, irq, msix, host>>

(* nvmev_init_dq may fail, and the queue is given up. *)
ProcCreateSq ==
    /\ d.pc = "cmd" /\ Command.op = "create_sq"
    /\ \/ CreateSq(Command) /\ MakeCqEntry(Command, Success)
       \/ UNCHANGED <<ioq, dbs, olddbs>> /\ MakeCqEntry(Command, Done("internal", 0))
    /\ NextCur
    /\ UNCHANGED <<par, hp, regs, sqm, page, irq, msix, host>>

ProcAbort ==
    /\ d.pc = "cmd" /\ Command.op = "abort"
    /\ NextCur
    /\ UNCHANGED <<par, hp, regs, dbs, olddbs, aq, sqm, cqm, page, ioq, irq, msix, host>>

(* nvmev_signal_irq(0) after the last command of the batch. *)
SignalIrq ==
    /\ d.pc = "irq"
    /\ irq' = IF msix THEN [irq EXCEPT !.msix = TRUE] ELSE [irq EXCEPT !.pin = TRUE]
    /\ ServeOthers([olddbs EXCEPT ![0] = d.end])
    /\ Goto("aqa")
    /\ UNCHANGED <<par, hp, regs, dbs, aq, sqm, cqm, page, ioq, msix, host>>

Dispatcher ==
    \/ CheckAqa \/ CheckAsq \/ CheckAcq \/ CheckCc
    \/ FetchDoorbell \/ ProcAdminReq \/ ProcCreateSq \/ ProcAbort \/ SignalIrq

----------------------------------------------------------------------------
(* The host (external): nvme_pci_configure_admin_queue and what follows *)

device == <<par, hp, old, rdy, shst, olddbs, aq, ioq>>

(* A register write.  Spaced: acq and cc are not written while the device  *)
(* goes through the comparisons of one pass.  It takes a few loads; a      *)
(* driver reads other registers between the two writes.                    *)
Comparing == d.pc \in {"asq", "acq", "cc"}
WriteReg(r) ==
    /\ Spaced /\ Comparing /\ d.acq => r.en = reg.en
    /\ reg' = r /\ d' = [d EXCEPT !.acq = @ \/ (Comparing /\ r.acq # reg.acq)]
HostAt(pc) == host' = [host EXCEPT !.pc = pc]

(* nvmev_pci_write: of the bits a host may change in config space, MSI-X   *)
(* Enable is the one that matters here.                                    *)
PciWriteMsixFlags(enable) == msix' = enable

(* Interrupts through MSI-X, enabled before the first boot. *)
HostEnablesMsix ==
    /\ host.pc = "off" /\ ~msix
    /\ PciWriteMsixFlags(TRUE)
    /\ UNCHANGED <<device, reg, dbs, sqm, cqm, page, irq, d, host>>

HostDisables ==
    /\ host.pc = "off" /\ msix /\ host.boot < hp.boots
    /\ WriteReg([reg EXCEPT !.en = 0, !.shn = 0])
    /\ HostAt("waitOff")
    /\ UNCHANGED <<device, dbs, sqm, cqm, page, irq, msix>>

(* rdy = 0: a new admin queue, its completion queue zeroed. *)
HostConfigures ==
    /\ host.pc = "waitOff" /\ ~rdy
    /\ \E a \in hp.aqas, n \in hp.wants :
          host' = [HostOff EXCEPT !.pc = "aqa", !.boot = host.boot + 1, !.base = 3 - host.base,
                                  !.aqa = a, !.want = n, !.wrong = host.wrong]
    /\ cqm' = [cqm EXCEPT ![3 - host.base] = [i \in DOMAIN @ |-> NoCqe]]
    /\ irq' = [irq EXCEPT !.msix = FALSE]
    /\ UNCHANGED <<device, reg, dbs, sqm, page, msix, d>>

HostWritesReg ==
    /\ \/ host.pc = "aqa" /\ WriteReg([reg EXCEPT !.aqa = host.aqa]) /\ HostAt("asq")
       \/ host.pc = "asq" /\ WriteReg([reg EXCEPT !.asq = host.base]) /\ HostAt("acq")
       \/ host.pc = "acq" /\ WriteReg([reg EXCEPT !.acq = host.base]) /\ HostAt("cc")
       \/ host.pc = "cc" /\ WriteReg([reg EXCEPT !.en = 1]) /\ HostAt("waitRdy")
    /\ UNCHANGED <<device, dbs, sqm, cqm, page, irq, msix>>

Cmd(op, arg) == [op |-> op, arg |-> arg]

(* The queues of the boot before are nobody's any more. *)
HostSeesReady ==
    /\ host.pc = "waitRdy" /\ rdy
    /\ host' = [host EXCEPT !.pc = "live", !.script = <<Cmd("set_num", host.want)>>]
    /\ sqm' = [sqm EXCEPT ![3 - host.base] = [i \in DOMAIN @ |-> NoCmd]]
    /\ cqm' = [cqm EXCEPT ![3 - host.base] = [i \in DOMAIN @ |-> NoCqe]]
    /\ page' = [k \in Cids |-> << >>]
    /\ UNCHANGED <<device, reg, dbs, irq, msix, d>>

(* A command under the smallest free id, then the tail doorbell. *)
Room == Cardinality(DOMAIN host.out) < Min({host.aqa.sq, host.aqa.cq}) - 1
Send(c, h) ==
    LET cid == Min(Cids \ DOMAIN host.out)
        tail == (host.tail + 1) % host.aqa.sq
    IN  /\ Room
        /\ sqm' = [sqm EXCEPT ![host.base][host.tail] = [op |-> c.op, arg |-> c.arg, cid |-> cid]]
        /\ dbs' = [dbs EXCEPT ![0] = tail]
        /\ host' = [h EXCEPT !.tail = tail,
                             !.out = [k \in DOMAIN @ \cup {cid} |-> IF k = cid THEN c ELSE @[k]]]
        /\ UNCHANGED <<device, reg, cqm, page, irq, msix, d>>

(* The setup commands, one after the other. *)
ScriptOps == {"set_num", "create_cq", "create_sq", "delete_sq", "delete_cq"}
Waiting == \E k \in DOMAIN host.out : host.out[k].op \in ScriptOps

HostSendsScript ==
    /\ host.pc \in {"live", "stopping"} /\ host.script # << >> /\ ~Waiting
    /\ Send(Head(host.script), [host EXCEPT !.script = Tail(@)])

HostSendsOther ==
    /\ host.pc = "live" /\ host.others < hp.others
    /\ \E c \in hp.cmds : Send(c, [host EXCEPT !.others = @ + 1])

(* A new I/O queue is used. *)
HostRings ==
    /\ host.pc = "live"
    /\ \E q \in host.sqs \ host.rung :
          /\ dbs' = [dbs EXCEPT ![2 * q] = 1]
          /\ host' = [host EXCEPT !.rung = @ \cup {q}]
    /\ UNCHANGED <<device, reg, sqm, cqm, page, irq, msix, d>>

HostTakesIrq ==
    /\ irq.msix
    /\ irq' = [irq EXCEPT !.msix = FALSE]
    /\ host' = [host EXCEPT !.poll = TRUE]
    /\ UNCHANGED <<device, reg, dbs, sqm, cqm, page, msix, d>>

(* What a driver expects of the answer to c. *)
Expected(c, e) ==
    CASE c.op = "set_num"      -> e.status = "success" /\ e.result \in 1..Min({c.arg, MAXQ})
      [] c.op = "id_list"      -> /\ e.status = "success"
                                  /\ ToSet(page[e.cid]) = (c.arg + 1)..NrNs
      [] c.op = "id_ns"        -> /\ e.status = "success"
                                  /\ page[e.cid][1] \in 1..(par.memmap - 1 - par.slm)
      [] c.op = "id_ctrl"      -> e.status = "success" /\ page[e.cid] = <<NrNs>>
      [] c.op = "create_sq"    -> e.status \in {"success", "internal"}
      [] c.op = "unknown"      -> e.status = "invalid_opcode"
      [] OTHER                 -> e.status = "success"

(* What follows the answer to a setup command. *)
Followup(c, e) ==
    CASE c.op = "set_num"   -> <<Cmd("create_cq", 1)>>
      [] c.op = "create_cq" -> <<Cmd("create_sq", c.arg)>>
      [] c.op = "create_sq" /\ e.status = "success" /\ c.arg < nrsq -> <<Cmd("create_cq", c.arg + 1)>>
      [] OTHER              -> host.script

Entry == cqm[host.base][host.head]
Pending == host.pc \in {"live", "stopping"} /\ Entry.phase = host.phase

(* nvme_poll_cq: the next entry of this phase, then the head doorbell.     *)
(* Nobody looks at the rest of the entry or at the buffer again.           *)
HostAccepts ==
    LET known == Entry.cid \in DOMAIN host.out
        c     == IF known THEN host.out[Entry.cid] ELSE Cmd("none", 0)
        ok    == Entry.status = "success"
        head  == (host.head + 1) % host.aqa.cq
    IN  /\ host.poll /\ Pending
        /\ host' = [host EXCEPT
                      !.head = head, !.phase = IF head = 0 THEN 1 - @ ELSE @,
                      !.out = [k \in DOMAIN @ \ {Entry.cid} |-> @[k]],
                      !.script = IF host.pc = "live" THEN Followup(c, Entry) ELSE @,
                      !.cqs = IF c.op = "create_cq" THEN @ \cup {c.arg}
                              ELSE IF c.op = "delete_cq" THEN @ \ {c.arg} ELSE @,
                      !.sqs = IF c.op = "create_sq" /\ ok THEN @ \cup {c.arg}
                              ELSE IF c.op = "delete_sq" THEN @ \ {c.arg} ELSE @,
                      !.wrong = @ \/ ~known \/ ~Expected(c, Entry)]
        /\ dbs' = [dbs EXCEPT ![1] = head]
        /\ cqm' = [cqm EXCEPT ![host.base][host.head] = [NoCqe EXCEPT !.phase = Entry.phase]]
        /\ page' = [k \in Cids |-> IF k = Entry.cid THEN << >> ELSE page[k]]
        /\ UNCHANGED <<device, reg, sqm, irq, msix, d>>

HostEndsPoll ==
    /\ host.poll /\ ~Pending
    /\ host' = [host EXCEPT !.poll = FALSE]
    /\ UNCHANGED <<device, reg, dbs, sqm, cqm, page, irq, msix, d>>

(* An orderly stop: delete the submission queues, then the completion      *)
(* queues, then shut down and wait.                                        *)
HostStops ==
    /\ host.pc = "live" /\ ~Waiting /\ \A k \in DOMAIN host.out : host.out[k].op = "abort"
    /\ LET order(S) == SetToSortSeq(S, LAMBDA a, b : a < b)
           del(op, S) == [i \in DOMAIN order(S) |-> Cmd(op, order(S)[i])]
       IN  host' = [host EXCEPT !.pc = "stopping", !.rung = {},
                       !.script = del("delete_sq", host.sqs) \o del("delete_cq", host.cqs)]
    /\ UNCHANGED <<device, reg, dbs, sqm, cqm, page, irq, msix, d>>

HostShutsDown ==
    /\ host.pc = "stopping" /\ host.script = << >> /\ ~Waiting
    /\ WriteReg([reg EXCEPT !.shn = 1])
    /\ HostAt("waitShst")
    /\ UNCHANGED <<device, dbs, sqm, cqm, page, irq, msix>>

HostIsOff ==
    /\ host.pc = "waitShst" /\ shst = 2
    /\ host' = [host EXCEPT !.pc = "off", !.out = << >>, !.sqs = {}, !.cqs = {}, !.poll = FALSE]
    /\ UNCHANGED <<device, reg, dbs, sqm, cqm, page, irq, msix, d>>

(* A controller reset: commands are given up and the queues with them. *)
HostResets ==
    /\ host.pc \in {"live", "stopping"} /\ host.boot < hp.boots
    /\ host' = [host EXCEPT !.pc = "off", !.out = << >>, !.script = << >>, !.sqs = {}, !.cqs = {},
                            !.rung = {}, !.poll = FALSE]
    /\ UNCHANGED <<device, reg, dbs, sqm, cqm, page, irq, msix, d>>

HostProceeds ==
    \/ HostEnablesMsix \/ HostConfigures \/ HostWritesReg \/ HostSeesReady \/ HostSendsScript
    \/ HostTakesIrq \/ HostAccepts \/ HostEndsPoll

Host ==
    \/ HostProceeds \/ HostDisables \/ HostSendsOther \/ HostRings
    \/ HostStops \/ HostShutsDown \/ HostIsOff \/ HostResets

Next == Dispatcher \/ Host

Spec == Init /\ [][Next]_vars /\ WF_vars(Dispatcher) /\ WF_vars(HostProceeds)

----------------------------------------------------------------------------
(* Every completion the host takes from the admin queue answers a command  *)
(* it has sent in this boot and not yet seen answered, with the result it  *)
(* must have: never an entry of an earlier boot, an earlier round of the   *)
(* queue or a stale doorbell.                                              *)
AnsweredRight == ~host.wrong

(* While the host uses the device no register change is left to be seen    *)
(* (handling it would reset the doorbells under the host), the admin queue *)
(* is the one the host set up, and the two agree on the entries still      *)
(* unread: head and phase are ahead of the host by no more than the        *)
(* commands in flight.                                                     *)
EnabledMeansConfigured ==
    host.pc \in {"live", "stopping"} =>
        /\ rdy /\ reg.aqa = old.aqa /\ reg.asq = old.asq /\ reg.acq = old.acq
        /\ aq.sq = host.base /\ aq.cq = host.base
        /\ aq.sqDepth = host.aqa.sq /\ aq.cqDepth = host.aqa.cq
        /\ dbs[0] = host.tail
        /\ LET ahead == (aq.head - host.head) % host.aqa.cq
           IN  /\ ahead <= Cardinality(DOMAIN host.out)
               /\ (aq.phase = host.phase) <=> (aq.head >= host.head)

(* The I/O queues the host has been told of are in the device's tables,    *)
(* within the range nvmev_proc_dbs walks, each on its completion queue,    *)
(* and their doorbells hold what the host has rung since the creation.     *)
QueuesAgree ==
    /\ host.sqs \subseteq host.cqs \cup {q \in host.sqs : host.pc = "stopping"}
    /\ \A q \in host.sqs :
          /\ sqes[q] # NULL \/ \E k \in DOMAIN host.out : host.out[k] = Cmd("delete_sq", q)
          /\ host.pc = "live" => /\ q <= nrsq /\ sqes[q].cqid \in host.cqs
                                 /\ dbs[2 * q] = (IF q \in host.rung THEN 1 ELSE 0)
    /\ \A q \in host.cqs :
          /\ cqes[q] # NULL \/ \E k \in DOMAIN host.out : host.out[k] = Cmd("delete_cq", q)
          /\ host.pc = "live" => q <= nrcq

(* Namespaces, SLM and registers share the reserved memory without         *)
(* overlapping.                                                            *)
NamespacesApart ==
    \A i \in 1..NrNs :
        /\ NsAddr(i) >= 1 + par.slm /\ NsAddr(i) + NsSize(i) <= par.memmap
        /\ \A j \in 1..(i - 1) : NsAddr(j) + NsSize(j) <= NsAddr(i)

(* What host and device keep twice agrees: the configuration, the queues,  *)
(* the layout of the reserved memory.                                      *)
BothSidesAgree == EnabledMeansConfigured /\ QueuesAgree /\ NamespacesApart

(* A device that is enabled becomes ready, and every admin command but an  *)
(* abort is answered (a host sends a bounded number of them).              *)
Unanswered ==
    \/ host.pc = "waitRdy"
    \/ \E k \in DOMAIN host.out : host.out[k].op # "abort"
AdminAnswered == []<>~Unanswered
=============================================================================
