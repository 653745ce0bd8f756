------------------------------ MODULE CsdTasks ------------------------------
(***************************************************************************)
(* The task table of the CSD (csd_dispatcher.c).  A command becomes one or *)
(* more tasks from a fixed pool: loads, which the helper thread serves     *)
(* with internal reads, and programs, which the compute cores run.         *)
(*                                                                         *)
(*   csd dispatcher  turns commands into tasks, answers most of them at    *)
(*                   once, moves finished tasks to done_list, frees their  *)
(*                   SLM and returns them to the pool                      *)
(*   helper          __request_io, __reclaim_io_req on the copy list       *)
(*   compute cores   compute_work: each walks its own comp_list            *)
(*   host            sends commands, deletes the ranges it owns (external) *)
(*                                                                         *)
(* Only the dispatcher links tasks, so a list is a sequence here and       *)
(* task->next is the successor in the sequence that holds the task.  The   *)
(* other threads change task_step and follow next without a lock.  Loads   *)
(* count requests instead of bytes; what a program waits for is whether    *)
(* its input is loaded (SlmLoad, SlmDemand) and its output drained         *)
(* (CrcStage, HostReadout).                                                *)
(***************************************************************************)
EXTENDS Integers, Sequences, FiniteSets, FiniteSetsExt, SequencesExt

CONSTANTS
    NTasks,      \* MAX_TASK_COUNT
    NCpu,        \* num_cpu_resources
    SlmRanges,   \* ranges alloc_slm_range can grant at a time
    MaxDeferred, \* MAX_DEFERRED_SLM_FREES
    MaxDemand,   \* bound on the demands of one lookup
    Scripts,     \* the sequences of commands a host may send
    Prompt       \* TRUE: no thread stalls in the windows named at Stalled

ASSUME TasksAssumption ==
    /\ {NTasks, NCpu, SlmRanges, MaxDeferred} \subseteq Nat \ {0}
    /\ MaxDemand \in Nat /\ Prompt \in BOOLEAN

Tasks == 0..(NTasks - 1)
Cores == 0..(NCpu - 1)
CopyList == NCpu          \* copy_to_slm_list_id
NONE == -1                \* TASK_ID_NONE, and the end of a list

(* TASK_POOL_INDEX, and the id allocate_new_task makes of a counter value *)
PoolIndex(gen) == gen % NTasks
GenId(n, pool) == n * NTasks + pool

ComputePrograms == {"compact", "crc1", "crc2", "read", "exec", "compress"}
Programs == ComputePrograms \cup {"load", "none"}

VARIABLES
    script,   \* the commands of this behaviour, never changed
    sent,     \* how many of them the host has sent
    queue,    \* io_seq: commands sent and not yet dispatched
    answers,  \* per command: completions posted for it
    given,    \* per command: ranges the host learnt of and must delete
    task,     \* task_table.task
    free, done, comp,  \* free_list, done_list, comp_list[0..NCpu]
    turn,     \* compute_turn
    nextGen,  \* next_generation
    slm,      \* allocated ranges |-> ids of the load tasks of their regions
    waiting,  \* deferred_slm_frees: records [buf, loads]
    reqs,     \* internal reads in flight: task id |-> how many
    worker,   \* per core: task it stands on and what it is doing there
    disp,     \* where the dispatcher is in its pass
    loaded,   \* history: ranges whose load has published all its data
    final,    \* history: <<command, program>> whose output is complete
    runs,     \* history: times a program was started, per <<command, program>>
    bug       \* the BUG() that stopped the module, or "none"

(* See the state of each thread at the actions. *)
TypeOK ==
    /\ script \in Scripts /\ sent \in 0..Len(script)
    /\ queue \in Seq(1..sent) /\ answers \in [DOMAIN script -> 0..1]
    /\ \A t \in Tasks :
          /\ task[t].step \in {"FREE", "SCHEDULE", "WAIT", "END"}
          /\ task[t].prog \in Programs /\ task[t].quota \in 0..1
          /\ task[t].done \in 0..task[t].requested /\ task[t].requested \in 0..task[t].total
          /\ task[t].ios \in 0..(task[t].total + 1)
          /\ task[t].gen # NONE => PoolIndex(task[t].gen) = t
    /\ turn \in Cores /\ Cardinality(DOMAIN slm) <= SlmRanges
    /\ Cardinality(waiting) <= MaxDeferred
    /\ worker \in [Cores -> [at : Tasks \cup {NONE}, pc : {"look", "running", "end", "next"},
                             demands : 0..MaxDemand]]
    /\ disp \in [pc : {"scan", "defer", "reclaim", "reclaimAll", "done", "deferEnd"},
                 list : 0..NCpu, count : 0..NCpu]

env == <<script, sent, given>>
lists == <<free, done, comp, turn>>
history == <<loaded, final, runs>>
vars == <<script, sent, queue, answers, given, task, free, done, comp, turn, nextGen,
          slm, waiting, reqs, worker, disp, loaded, final, runs, bug>>

FreeTask == [step |-> "FREE", gen |-> NONE, prog |-> "none", cmd |-> 0, buf |-> <<0, "none">>,
             total |-> 0, requested |-> 0, done |-> 0, ios |-> 0, quota |-> 0,
             first |-> FALSE, demand |-> "no", info |-> FALSE, frees |-> {}, loads |-> {}]

Live == bug = "none"
GenValid(gen) == gen # NONE /\ task[PoolIndex(gen)].gen = gen

(* NVMEV_CSD_PROC_INIT *)
Init ==
    /\ script \in Scripts /\ sent = 0 /\ queue = << >>
    /\ answers = [i \in DOMAIN script |-> 0] /\ given = [i \in DOMAIN script |-> {}]
    /\ task = [t \in Tasks |-> FreeTask]
    /\ free = [i \in 1..NTasks |-> i - 1] /\ done = << >>
    /\ comp = [c \in 0..NCpu |-> << >>] /\ turn = 0 /\ nextGen = 1
    /\ slm = << >> /\ waiting = {} /\ reqs = << >>
    /\ worker = [c \in Cores |-> [at |-> NONE, pc |-> "look", demands |-> 0]]
    /\ disp = [pc |-> "scan", list |-> 0, count |-> 0]
    /\ loaded = {} /\ final = {} /\ runs = << >> /\ bug = "none"

----------------------------------------------------------------------------
(* Host (external) *)

Cmd(i) == script[i]

(* The host waits for the ranges of its creates before it uses them, and   *)
(* deletes a range when the programs that use it have produced all their   *)
(* output.  It gives up on ranges it was not given.                        *)
Needs(i) == IF Cmd(i).op = "delete" THEN {Cmd(i).range}
            ELSE IF Cmd(i).op \in {"copy", "exec", "compress"}
            THEN {<<j, "buf">> : j \in Cmd(i).uses} ELSE {}

Ready(i) == /\ \A r \in Needs(i) : answers[r[1]] > 0
            /\ Cmd(i).op = "delete" => Cmd(i).after \subseteq final
Pointless(i) == \E r \in Needs(i) : answers[r[1]] > 0 /\ r \notin given[r[1]]

Send ==
    /\ Live /\ sent < Len(script) /\ sent' = sent + 1
    /\ \/ ~Pointless(sent') /\ Ready(sent') /\ queue' = Append(queue, sent')
       \/ Pointless(sent') /\ UNCHANGED queue
    /\ UNCHANGED <<script, answers, given, task, lists, nextGen, slm, waiting, reqs, worker,
                   disp, history, bug>>

----------------------------------------------------------------------------
(* Dispatcher: commands *)

At(pc) == disp' = [disp EXCEPT !.pc = pc]

(* allocate_new_task takes the head of free_list; a worker that still      *)
(* stands there would see the new task appear under its feet.              *)
Stalled(n) == \E i \in 1..n, c \in Cores : worker[c].at = free[i]

Available(n) == n <= Len(free)
Gen(i) == GenId(nextGen + i - 1, free[i])

(* What a command allocates one task each for, in the order of allocation. *)
Item(prog, buf) == [prog |-> prog, buf |-> buf, total |-> 1, first |-> FALSE, frees |-> {}]
Load(buf, n) == [Item("load", buf) EXCEPT !.total = n]

Mids == <<"mid1", "mid2">>
Crcs == <<"crc1", "crc2">>

(* What stage j of a compaction writes: a ring that the next stage reads,  *)
(* or the output                                                           *)
StageOut(i, j) == IF j > Cmd(i).crc THEN <<i, "out">> ELSE <<i, Mids[j]>>

CompactItem(i) ==
    [Item("compact", StageOut(i, 1)) EXCEPT !.frees = {<<i, "in1">>, <<i, "in2">>}]

CrcItem(i, j) == [Item(Crcs[j], StageOut(i, j + 1)) EXCEPT !.frees = {StageOut(i, j)}]

CompactionItems(i) ==
    << CompactItem(i), Load(<<i, "in1">>, Cmd(i).loads[1]), Load(<<i, "in2">>, Cmd(i).loads[2]) >>
    \o [j \in 1..Cmd(i).crc |-> CrcItem(i, j)]

(* Only the loads of lookups and copies reset is_first_io and io_quota. *)
ReadItems(i) ==
    << [Item("read", <<i, "out">>) EXCEPT !.frees = {<<i, "in">>}] >>
    \o [f \in DOMAIN Cmd(i).loads |->
           [Load(<<i, "in">>, Cmd(i).loads[f]) EXCEPT !.first = TRUE]]

CopyItem(i) == [Load(<<Cmd(i).in, "buf">>, Cmd(i).loads[1]) EXCEPT !.first = TRUE]
ExecItem(i) == Item(Cmd(i).op, <<Cmd(i).out, "buf">>)

NewTask(i, item, j) ==
    [task[free[j]] EXCEPT
        !.step = "SCHEDULE", !.gen = Gen(j), !.prog = item.prog, !.cmd = i, !.buf = item.buf,
        !.total = item.total, !.requested = 0, !.done = 0, !.ios = 0, !.demand = "no",
        !.quota = IF item.first THEN 1 ELSE @, !.first = item.first \/ @,
        !.info = TRUE, !.frees = item.frees,
        !.loads = IF item.prog = "read" THEN {Gen(l) : l \in (j + 1)..(j + Len(Cmd(i).loads))} ELSE {}]

(* __find_idle_compute_core, or else round robin *)
Placed(p, t) ==
    LET idle == {c \in Cores : p.comp[c] = << >>}
        core == IF idle = {} THEN p.turn ELSE Min(idle)
    IN  [comp |-> [p.comp EXCEPT ![core] = Append(@, t)],
         turn |-> IF idle = {} THEN (p.turn + 1) % NCpu ELSE p.turn]

(* Loads go to the copy list, then the programs to cores, one by one. *)
Enqueue(items) ==
    LET at(S) == [j \in 1..Len(items) |-> IF items[j].prog \in S THEN free[j] ELSE NONE]
        real(q) == SelectSeq(q, LAMBDA t : t # NONE)
    IN  FoldLeft(Placed,
                 [comp |-> [comp EXCEPT ![CopyList] = @ \o real(at({"load"}))], turn |-> turn],
                 real(at(ComputePrograms)))

Start(i, items) ==
    LET n == Len(items)
        p == Enqueue(items)
    IN  /\ task' = [t \in Tasks |-> IF \E j \in 1..n : free[j] = t
                                    THEN LET j == CHOOSE j \in 1..n : free[j] = t
                                         IN  NewTask(i, items[j], j)
                                    ELSE task[t]]
        /\ free' = SubSeq(free, n + 1, Len(free))
        /\ comp' = p.comp /\ turn' = p.turn
        /\ nextGen' = nextGen + n

(* The failure paths put the tasks they have allocated back: at the tail,  *)
(* still carrying the generation they were given.                          *)
GiveBack(n) ==
    /\ task' = [t \in Tasks |-> IF \E j \in 1..n : free[j] = t
                                THEN [task[t] EXCEPT !.gen = Gen(CHOOSE j \in 1..n : free[j] = t)]
                                ELSE task[t]]
    /\ free' = SubSeq(free, n + 1, Len(free)) \o SubSeq(free, 1, n)
    /\ nextGen' = nextGen + n

Fits(n) == Cardinality(DOMAIN slm) + n <= SlmRanges
LoadsOn(items, r) == {Gen(j) : j \in {j \in DOMAIN items : items[j].prog = "load" /\ items[j].buf = r}}

(* __do_perform_magic_compaction and __do_perform_magic_read: tasks, then  *)
(* ranges, then everything at once; the host learns of the ranges it reads.*)
Magic(i, items, ranges, returned) ==
    LET n == Len(items)
    IN  IF ~Available(n)
        THEN GiveBack(Len(free)) /\ UNCHANGED <<done, comp, turn, slm, given>>
        ELSE IF ~Fits(Cardinality(ranges))
        THEN GiveBack(n) /\ UNCHANGED <<done, comp, turn, slm, given>>
        ELSE /\ Start(i, items)
             /\ slm' = [r \in ranges |-> LoadsOn(items, r)] @@ slm
             /\ given' = [given EXCEPT ![i] = returned]
             /\ UNCHANGED done

Named(i, names) == {<<i, x>> : x \in names}
CompactionRanges(i) == Named(i, {"in1", "in2", "out", "meta"} \cup {Mids[j] : j \in 1..Cmd(i).crc})
CompactionReturns(i) == Named(i, {"out", "meta"})

Compaction(i) ==
    /\ Cmd(i).op = "compaction" /\ ~(Prompt /\ Stalled(Min({3 + Cmd(i).crc, Len(free)})))
    /\ Magic(i, CompactionItems(i), CompactionRanges(i), CompactionReturns(i))
    /\ UNCHANGED bug

ReadRanges(i) == Named(i, {"in", "out"})

Read(i) ==
    /\ Cmd(i).op = "read" /\ ~(Prompt /\ Stalled(Min({1 + Len(Cmd(i).loads), Len(free)})))
    /\ Magic(i, ReadItems(i), ReadRanges(i), Named(i, {"out"}))
    /\ UNCHANGED bug

(* __do_perform_dispatch: one task, and BUG() without one.  An oversized   *)
(* program is refused after its task has left free_list.                   *)
Dispatch(i) ==
    /\ Cmd(i).op \in {"copy", "exec", "compress"} /\ ~(Prompt /\ Stalled(Min({1, Len(free)})))
    /\ IF ~Available(1) THEN bug' = "no task" /\ UNCHANGED <<task, lists, nextGen, slm>>
       ELSE IF Cmd(i).op = "copy"
       THEN LET r == <<Cmd(i).in, "buf">>
            IN  /\ Start(i, <<CopyItem(i)>>)
                /\ slm' = [slm EXCEPT ![r] = {Gen(1)}]
                /\ bug' = IF slm[r] = {} THEN bug ELSE "loaded twice"
                /\ UNCHANGED done
       ELSE IF Cmd(i).huge
       THEN /\ task' = [task EXCEPT ![Head(free)].gen = Gen(1)]
            /\ free' = Tail(free) /\ nextGen' = nextGen + 1
            /\ UNCHANGED <<done, comp, turn, slm, bug>>
       ELSE Start(i, <<ExecItem(i)>>) /\ UNCHANGED <<done, slm, bug>>
    /\ UNCHANGED given

(* free_slm_range: the load tasks of the range must be parked or ended;    *)
(* they end here, and lose their region.                                   *)
Attached(R) == {PoolIndex(g) : g \in {g \in UNION {slm[r] : r \in R \cap DOMAIN slm} :
                   GenValid(g) /\ task[PoolIndex(g)].prog = "load" /\ task[PoolIndex(g)].info}}

FreeBug(tab, R) ==
    CASE ~(R \subseteq DOMAIN slm) -> "freed twice"
      [] \E t \in Attached(R) : tab[t].step \in {"SCHEDULE", "FREE"} -> "load still scheduled"
      [] OTHER -> bug

Detach(tab, R) ==
    [t \in Tasks |-> IF t \in Attached(R) THEN [tab[t] EXCEPT !.step = "END", !.info = FALSE]
                                         ELSE tab[t]]
Without(R) == [r \in DOMAIN slm \ R |-> slm[r]]

(* Mutant: loads are not parked. *)
Park_Not(S) == task

(* cmpxchg(SCHEDULE, WAIT) on some tasks *)
Park(S) == [t \in Tasks |-> IF t \in S /\ task[t].step = "SCHEDULE"
                           THEN [task[t] EXCEPT !.step = "WAIT"] ELSE task[t]]

(* __do_perform_memory_management *)
Manage(i) ==
    /\ \/ /\ Cmd(i).op = "create"
          /\ IF Fits(1) THEN /\ slm' = (<<i, "buf">> :> {}) @@ slm
                             /\ given' = [given EXCEPT ![i] = {<<i, "buf">>}]
                        ELSE UNCHANGED <<slm, given>>
          /\ UNCHANGED <<task, bug>>
       \/ /\ Cmd(i).op = "delete"
          /\ LET R == {Cmd(i).range}
                 tab == Park(Attached(R))
             IN  /\ bug' = FreeBug(tab, R)
                 /\ task' = Detach(tab, R) /\ slm' = Without(R)
          /\ given' = [given EXCEPT ![Cmd(i).range[1]] = @ \ {Cmd(i).range}]
    /\ UNCHANGED <<lists, nextGen>>

AnsweredAtOnce(i) == Cmd(i).op # "compress"

(* The dispatching part of nvmev_kthread_ccsd_io, NCpu commands a pass.    *)
(* Only a compression is answered when its task is done, not now.          *)
TakeCommand ==
    /\ Live /\ disp.pc = "scan" /\ queue # << >> /\ disp.count < NCpu
    /\ LET i == Head(queue)
       IN  /\ Compaction(i) \/ Read(i) \/ Dispatch(i) \/ Manage(i)
           /\ answers' = [answers EXCEPT ![i] = IF AnsweredAtOnce(i) THEN @ + 1 ELSE @]
    /\ queue' = Tail(queue)
    /\ disp' = [pc |-> "defer", list |-> 0, count |-> disp.count + 1]
    /\ UNCHANGED <<script, sent, waiting, reqs, worker, history>>

NoMoreCommands ==
    /\ Live /\ disp.pc = "scan" /\ (queue = << >> \/ disp.count = NCpu)
    /\ disp' = [pc |-> "reclaimAll", list |-> 0, count |-> disp.count]
    /\ UNCHANGED <<env, queue, answers, task, lists, nextGen, slm, waiting, reqs, worker,
                   history, bug>>

----------------------------------------------------------------------------
(* Dispatcher: finished tasks *)

(* Mutant: a deferred free does not wait for requests in flight. *)
Idle_Always(gen) == TRUE

(* __process_deferred_slm_frees *)
Idle(gen) == ~GenValid(gen) \/ task[PoolIndex(gen)].ios = 0

ProcessDeferred ==
    /\ Live /\ disp.pc \in {"defer", "deferEnd"}
    /\ LET ready == {w \in waiting : \A g \in w.loads : Idle(g)}
           R == {w.buf : w \in ready}
       IN  /\ waiting' = waiting \ ready
           /\ bug' = FreeBug(task, R)
           /\ task' = Detach(task, R) /\ slm' = Without(R)
    /\ IF disp.pc = "defer" THEN At("reclaim")
       ELSE disp' = [pc |-> "scan", list |-> 0, count |-> 0]
    /\ UNCHANGED <<env, queue, answers, lists, nextGen, reqs, worker, history>>

(* Mutant: goes on behind the first task that has not ended. *)
EndRun_ToLast(q) ==
    LET ends == {i \in DOMAIN q : task[q[i]].step = "END"}
    IN  IF ends = {} THEN <<0, -1>> ELSE <<Min(ends), Max(ends)>>

(* The first run of finished tasks of a list *)
EndRun(q) ==
    LET ended(i) == task[q[i]].step = "END"
        starts == {i \in DOMAIN q : ended(i)}
    IN  IF starts = {} THEN <<0, -1>>
        ELSE LET a == Min(starts)
             IN  <<a, Max({b \in a..Len(q) : \A i \in a..b : ended(i)})>>

(* __reclaim_task, one list *)
ReclaimTask ==
    /\ Live /\ disp.pc \in {"reclaim", "reclaimAll"}
    /\ LET q == comp[disp.list]
           r == EndRun(q)
       IN  IF r[1] = 0 THEN UNCHANGED <<comp, done>>
           ELSE /\ comp' = [comp EXCEPT ![disp.list] =
                                SubSeq(q, 1, r[1] - 1) \o SubSeq(q, r[2] + 1, Len(q))]
                /\ done' = done \o SubSeq(q, r[1], r[2])
    /\ disp' = IF disp.list < NCpu THEN [disp EXCEPT !.list = @ + 1]
               ELSE [disp EXCEPT !.list = 0,
                                 !.pc = IF @ = "reclaim" THEN "scan" ELSE "done"]
    /\ UNCHANGED <<env, queue, answers, task, free, turn, nextGen, slm, waiting, reqs, worker,
                   history, bug>>

(* A finished lookup parks the loads that are still scheduled, and leaves  *)
(* the input to __process_deferred_slm_frees if there were any.            *)
Parked(t) == {g \in task[t].loads : GenValid(g) /\ task[PoolIndex(g)].step = "SCHEDULE"}

(* The range a program gives back when it is done *)
Released(t) == IF task[t].prog = "read" /\ Parked(t) # {} THEN {} ELSE task[t].frees

Recycled(tab, t) == [tab EXCEPT ![t] = [@ EXCEPT !.gen = NONE, !.step = "FREE", !.info = FALSE]]

(* The end of nvmev_kthread_ccsd_io: one task of done_list *)
Retire ==
    /\ Live /\ disp.pc = "done" /\ done # << >>
    /\ LET t == Head(done)
           R == Released(t)
           tab == IF task[t].prog = "read" THEN Park({PoolIndex(g) : g \in Parked(t)}) ELSE task
       IN  /\ task' = Recycled(Detach(tab, R), t)
           /\ slm' = Without(R)
           /\ IF task[t].prog = "read" /\ Parked(t) # {}
              THEN /\ waiting' = waiting \cup {[buf |-> <<task[t].cmd, "in">>, loads |-> Parked(t)]}
                   /\ bug' = IF Cardinality(waiting) < MaxDeferred THEN bug ELSE "no deferred slot"
              ELSE bug' = FreeBug(tab, R) /\ UNCHANGED waiting
           /\ answers' = IF task[t].prog = "compress"
                         THEN [answers EXCEPT ![task[t].cmd] = @ + 1] ELSE answers
           /\ done' = Tail(done) /\ free' = Append(free, t)
    /\ UNCHANGED <<env, queue, comp, turn, nextGen, reqs, worker, disp, history>>

NoMoreDone ==
    /\ Live /\ disp.pc = "done" /\ done = << >>
    /\ At("deferEnd")
    /\ UNCHANGED <<env, queue, answers, task, lists, nextGen, slm, waiting, reqs, worker,
                   history, bug>>

----------------------------------------------------------------------------
(* Helper: the loads on the copy list *)

Copying == {t \in Range(comp[CopyList]) : task[t].step = "SCHEDULE" /\ task[t].info}
Counted(f, k, n) == (k :> (n + IF k \in DOMAIN f THEN f[k] ELSE 0)) @@ f

(* stream_access: the program that consumes this load is at work *)
AtWork(c, t) ==
    LET p == task[worker[c].at]
    IN  /\ worker[c].pc = "running"
        /\ \/ p.prog = "compact" /\ p.cmd = task[t].cmd
           \/ p.prog \in {"exec", "compress"} /\ Cmd(p.cmd).in = task[t].buf[1]

(* __request_io: the request a lookup demands, the first request, or the   *)
(* next one of a stream                                                    *)
Wanted(t) ==
    \/ task[t].demand = "asked"
    \/ /\ task[t].quota > 0 /\ task[t].requested < task[t].total
       /\ task[t].requested = 0 \/ \E c \in Cores : AtWork(c, t)

RequestIo(t) ==
    /\ Live /\ t \in Copying /\ Wanted(t)
    /\ task' = [task EXCEPT ![t] =
                   IF @.demand = "asked"
                   THEN [@ EXCEPT !.demand = "issued", !.ios = @ + 1, !.quota = 0]
                   ELSE [@ EXCEPT !.requested = @ + 1, !.ios = @ + 1, !.quota = @ - 1]]
    /\ reqs' = Counted(reqs, task[t].gen, 1)
    /\ UNCHANGED <<env, queue, answers, lists, nextGen, slm, waiting, worker, disp, history, bug>>

(* The second loop of __request_io hands out tokens when nobody could use  *)
(* one, but not to a task whose first request is still on its way.         *)
Thirsty(t) == task[t].requested < task[t].total /\ ~task[t].first

RefillQuotas ==
    /\ Live /\ \A t \in Copying : ~Wanted(t)
    /\ \E t \in Copying : Thirsty(t) /\ task[t].quota = 0
    /\ task' = [t \in Tasks |-> IF t \in Copying /\ Thirsty(t)
                                THEN [task[t] EXCEPT !.quota = 1] ELSE task[t]]
    /\ UNCHANGED <<env, queue, answers, lists, nextGen, slm, waiting, reqs, worker, disp,
                   history, bug>>

(* A request whose task or region is gone is dropped: by slm_work, or when *)
(* it is due, after is_first_io was cleared for whoever has the slot now.  *)
Orphan(gen) == ~GenValid(gen) \/ ~task[PoolIndex(gen)].info

DropOrphan(gen) ==
    /\ Live /\ reqs[gen] > 0 /\ Orphan(gen)
    /\ reqs' = Counted(reqs, gen, -1)
    /\ task' \in {task, [task EXCEPT ![PoolIndex(gen)].first = FALSE]}
    /\ UNCHANGED <<env, queue, answers, lists, nextGen, slm, waiting, worker, disp, history, bug>>

(* __reclaim_io_req: one request that is due.  The last one of a demand    *)
(* parks its task before the data is published.                            *)
ReclaimDemand(gen) ==
    /\ Live /\ reqs[gen] > 0 /\ ~Orphan(gen) /\ task[PoolIndex(gen)].demand = "issued"
    /\ task' = [task EXCEPT ![PoolIndex(gen)] =
                   [@ EXCEPT !.demand = "no", !.ios = @ - 1, !.first = FALSE,
                             !.step = IF @ = "SCHEDULE" THEN "WAIT" ELSE @]]
    /\ reqs' = Counted(reqs, gen, -1)
    /\ UNCHANGED <<env, queue, answers, lists, nextGen, slm, waiting, worker, disp, history, bug>>

ReclaimNext(gen) ==
    LET t == PoolIndex(gen)
    IN  /\ Live /\ reqs[gen] > 0 /\ ~Orphan(gen) /\ task[t].done < task[t].requested
        /\ task' = [task EXCEPT ![t] = [@ EXCEPT !.done = @ + 1, !.ios = @ - 1, !.first = FALSE]]
        /\ loaded' = IF task'[t].done = task[t].total THEN loaded \cup {task[t].buf} ELSE loaded
        /\ reqs' = Counted(reqs, gen, -1)
        /\ UNCHANGED <<env, queue, answers, lists, nextGen, slm, waiting, worker, disp, final,
                       runs, bug>>

(* The last loop of __reclaim_io_req *)
EndLoad(t) ==
    /\ Live /\ t \in Range(comp[CopyList])
    /\ task[t].step = "SCHEDULE" /\ task[t].done >= task[t].total
    /\ task' = [task EXCEPT ![t].step = "END"]
    /\ UNCHANGED <<env, queue, answers, lists, nextGen, slm, waiting, reqs, worker, disp,
                   history, bug>>

----------------------------------------------------------------------------
(* Compute cores: compute_work *)

Holding(t) == {q \in Range(comp) \cup {done, free} : t \in Range(q)}
NextOf(t) ==
    IF Holding(t) = {} THEN NONE
    ELSE LET q == CHOOSE q \in Holding(t) : TRUE
             i == CHOOSE i \in DOMAIN q : q[i] = t
         IN  IF i = Len(q) THEN NONE ELSE q[i + 1]

Mine(c) == task[worker[c].at]
Key(c) == <<Mine(c).cmd, Mine(c).prog>>
others == <<env, queue, answers, lists, nextGen, slm, waiting, reqs, disp>>

StartPass(c) ==
    /\ Live /\ worker[c].at = NONE /\ comp[c] # << >>
    /\ worker' = [worker EXCEPT ![c].at = Head(comp[c])]
    /\ UNCHANGED <<others, task, history, bug>>

(* A scheduled task is run; it must not be a load. *)
Look(c) ==
    /\ Live /\ worker[c].at # NONE /\ worker[c].pc = "look"
    /\ IF Mine(c).step # "SCHEDULE"
       THEN worker' = [worker EXCEPT ![c].at = NextOf(@)] /\ UNCHANGED <<runs, bug>>
       ELSE IF Mine(c).prog = "load"
       THEN bug' = "wrong program" /\ UNCHANGED <<worker, runs>>
       ELSE /\ worker' = [worker EXCEPT ![c] = [@ EXCEPT !.pc = "running", !.demands = 0]]
            /\ runs' = Counted(runs, Key(c), 1) /\ UNCHANGED bug
    /\ UNCHANGED <<others, task, loaded, final>>

(* slm_request_demand_read_info: a lookup wakes the load of a file. *)
Demand(c) ==
    /\ Live /\ worker[c].pc = "running" /\ worker[c].demands < MaxDemand
    /\ \E g \in Mine(c).loads :
          /\ GenValid(g) /\ task[PoolIndex(g)].step \in {"SCHEDULE", "WAIT"}
          /\ task[PoolIndex(g)].demand = "no"
          /\ task' = [task EXCEPT ![PoolIndex(g)] = [@ EXCEPT !.demand = "asked", !.step = "SCHEDULE"]]
    /\ worker' = [worker EXCEPT ![c].demands = @ + 1]
    /\ UNCHANGED <<others, history, bug>>

(* The programs of a compaction form a pipeline over rings: each ends when *)
(* what it reads is complete; if the output does not fit a ring, the next  *)
(* stage must be at work.  Execute waits for its range to be loaded.       *)
Stages(i) == <<"compact">> \o SubSeq(Crcs, 1, Cmd(i).crc)

CanProduce(c) ==
    LET i == Mine(c).cmd
        s == CHOOSE s \in 1..Len(Stages(i)) : Stages(i)[s] = Mine(c).prog
    IN  CASE Mine(c).prog \in {"exec", "compress"} -> <<Cmd(i).in, "buf">> \in loaded
          [] Mine(c).prog = "read" -> \A g \in Mine(c).loads : GenValid(g) => task[PoolIndex(g)].demand = "no"
          [] OTHER ->
             /\ IF s = 1 THEN {<<i, "in1">>, <<i, "in2">>} \subseteq loaded
                ELSE <<i, Stages(i)[s - 1]>> \in final
             /\ Cmd(i).big /\ s < Len(Stages(i)) => <<i, Stages(i)[s + 1]>> \in DOMAIN runs

Produce(c) ==
    /\ Live /\ worker[c].pc = "running" /\ CanProduce(c)
    /\ final' = final \cup {Key(c)}
    /\ worker' = [worker EXCEPT ![c].pc = "end"]
    /\ UNCHANGED <<others, task, loaded, runs, bug>>

(* The helper has published the last data of a load and not yet ended it. *)
Unended(i) == \E t \in Tasks : task[t].cmd = i /\ task[t].prog = "load" /\ task[t].step = "SCHEDULE"

(* Mutant: the task stays scheduled. *)
EndTask_Forgets(c) ==
    /\ Live /\ worker[c].pc = "end"
    /\ worker' = [worker EXCEPT ![c].pc = "next"]
    /\ UNCHANGED <<others, task, history, bug>>

EndTask(c) ==
    /\ Live /\ worker[c].pc = "end"
    /\ ~(Prompt /\ Mine(c).prog = "compact" /\ Unended(Mine(c).cmd))
    /\ task' = [task EXCEPT ![worker[c].at].step = "END"]
    /\ worker' = [worker EXCEPT ![c].pc = "next"]
    /\ UNCHANGED <<others, history, bug>>

Follow(c) ==
    /\ Live /\ worker[c].pc = "next"
    /\ worker' = [worker EXCEPT ![c] = [at |-> NextOf(@.at), pc |-> "look", demands |-> 0]]
    /\ UNCHANGED <<others, task, history, bug>>

----------------------------------------------------------------------------
Dispatcher == TakeCommand \/ NoMoreCommands \/ ProcessDeferred \/ ReclaimTask \/ Retire \/ NoMoreDone
Requests == (\E t \in Tasks : RequestIo(t)) \/ RefillQuotas
Reclaims == \/ \E g \in DOMAIN reqs : DropOrphan(g) \/ ReclaimDemand(g) \/ ReclaimNext(g)
            \/ \E t \in Tasks : EndLoad(t)
Work(c) == StartPass(c) \/ Look(c) \/ Produce(c) \/ EndTask(c) \/ Follow(c)

Next == Send \/ Dispatcher \/ Requests \/ Reclaims \/ \E c \in Cores : Work(c) \/ Demand(c)

(* Every thread loops for ever; the host sends its commands.  Nothing      *)
(* makes a lookup demand anything.                                         *)
Fairness ==
    /\ WF_vars(Send) /\ WF_vars(Dispatcher) /\ WF_vars(Requests) /\ WF_vars(Reclaims)
    /\ \A c \in Cores : WF_vars(Work(c))

Spec == Init /\ [][Next]_vars /\ Fairness

----------------------------------------------------------------------------
(* Properties *)

Listed(t) == Holding(t) # {}
Oversized == {i \in DOMAIN script : /\ Cmd(i).op \in {"exec", "compress"} /\ Cmd(i).huge
                                   /\ i <= sent /\ i \notin Range(queue)}

(* The lists are disjoint and hold the whole pool, every list the tasks in *)
(* the steps it is for: allocate_new_task BUG()s on any other, and a core  *)
(* must not meet a load.  Only a refused oversized program takes a task    *)
(* out of the pool for good (__do_perform_dispatch returns early).         *)
PoolAccounted ==
    /\ \A q \in Range(comp) \cup {free, done} : IsInjective(q)
    /\ \A t \in Tasks : Cardinality({l \in DOMAIN comp : t \in Range(comp[l])})
                          + (IF t \in Range(free) THEN 1 ELSE 0)
                          + (IF t \in Range(done) THEN 1 ELSE 0) = IF Listed(t) THEN 1 ELSE 0
    /\ \A t \in Range(free) : task[t].step = "FREE"
    /\ \A t \in Range(done) : task[t].step = "END"
    /\ \A l \in DOMAIN comp : \A t \in Range(comp[l]) :
          task[t].step # "FREE" /\ (task[t].prog = "load" <=> l = CopyList)
    /\ Cardinality({t \in Tasks : ~Listed(t)}) = Cardinality(Oversized)

(* No assertion of the task table fails: a range is never freed while a    *)
(* load of it is scheduled or twice, no core meets a load, a deferred free *)
(* finds a slot (free_slm_lba_info, compute_work, nvmev_kthread_ccsd_io).  *)
(* Running out of tasks is not one of them: see PoolAccounted.             *)
NeverBugs == bug \in {"none", "no task"}

(* Each program is started once, by one core, although a core may stand on *)
(* a task that has moved to done_list or free_list (compute_work).         *)
RunOnce ==
    /\ \A k \in DOMAIN runs : runs[k] = 1
    /\ \A c, d \in Cores : worker[c].pc \in {"running", "end"} /\ worker[c] = worker[d] => c = d

(* The ranges a program at work reads and writes, and the range of a load  *)
(* that may still request, are allocated.                                  *)
RangesHeld ==
    /\ \A c \in Cores : worker[c].pc = "running" =>
          (Mine(c).frees \cup {Mine(c).buf}) \subseteq DOMAIN slm
    /\ \A t \in Tasks : task[t].prog = "load" /\ task[t].info => task[t].buf \in DOMAIN slm

(* Every allocated range has exactly one party that will free it: the host *)
(* by a delete, the retirement of one task, or a deferred free.            *)
RangesOwned ==
    \A r \in DOMAIN slm :
        Cardinality({i \in DOMAIN script : r \in given[i]})
        + Cardinality({t \in Tasks : task[t].step # "FREE" /\ r \in task[t].frees})
        + Cardinality({w \in waiting : w.buf = r}) = 1

(* The pool of tasks and the SLM ranges are accounted for, whatever the    *)
(* order in which the threads end, reclaim and free them.                  *)
Accounted == TypeOK /\ PoolAccounted /\ RangesHeld /\ RangesOwned

(* Whatever the commands, in the end they are answered, all tasks are back *)
(* in the pool, and only ranges the host holds are allocated.              *)
AllReturned ==
    <>[](/\ sent = Len(script) /\ queue = << >>
         /\ \A t \in Tasks : task[t].step = "FREE"
         /\ waiting = {} /\ DOMAIN slm = UNION Range(given))
=============================================================================
