----------------------------- MODULE MCDevices ------------------------------
(***************************************************************************)
(* The devices and the file systems that are not SFS, each by itself: the  *)
(* disk under SFS and raw clients (Lhd), the emulator file system (Emu),   *)
(* the console with polled output or with input (Console), the bus         *)
(* (Lamebus), the clock (Clock), the VFS layer (Vfs) and the semaphore     *)
(* file system (Semfs). A behaviour is one of one component; "which" says  *)
(* whose.                                                                  *)
(***************************************************************************)
EXTENDS Naturals, Sequences, FiniteSets

VARIABLES which, pc, req, resid, tries, result, got, done, nreq, stat, sect, buf,
          owner, platter, lh_clear, lh_done, lh_result, faults, plan, job, ref,
          retries, stuck, vn_refcount, unreclaimed, big, e_lock, e_sem, e_result,
          reg, opened, ops, nomem, panicked, the_console, delayed, todo, rlock,
          wlock, cs_wsem, cs_rsem, ring, head, tail, ls_lock, ls_wbusy, pending,
          wirq, sending, rx, nin, out, accepted, taken, overrun, cards, cpumask,
          self, cpus, cram, started, cirqe, ls_slotsinuse, ls_irqfuncs, class,
          found, irqs, at, seen, duds, dudsnow, raised, now, began, secs1, tv_nsec,
          ts, num_secs, wanted, lbolt, tick, knowndevs, kd_fs, mounts, p_cwd,
          bootfs_vnode, open, op, tmp, swapvnodes, mixed, dents, sems, waiters,
          dirlock, tablelock, semlock, cur, age, mine, opens, calls

vars == <<which, pc, req, resid, tries, result, got, done, nreq, stat, sect, buf,
          owner, platter, lh_clear, lh_done, lh_result, faults, plan, job, ref,
          retries, stuck, vn_refcount, unreclaimed, big, e_lock, e_sem, e_result,
          reg, opened, ops, nomem, panicked, the_console, delayed, todo, rlock,
          wlock, cs_wsem, cs_rsem, ring, head, tail, ls_lock, ls_wbusy, pending,
          wirq, sending, rx, nin, out, accepted, taken, overrun, cards, cpumask,
          self, cpus, cram, started, cirqe, ls_slotsinuse, ls_irqfuncs, class,
          found, irqs, at, seen, duds, dudsnow, raised, now, began, secs1, tv_nsec,
          ts, num_secs, wanted, lbolt, tick, knowndevs, kd_fs, mounts, p_cwd,
          bootfs_vnode, open, op, tmp, swapvnodes, mixed, dents, sems, waiters,
          dirlock, tablelock, semlock, cur, age, mine, opens, calls>>

VfsDevices == [lhd0 |-> [raw |-> TRUE, fs |-> FALSE, vol |-> "emu0"],
               emu0 |-> [raw |-> FALSE, fs |-> TRUE, vol |-> "emu"],
               emu |-> [raw |-> FALSE, fs |-> FALSE, vol |-> "none"]]
EmuPlans == [fresh : BOOLEAN, creat : BOOLEAN]
Card(k, v) == [kind |-> k, version |-> v]
NoCard == Card("none", 0)
Layouts == {<<Card("disk", 2), Card("disk", 1), Card("emufs", 1), NoCard>>,
            <<Card("emufs", 1), Card("unknown", 1), Card("emufs", 1), NoCard>>,
            <<Card("random", 1), Card("disk", 2), Card("serial", 1), NoCard>>}

L == INSTANCE Lhd WITH Thread <- {1, 2}, Sector <- {1, 2}, Sfs <- {1}, Tries <- 1,
  MaxRequests <- 1, MaxFaults <- 2
E == INSTANCE Emu WITH Thread <- {1, 2}, Handle <- {1, 2}, Dirs <- {2},
  Plans <- EmuPlans, Retries <- 1, MaxFaults <- 2, MaxNoMem <- 1, MaxOps <- 3
C == INSTANCE Console WITH Writer <- {1, 2}, Reader <- {}, Kernel <- {5},
  Line <- <<"x", "nl">>, BufferSize <- 3, DelaySize <- 1, MaxInput <- 0,
  MaxPrints <- 2
I == INSTANCE Console WITH Writer <- {}, Reader <- {3, 4}, Kernel <- {},
  Line <- <<"x">>, BufferSize <- 3, DelaySize <- 1, MaxInput <- 4, MaxPrints <- 0
B == INSTANCE Lamebus WITH Slots <- 0 .. 3, Layouts <- Layouts,
  CpuMasks <- {{0, 2}, {0, 1, 3}}, MaxDuds <- 2, MaxRaised <- 2
K == INSTANCE Clock WITH Threads <- {1, 2}, Second <- 3, Delay <- 1, Small <- 2,
  MaxTime <- 7, MaxSleep <- 2
V == INSTANCE Vfs WITH Proc <- {1, 2}, Devices <- VfsDevices, MaxMounts <- 2,
  MaxOps <- 2
S == INSTANCE Semfs WITH Thread <- {1, 2, 3}, Name <- {1, 2}, Slot <- {1, 2},
  CountMax <- 3, Amounts <- {1, 2}, MaxOpens <- 4, MaxCalls <- 2, MaxNoMem <- 1

(* The components that are not looked at have nothing to show. *)
Unused == 0

LInit ==
  /\ which = "lhd" /\ L!Init
  /\ plan = Unused /\ job = Unused /\ ref = Unused /\ retries = Unused
  /\ stuck = Unused /\ vn_refcount = Unused /\ unreclaimed = Unused /\ big = Unused
  /\ e_lock = Unused /\ e_sem = Unused /\ e_result = Unused /\ reg = Unused
  /\ opened = Unused /\ ops = Unused /\ nomem = Unused /\ panicked = Unused
  /\ the_console = Unused /\ delayed = Unused /\ todo = Unused /\ rlock = Unused
  /\ wlock = Unused /\ cs_wsem = Unused /\ cs_rsem = Unused /\ ring = Unused
  /\ head = Unused /\ tail = Unused /\ ls_lock = Unused /\ ls_wbusy = Unused
  /\ pending = Unused /\ wirq = Unused /\ sending = Unused /\ rx = Unused
  /\ nin = Unused /\ out = Unused /\ accepted = Unused /\ taken = Unused
  /\ overrun = Unused /\ cards = Unused /\ cpumask = Unused /\ self = Unused
  /\ cpus = Unused /\ cram = Unused /\ started = Unused /\ cirqe = Unused
  /\ ls_slotsinuse = Unused /\ ls_irqfuncs = Unused /\ class = Unused
  /\ found = Unused /\ irqs = Unused /\ at = Unused /\ seen = Unused
  /\ duds = Unused /\ dudsnow = Unused /\ raised = Unused /\ now = Unused
  /\ began = Unused /\ secs1 = Unused /\ tv_nsec = Unused /\ ts = Unused
  /\ num_secs = Unused /\ wanted = Unused /\ lbolt = Unused /\ tick = Unused
  /\ knowndevs = Unused /\ kd_fs = Unused /\ mounts = Unused /\ p_cwd = Unused
  /\ bootfs_vnode = Unused /\ open = Unused /\ op = Unused /\ tmp = Unused
  /\ swapvnodes = Unused /\ mixed = Unused /\ dents = Unused /\ sems = Unused
  /\ waiters = Unused /\ dirlock = Unused /\ tablelock = Unused /\ semlock = Unused
  /\ cur = Unused /\ age = Unused /\ mine = Unused /\ opens = Unused
  /\ calls = Unused
LNext ==
  /\ which = "lhd" /\ L!Next
  /\ UNCHANGED <<which, plan, job, ref, retries, stuck, vn_refcount, unreclaimed,
                 big, e_lock, e_sem, e_result, reg, opened, ops, nomem, panicked,
                 the_console, delayed, todo, rlock, wlock, cs_wsem, cs_rsem, ring,
                 head, tail, ls_lock, ls_wbusy, pending, wirq, sending, rx, nin,
                 out, accepted, taken, overrun, cards, cpumask, self, cpus, cram,
                 started, cirqe, ls_slotsinuse, ls_irqfuncs, class, found, irqs, at,
                 seen, duds, dudsnow, raised, now, began, secs1, tv_nsec, ts,
                 num_secs, wanted, lbolt, tick, knowndevs, kd_fs, mounts, p_cwd,
                 bootfs_vnode, open, op, tmp, swapvnodes, mixed, dents, sems,
                 waiters, dirlock, tablelock, semlock, cur, age, mine, opens,
                 calls>>

EInit ==
  /\ which = "emu" /\ E!Init
  /\ req = Unused /\ resid = Unused /\ tries = Unused /\ result = Unused
  /\ got = Unused /\ done = Unused /\ nreq = Unused /\ stat = Unused
  /\ sect = Unused /\ buf = Unused /\ owner = Unused /\ platter = Unused
  /\ lh_clear = Unused /\ lh_done = Unused /\ lh_result = Unused
  /\ the_console = Unused /\ delayed = Unused /\ todo = Unused /\ rlock = Unused
  /\ wlock = Unused /\ cs_wsem = Unused /\ cs_rsem = Unused /\ ring = Unused
  /\ head = Unused /\ tail = Unused /\ ls_lock = Unused /\ ls_wbusy = Unused
  /\ pending = Unused /\ wirq = Unused /\ sending = Unused /\ rx = Unused
  /\ nin = Unused /\ out = Unused /\ accepted = Unused /\ taken = Unused
  /\ overrun = Unused /\ cards = Unused /\ cpumask = Unused /\ self = Unused
  /\ cpus = Unused /\ cram = Unused /\ started = Unused /\ cirqe = Unused
  /\ ls_slotsinuse = Unused /\ ls_irqfuncs = Unused /\ class = Unused
  /\ found = Unused /\ irqs = Unused /\ at = Unused /\ seen = Unused
  /\ duds = Unused /\ dudsnow = Unused /\ raised = Unused /\ now = Unused
  /\ began = Unused /\ secs1 = Unused /\ tv_nsec = Unused /\ ts = Unused
  /\ num_secs = Unused /\ wanted = Unused /\ lbolt = Unused /\ tick = Unused
  /\ knowndevs = Unused /\ kd_fs = Unused /\ mounts = Unused /\ p_cwd = Unused
  /\ bootfs_vnode = Unused /\ open = Unused /\ op = Unused /\ tmp = Unused
  /\ swapvnodes = Unused /\ mixed = Unused /\ dents = Unused /\ sems = Unused
  /\ waiters = Unused /\ dirlock = Unused /\ tablelock = Unused /\ semlock = Unused
  /\ cur = Unused /\ age = Unused /\ mine = Unused /\ opens = Unused
  /\ calls = Unused
ENext ==
  /\ which = "emu" /\ E!Next
  /\ UNCHANGED <<which, req, resid, tries, result, got, done, nreq, stat, sect, buf,
                 owner, platter, lh_clear, lh_done, lh_result, the_console, delayed,
                 todo, rlock, wlock, cs_wsem, cs_rsem, ring, head, tail, ls_lock,
                 ls_wbusy, pending, wirq, sending, rx, nin, out, accepted, taken,
                 overrun, cards, cpumask, self, cpus, cram, started, cirqe,
                 ls_slotsinuse, ls_irqfuncs, class, found, irqs, at, seen, duds,
                 dudsnow, raised, now, began, secs1, tv_nsec, ts, num_secs, wanted,
                 lbolt, tick, knowndevs, kd_fs, mounts, p_cwd, bootfs_vnode, open,
                 op, tmp, swapvnodes, mixed, dents, sems, waiters, dirlock,
                 tablelock, semlock, cur, age, mine, opens, calls>>

CInit ==
  /\ which = "conout" /\ C!Init
  /\ req = Unused /\ resid = Unused /\ tries = Unused /\ result = Unused
  /\ got = Unused /\ done = Unused /\ nreq = Unused /\ stat = Unused
  /\ sect = Unused /\ buf = Unused /\ owner = Unused /\ platter = Unused
  /\ lh_clear = Unused /\ lh_done = Unused /\ lh_result = Unused /\ faults = Unused
  /\ plan = Unused /\ job = Unused /\ ref = Unused /\ retries = Unused
  /\ stuck = Unused /\ vn_refcount = Unused /\ unreclaimed = Unused /\ big = Unused
  /\ e_lock = Unused /\ e_sem = Unused /\ e_result = Unused /\ reg = Unused
  /\ opened = Unused /\ ops = Unused /\ nomem = Unused /\ cards = Unused
  /\ cpumask = Unused /\ self = Unused /\ cpus = Unused /\ cram = Unused
  /\ started = Unused /\ cirqe = Unused /\ ls_slotsinuse = Unused
  /\ ls_irqfuncs = Unused /\ class = Unused /\ found = Unused /\ irqs = Unused
  /\ at = Unused /\ seen = Unused /\ duds = Unused /\ dudsnow = Unused
  /\ raised = Unused /\ now = Unused /\ began = Unused /\ secs1 = Unused
  /\ tv_nsec = Unused /\ ts = Unused /\ num_secs = Unused /\ wanted = Unused
  /\ lbolt = Unused /\ tick = Unused /\ knowndevs = Unused /\ kd_fs = Unused
  /\ mounts = Unused /\ p_cwd = Unused /\ bootfs_vnode = Unused /\ open = Unused
  /\ op = Unused /\ tmp = Unused /\ swapvnodes = Unused /\ mixed = Unused
  /\ dents = Unused /\ sems = Unused /\ waiters = Unused /\ dirlock = Unused
  /\ tablelock = Unused /\ semlock = Unused /\ cur = Unused /\ age = Unused
  /\ mine = Unused /\ opens = Unused /\ calls = Unused
CNext ==
  /\ which = "conout" /\ C!Next
  /\ UNCHANGED <<which, req, resid, tries, result, got, done, nreq, stat, sect, buf,
                 owner, platter, lh_clear, lh_done, lh_result, faults, plan, job,
                 ref, retries, stuck, vn_refcount, unreclaimed, big, e_lock, e_sem,
                 e_result, reg, opened, ops, nomem, cards, cpumask, self, cpus,
                 cram, started, cirqe, ls_slotsinuse, ls_irqfuncs, class, found,
                 irqs, at, seen, duds, dudsnow, raised, now, began, secs1, tv_nsec,
                 ts, num_secs, wanted, lbolt, tick, knowndevs, kd_fs, mounts, p_cwd,
                 bootfs_vnode, open, op, tmp, swapvnodes, mixed, dents, sems,
                 waiters, dirlock, tablelock, semlock, cur, age, mine, opens,
                 calls>>

IInit ==
  /\ which = "conin" /\ I!Init
  /\ req = Unused /\ resid = Unused /\ tries = Unused /\ result = Unused
  /\ got = Unused /\ done = Unused /\ nreq = Unused /\ stat = Unused
  /\ sect = Unused /\ buf = Unused /\ owner = Unused /\ platter = Unused
  /\ lh_clear = Unused /\ lh_done = Unused /\ lh_result = Unused /\ faults = Unused
  /\ plan = Unused /\ job = Unused /\ ref = Unused /\ retries = Unused
  /\ stuck = Unused /\ vn_refcount = Unused /\ unreclaimed = Unused /\ big = Unused
  /\ e_lock = Unused /\ e_sem = Unused /\ e_result = Unused /\ reg = Unused
  /\ opened = Unused /\ ops = Unused /\ nomem = Unused /\ cards = Unused
  /\ cpumask = Unused /\ self = Unused /\ cpus = Unused /\ cram = Unused
  /\ started = Unused /\ cirqe = Unused /\ ls_slotsinuse = Unused
  /\ ls_irqfuncs = Unused /\ class = Unused /\ found = Unused /\ irqs = Unused
  /\ at = Unused /\ seen = Unused /\ duds = Unused /\ dudsnow = Unused
  /\ raised = Unused /\ now = Unused /\ began = Unused /\ secs1 = Unused
  /\ tv_nsec = Unused /\ ts = Unused /\ num_secs = Unused /\ wanted = Unused
  /\ lbolt = Unused /\ tick = Unused /\ knowndevs = Unused /\ kd_fs = Unused
  /\ mounts = Unused /\ p_cwd = Unused /\ bootfs_vnode = Unused /\ open = Unused
  /\ op = Unused /\ tmp = Unused /\ swapvnodes = Unused /\ mixed = Unused
  /\ dents = Unused /\ sems = Unused /\ waiters = Unused /\ dirlock = Unused
  /\ tablelock = Unused /\ semlock = Unused /\ cur = Unused /\ age = Unused
  /\ mine = Unused /\ opens = Unused /\ calls = Unused
INext ==
  /\ which = "conin" /\ I!Next
  /\ UNCHANGED <<which, req, resid, tries, result, got, done, nreq, stat, sect, buf,
                 owner, platter, lh_clear, lh_done, lh_result, faults, plan, job,
                 ref, retries, stuck, vn_refcount, unreclaimed, big, e_lock, e_sem,
                 e_result, reg, opened, ops, nomem, cards, cpumask, self, cpus,
                 cram, started, cirqe, ls_slotsinuse, ls_irqfuncs, class, found,
                 irqs, at, seen, duds, dudsnow, raised, now, began, secs1, tv_nsec,
                 ts, num_secs, wanted, lbolt, tick, knowndevs, kd_fs, mounts, p_cwd,
                 bootfs_vnode, open, op, tmp, swapvnodes, mixed, dents, sems,
                 waiters, dirlock, tablelock, semlock, cur, age, mine, opens,
                 calls>>

BInit ==
  /\ which = "bus" /\ B!Init
  /\ pc = Unused /\ req = Unused /\ resid = Unused /\ tries = Unused
  /\ result = Unused /\ got = Unused /\ done = Unused /\ nreq = Unused
  /\ stat = Unused /\ sect = Unused /\ buf = Unused /\ owner = Unused
  /\ platter = Unused /\ lh_clear = Unused /\ lh_done = Unused /\ lh_result = Unused
  /\ faults = Unused /\ plan = Unused /\ job = Unused /\ ref = Unused
  /\ retries = Unused /\ stuck = Unused /\ vn_refcount = Unused
  /\ unreclaimed = Unused /\ big = Unused /\ e_lock = Unused /\ e_sem = Unused
  /\ e_result = Unused /\ reg = Unused /\ opened = Unused /\ ops = Unused
  /\ nomem = Unused /\ the_console = Unused /\ delayed = Unused /\ todo = Unused
  /\ rlock = Unused /\ wlock = Unused /\ cs_wsem = Unused /\ cs_rsem = Unused
  /\ ring = Unused /\ head = Unused /\ tail = Unused /\ ls_lock = Unused
  /\ ls_wbusy = Unused /\ pending = Unused /\ wirq = Unused /\ sending = Unused
  /\ rx = Unused /\ nin = Unused /\ out = Unused /\ accepted = Unused
  /\ taken = Unused /\ overrun = Unused /\ now = Unused /\ began = Unused
  /\ secs1 = Unused /\ tv_nsec = Unused /\ ts = Unused /\ num_secs = Unused
  /\ wanted = Unused /\ lbolt = Unused /\ tick = Unused /\ knowndevs = Unused
  /\ kd_fs = Unused /\ mounts = Unused /\ p_cwd = Unused /\ bootfs_vnode = Unused
  /\ open = Unused /\ op = Unused /\ tmp = Unused /\ swapvnodes = Unused
  /\ mixed = Unused /\ dents = Unused /\ sems = Unused /\ waiters = Unused
  /\ dirlock = Unused /\ tablelock = Unused /\ semlock = Unused /\ cur = Unused
  /\ age = Unused /\ mine = Unused /\ opens = Unused /\ calls = Unused
BNext ==
  /\ which = "bus" /\ B!Next
  /\ UNCHANGED <<which, pc, req, resid, tries, result, got, done, nreq, stat, sect,
                 buf, owner, platter, lh_clear, lh_done, lh_result, faults, plan,
                 job, ref, retries, stuck, vn_refcount, unreclaimed, big, e_lock,
                 e_sem, e_result, reg, opened, ops, nomem, the_console, delayed,
                 todo, rlock, wlock, cs_wsem, cs_rsem, ring, head, tail, ls_lock,
                 ls_wbusy, pending, wirq, sending, rx, nin, out, accepted, taken,
                 overrun, now, began, secs1, tv_nsec, ts, num_secs, wanted, lbolt,
                 tick, knowndevs, kd_fs, mounts, p_cwd, bootfs_vnode, open, op, tmp,
                 swapvnodes, mixed, dents, sems, waiters, dirlock, tablelock,
                 semlock, cur, age, mine, opens, calls>>

KInit ==
  /\ which = "clock" /\ K!Init
  /\ req = Unused /\ resid = Unused /\ tries = Unused /\ result = Unused
  /\ got = Unused /\ done = Unused /\ nreq = Unused /\ stat = Unused
  /\ sect = Unused /\ buf = Unused /\ owner = Unused /\ platter = Unused
  /\ lh_clear = Unused /\ lh_done = Unused /\ lh_result = Unused /\ faults = Unused
  /\ plan = Unused /\ job = Unused /\ ref = Unused /\ retries = Unused
  /\ stuck = Unused /\ vn_refcount = Unused /\ unreclaimed = Unused /\ big = Unused
  /\ e_lock = Unused /\ e_sem = Unused /\ e_result = Unused /\ reg = Unused
  /\ opened = Unused /\ ops = Unused /\ nomem = Unused /\ panicked = Unused
  /\ the_console = Unused /\ delayed = Unused /\ todo = Unused /\ rlock = Unused
  /\ wlock = Unused /\ cs_wsem = Unused /\ cs_rsem = Unused /\ ring = Unused
  /\ head = Unused /\ tail = Unused /\ ls_lock = Unused /\ ls_wbusy = Unused
  /\ pending = Unused /\ wirq = Unused /\ sending = Unused /\ rx = Unused
  /\ nin = Unused /\ out = Unused /\ accepted = Unused /\ taken = Unused
  /\ overrun = Unused /\ cards = Unused /\ cpumask = Unused /\ self = Unused
  /\ cpus = Unused /\ cram = Unused /\ started = Unused /\ cirqe = Unused
  /\ ls_slotsinuse = Unused /\ ls_irqfuncs = Unused /\ class = Unused
  /\ found = Unused /\ irqs = Unused /\ at = Unused /\ seen = Unused
  /\ duds = Unused /\ dudsnow = Unused /\ raised = Unused /\ knowndevs = Unused
  /\ kd_fs = Unused /\ mounts = Unused /\ p_cwd = Unused /\ bootfs_vnode = Unused
  /\ open = Unused /\ op = Unused /\ tmp = Unused /\ swapvnodes = Unused
  /\ mixed = Unused /\ dents = Unused /\ sems = Unused /\ waiters = Unused
  /\ dirlock = Unused /\ tablelock = Unused /\ semlock = Unused /\ cur = Unused
  /\ age = Unused /\ mine = Unused /\ opens = Unused /\ calls = Unused
KNext ==
  /\ which = "clock" /\ K!Next
  /\ UNCHANGED <<which, req, resid, tries, result, got, done, nreq, stat, sect, buf,
                 owner, platter, lh_clear, lh_done, lh_result, faults, plan, job,
                 ref, retries, stuck, vn_refcount, unreclaimed, big, e_lock, e_sem,
                 e_result, reg, opened, ops, nomem, panicked, the_console, delayed,
                 todo, rlock, wlock, cs_wsem, cs_rsem, ring, head, tail, ls_lock,
                 ls_wbusy, pending, wirq, sending, rx, nin, out, accepted, taken,
                 overrun, cards, cpumask, self, cpus, cram, started, cirqe,
                 ls_slotsinuse, ls_irqfuncs, class, found, irqs, at, seen, duds,
                 dudsnow, raised, knowndevs, kd_fs, mounts, p_cwd, bootfs_vnode,
                 open, op, tmp, swapvnodes, mixed, dents, sems, waiters, dirlock,
                 tablelock, semlock, cur, age, mine, opens, calls>>

VInit ==
  /\ which = "vfs" /\ V!Init
  /\ pc = Unused /\ req = Unused /\ resid = Unused /\ tries = Unused
  /\ result = Unused /\ got = Unused /\ done = Unused /\ nreq = Unused
  /\ stat = Unused /\ sect = Unused /\ buf = Unused /\ owner = Unused
  /\ platter = Unused /\ lh_clear = Unused /\ lh_done = Unused /\ lh_result = Unused
  /\ faults = Unused /\ plan = Unused /\ job = Unused /\ ref = Unused
  /\ retries = Unused /\ stuck = Unused /\ unreclaimed = Unused /\ big = Unused
  /\ e_lock = Unused /\ e_sem = Unused /\ e_result = Unused /\ reg = Unused
  /\ opened = Unused /\ nomem = Unused /\ panicked = Unused /\ the_console = Unused
  /\ delayed = Unused /\ todo = Unused /\ rlock = Unused /\ wlock = Unused
  /\ cs_wsem = Unused /\ cs_rsem = Unused /\ ring = Unused /\ head = Unused
  /\ tail = Unused /\ ls_lock = Unused /\ ls_wbusy = Unused /\ pending = Unused
  /\ wirq = Unused /\ sending = Unused /\ rx = Unused /\ nin = Unused
  /\ out = Unused /\ accepted = Unused /\ taken = Unused /\ overrun = Unused
  /\ cards = Unused /\ cpumask = Unused /\ self = Unused /\ cpus = Unused
  /\ cram = Unused /\ started = Unused /\ cirqe = Unused /\ ls_slotsinuse = Unused
  /\ ls_irqfuncs = Unused /\ class = Unused /\ found = Unused /\ irqs = Unused
  /\ at = Unused /\ seen = Unused /\ duds = Unused /\ dudsnow = Unused
  /\ raised = Unused /\ now = Unused /\ began = Unused /\ secs1 = Unused
  /\ tv_nsec = Unused /\ ts = Unused /\ num_secs = Unused /\ wanted = Unused
  /\ lbolt = Unused /\ tick = Unused /\ dents = Unused /\ sems = Unused
  /\ waiters = Unused /\ dirlock = Unused /\ tablelock = Unused /\ semlock = Unused
  /\ cur = Unused /\ age = Unused /\ mine = Unused /\ opens = Unused
  /\ calls = Unused
VNext ==
  /\ which = "vfs" /\ V!Next
  /\ UNCHANGED <<which, pc, req, resid, tries, result, got, done, nreq, stat, sect,
                 buf, owner, platter, lh_clear, lh_done, lh_result, faults, plan,
                 job, ref, retries, stuck, unreclaimed, big, e_lock, e_sem,
                 e_result, reg, opened, nomem, panicked, the_console, delayed, todo,
                 rlock, wlock, cs_wsem, cs_rsem, ring, head, tail, ls_lock,
                 ls_wbusy, pending, wirq, sending, rx, nin, out, accepted, taken,
                 overrun, cards, cpumask, self, cpus, cram, started, cirqe,
                 ls_slotsinuse, ls_irqfuncs, class, found, irqs, at, seen, duds,
                 dudsnow, raised, now, began, secs1, tv_nsec, ts, num_secs, wanted,
                 lbolt, tick, dents, sems, waiters, dirlock, tablelock, semlock,
                 cur, age, mine, opens, calls>>

SInit ==
  /\ which = "semfs" /\ S!Init
  /\ req = Unused /\ tries = Unused /\ result = Unused /\ got = Unused
  /\ done = Unused /\ nreq = Unused /\ stat = Unused /\ sect = Unused
  /\ buf = Unused /\ owner = Unused /\ platter = Unused /\ lh_clear = Unused
  /\ lh_done = Unused /\ lh_result = Unused /\ faults = Unused /\ plan = Unused
  /\ job = Unused /\ ref = Unused /\ retries = Unused /\ stuck = Unused
  /\ unreclaimed = Unused /\ big = Unused /\ e_lock = Unused /\ e_sem = Unused
  /\ e_result = Unused /\ reg = Unused /\ opened = Unused /\ ops = Unused
  /\ the_console = Unused /\ delayed = Unused /\ todo = Unused /\ rlock = Unused
  /\ wlock = Unused /\ cs_wsem = Unused /\ cs_rsem = Unused /\ ring = Unused
  /\ head = Unused /\ tail = Unused /\ ls_lock = Unused /\ ls_wbusy = Unused
  /\ pending = Unused /\ wirq = Unused /\ sending = Unused /\ rx = Unused
  /\ nin = Unused /\ out = Unused /\ accepted = Unused /\ taken = Unused
  /\ overrun = Unused /\ cards = Unused /\ cpumask = Unused /\ self = Unused
  /\ cpus = Unused /\ cram = Unused /\ started = Unused /\ cirqe = Unused
  /\ ls_slotsinuse = Unused /\ ls_irqfuncs = Unused /\ class = Unused
  /\ found = Unused /\ irqs = Unused /\ at = Unused /\ seen = Unused
  /\ duds = Unused /\ dudsnow = Unused /\ raised = Unused /\ now = Unused
  /\ began = Unused /\ secs1 = Unused /\ tv_nsec = Unused /\ ts = Unused
  /\ num_secs = Unused /\ wanted = Unused /\ lbolt = Unused /\ tick = Unused
  /\ knowndevs = Unused /\ kd_fs = Unused /\ mounts = Unused /\ p_cwd = Unused
  /\ bootfs_vnode = Unused /\ open = Unused /\ op = Unused /\ tmp = Unused
  /\ swapvnodes = Unused /\ mixed = Unused
SNext ==
  /\ which = "semfs" /\ S!Next
  /\ UNCHANGED <<which, req, tries, result, got, done, nreq, stat, sect, buf, owner,
                 platter, lh_clear, lh_done, lh_result, faults, plan, job, ref,
                 retries, stuck, unreclaimed, big, e_lock, e_sem, e_result, reg,
                 opened, ops, the_console, delayed, todo, rlock, wlock, cs_wsem,
                 cs_rsem, ring, head, tail, ls_lock, ls_wbusy, pending, wirq,
                 sending, rx, nin, out, accepted, taken, overrun, cards, cpumask,
                 self, cpus, cram, started, cirqe, ls_slotsinuse, ls_irqfuncs,
                 class, found, irqs, at, seen, duds, dudsnow, raised, now, began,
                 secs1, tv_nsec, ts, num_secs, wanted, lbolt, tick, knowndevs,
                 kd_fs, mounts, p_cwd, bootfs_vnode, open, op, tmp, swapvnodes,
                 mixed>>

Init == LInit \/ EInit \/ CInit \/ IInit \/ BInit \/ KInit \/ VInit \/ SInit
Next == LNext \/ ENext \/ CNext \/ INext \/ BNext \/ KNext \/ VNext \/ SNext

Spec == /\ Init /\ [][Next]_vars

(* What goes to a device or comes from it arrives whole, in order and at   *)
(* the one who asked, whatever interrupts, faults, retries and other users *)
(* come in between: the sectors of the disk are not mixed and its success  *)
(* is real (a write repeated by sfs_rwblock excepted), an answer of emufs  *)
(* is that to the request, polled console output does not upset output     *)
(* paced by interrupts and no write is torn, and readers get the           *)
(* characters that were kept, once each.                                   *)
TransfersIntact ==
  /\ which = "lhd" => /\ L!SectorsNotMixed
                      /\ L!SuccessIsReal
  /\ which = "emu" => E!AnswersMatch
  /\ which = "conout" => /\ C!PortNotOverrun
                         /\ C!WritesInOnePiece
  /\ which = "conin" => I!InputInOrder

(* What somebody has open stays, and what nobody has goes: the vnodes of   *)
(* emufs are counted, their handles are open (but where a device that      *)
(* shares handles is used by VOP_CREAT), and no lock is kept (but for      *)
(* vfs_biglock when kmalloc fails); a vnode of the VFS has one reference   *)
(* for each that uses it, and its volume stays mounted; an open semaphore  *)
(* of semfs is not destroyed, and an unlinked one that nobody has open is  *)
(* gone. Files are never taken for directories, nor one volume or device   *)
(* for another.                                                            *)
OpenOnesStay ==
  /\ which = "emu" => /\ E!VnodesAreOpen
                      /\ E!DirectoriesApart
                      /\ E!LocksGivenBack
  /\ which = "vfs" => /\ V!RefsExact
                      /\ V!MountedWhileInUse
                      /\ V!DirectoriesAreDirectories
                      /\ V!NeverAcross
                      /\ V!NamesApart
  /\ which = "semfs" => /\ S!OpenOnesStay
                        /\ S!NoneLeftBehind

(* After autoconfiguration and the start of the processors every card has  *)
(* the one driver of its kind, none with a driver is left out, and         *)
(* processors are told the numbers of their structures, whatever probes    *)
(* fail.                                                                   *)
CardsWellAttached ==
  /\ which = "bus" => /\ B!CardsWellAttached
                      /\ B!AllAttached
                      /\ B!CpuNumbersAgree

(* gettime gives a time the clock showed although it reads two registers,  *)
(* clocksleep does not come back early, timespec_sub and timespec_add are  *)
(* inverse, and a V that would overflow the count of a semfs semaphore     *)
(* fails.                                                                  *)
TimeAndCounts == [][
  /\ which = "clock" => /\ K!TimeShown
                        /\ K!SleptLongEnough
                        /\ K!DifferenceAddsUp
  /\ which = "semfs" => \A t \in {1, 2, 3} : S!WriteNeverLowers(t)]_vars

=============================================================================
