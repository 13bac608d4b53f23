----------------------------- MODULE MCProgress -----------------------------
(***************************************************************************)
(* What must happen in the end, under the fairness of each component, on   *)
(* small instances: synchronisation (Synch), one process that forks        *)
(* (Process), execv (Exec), the kernel tests (KernelTests), the disk       *)
(* (Lhd), the emulator file system (Emu), console output (Console) and bus *)
(* interrupts (Lamebus). A behaviour is one of one component; "which" says *)
(* whose.                                                                  *)
(***************************************************************************)
EXTENDS Naturals, Sequences, FiniteSets

VARIABLES which, sem_count, sem_wchan, lk_owner, lk_spinlock, cv_spinlock, cv_wchan,
          pc, op, obj, cond, table, last_pid, stage, p_pid, father_pid, child_list,
          p_numthreads, p_status, cv_waiters, new, idx, target, got, execthrottle,
          argv, image, buf, held, p_addrspace, active, spaces, old, name, result,
          stack, nomem, calls, panicked, test, prog, count, sleeping, holder, owes,
          val, spins, intr, printed, dir, data, fd, trouble, complaint, outcome,
          req, resid, tries, done, nreq, stat, sect, owner, platter, lh_clear,
          lh_done, lh_result, faults, plan, job, ref, retries, stuck, vn_refcount,
          unreclaimed, big, e_lock, e_sem, e_result, reg, opened, ops, the_console,
          delayed, todo, rlock, wlock, cs_wsem, cs_rsem, ring, head, tail, ls_lock,
          ls_wbusy, pending, wirq, sending, rx, nin, out, accepted, taken, overrun,
          cards, cpumask, self, cpus, cram, started, cirqe, ls_slotsinuse,
          ls_irqfuncs, class, found, irqs, at, seen, duds, dudsnow, raised

vars == <<which, sem_count, sem_wchan, lk_owner, lk_spinlock, cv_spinlock, cv_wchan,
          pc, op, obj, cond, table, last_pid, stage, p_pid, father_pid, child_list,
          p_numthreads, p_status, cv_waiters, new, idx, target, got, execthrottle,
          argv, image, buf, held, p_addrspace, active, spaces, old, name, result,
          stack, nomem, calls, panicked, test, prog, count, sleeping, holder, owes,
          val, spins, intr, printed, dir, data, fd, trouble, complaint, outcome,
          req, resid, tries, done, nreq, stat, sect, owner, platter, lh_clear,
          lh_done, lh_result, faults, plan, job, ref, retries, stuck, vn_refcount,
          unreclaimed, big, e_lock, e_sem, e_result, reg, opened, ops, the_console,
          delayed, todo, rlock, wlock, cs_wsem, cs_rsem, ring, head, tail, ls_lock,
          ls_wbusy, pending, wirq, sending, rx, nin, out, accepted, taken, overrun,
          cards, cpumask, self, cpus, cram, started, cirqe, ls_slotsinuse,
          ls_irqfuncs, class, found, irqs, at, seen, duds, dudsnow, raised>>

EmuPlans == {[fresh |-> TRUE, creat |-> TRUE], [fresh |-> FALSE, creat |-> FALSE]}
Card(k, v) == [kind |-> k, version |-> v]
BusLayouts == {<<Card("emufs", 1), Card("unknown", 1), Card("disk", 2), Card("none", 0)>>}
ProgressTests ==
  [name : {"semtest", "locktest", "cvtest", "cvtest2", "threadtest", "fs1", "fs3"}, k : {0}]
  \cup [name : {"semu"}, k : {8, 17, 19}]

Y == INSTANCE Synch WITH Threads <- {1, 2, 3}, Locks <- {11}, Cvs <- {21},
  Sems <- {31}, MaxCount <- 1, NoThread <- 0, NoLock <- 10, NoCv <- 20
P == INSTANCE Process WITH Procs <- {1, 2}, KProc <- 10, NoProc <- 0, MAX_PROC <- 2,
  Forkers <- {1}, Options <- {"plain"},
  Failures <- {"proc_create", "as_copy", "thread_fork", "runprogram"}
X == INSTANCE Exec WITH Proc <- {1, 2}, EXEC_BIGBUF_THROTTLE <- 1, PAGE_SIZE <- 4,
  ARG_MAX <- 9, Word <- 4, StackSize <- 28, Argvs <- {<<3, 4, 1>>, <<3, 0>>},
  Images <- {"good"}, MaxNoMem <- 0, MaxCalls <- 2
K == INSTANCE KernelTests WITH Tests <- ProgressTests, NTHREADS <- 2, NLOOPS <- 1,
  NCVS <- 1, NSTRESS <- 2, NCHUNKS <- 1, CountMod <- 5, Blocks <- 5
L == INSTANCE Lhd WITH Thread <- {1, 2}, Sector <- {1}, Sfs <- {1}, Tries <- 1,
  MaxRequests <- 1, MaxFaults <- 1
E == INSTANCE Emu WITH Thread <- {1, 2}, Handle <- {1}, Dirs <- {},
  Plans <- EmuPlans, Retries <- 1, MaxFaults <- 1, MaxNoMem <- 0, MaxOps <- 1
C == INSTANCE Console WITH Writer <- {1, 2}, Reader <- {}, Kernel <- {5},
  Line <- <<"x", "nl">>, BufferSize <- 3, DelaySize <- 1, MaxInput <- 0,
  MaxPrints <- 1
B == INSTANCE Lamebus WITH Slots <- 0 .. 3, Layouts <- BusLayouts,
  CpuMasks <- {{0, 2}}, MaxDuds <- 2, MaxRaised <- 2

(* The components that are not looked at have nothing to show. *)
Unused == 0

YInit ==
  /\ which = "synch" /\ Y!Init
  /\ table = Unused /\ last_pid = Unused /\ stage = Unused /\ p_pid = Unused
  /\ father_pid = Unused /\ child_list = Unused /\ p_numthreads = Unused
  /\ p_status = Unused /\ cv_waiters = Unused /\ new = Unused /\ idx = Unused
  /\ target = Unused /\ got = Unused /\ execthrottle = Unused /\ argv = Unused
  /\ image = Unused /\ buf = Unused /\ held = Unused /\ p_addrspace = Unused
  /\ active = Unused /\ spaces = Unused /\ old = Unused /\ name = Unused
  /\ result = Unused /\ stack = Unused /\ nomem = Unused /\ calls = Unused
  /\ panicked = Unused /\ test = Unused /\ prog = Unused /\ count = Unused
  /\ sleeping = Unused /\ holder = Unused /\ owes = Unused /\ val = Unused
  /\ spins = Unused /\ intr = Unused /\ printed = Unused /\ dir = Unused
  /\ data = Unused /\ fd = Unused /\ trouble = Unused /\ complaint = Unused
  /\ outcome = Unused /\ req = Unused /\ resid = Unused /\ tries = Unused
  /\ done = Unused /\ nreq = Unused /\ stat = Unused /\ sect = Unused
  /\ owner = Unused /\ platter = Unused /\ lh_clear = Unused /\ lh_done = Unused
  /\ lh_result = Unused /\ faults = Unused /\ plan = Unused /\ job = Unused
  /\ ref = Unused /\ retries = Unused /\ stuck = Unused /\ vn_refcount = Unused
  /\ unreclaimed = Unused /\ big = Unused /\ e_lock = Unused /\ e_sem = Unused
  /\ e_result = Unused /\ reg = Unused /\ opened = Unused /\ ops = Unused
  /\ the_console = Unused /\ delayed = Unused /\ todo = Unused /\ rlock = Unused
  /\ wlock = Unused /\ cs_wsem = Unused /\ cs_rsem = Unused /\ ring = Unused
  /\ head = Unused /\ tail = Unused /\ ls_lock = Unused /\ ls_wbusy = Unused
  /\ pending = Unused /\ wirq = Unused /\ sending = Unused /\ rx = Unused
  /\ nin = Unused /\ out = Unused /\ accepted = Unused /\ taken = Unused
  /\ overrun = Unused /\ cards = Unused /\ cpumask = Unused /\ self = Unused
  /\ cpus = Unused /\ cram = Unused /\ started = Unused /\ cirqe = Unused
  /\ ls_slotsinuse = Unused /\ ls_irqfuncs = Unused /\ class = Unused
  /\ found = Unused /\ irqs = Unused /\ at = Unused /\ seen = Unused
  /\ duds = Unused /\ dudsnow = Unused /\ raised = Unused
YNext ==
  /\ which = "synch" /\ Y!Next
  /\ UNCHANGED <<which, table, last_pid, stage, p_pid, father_pid, child_list,
                 p_numthreads, p_status, cv_waiters, new, idx, target, got,
                 execthrottle, argv, image, buf, held, p_addrspace, active, spaces,
                 old, name, result, stack, nomem, calls, panicked, test, prog,
                 count, sleeping, holder, owes, val, spins, intr, printed, dir,
                 data, fd, trouble, complaint, outcome, req, resid, tries, done,
                 nreq, stat, sect, owner, platter, lh_clear, lh_done, lh_result,
                 faults, plan, job, ref, retries, stuck, vn_refcount, unreclaimed,
                 big, e_lock, e_sem, e_result, reg, opened, ops, the_console,
                 delayed, todo, rlock, wlock, cs_wsem, cs_rsem, ring, head, tail,
                 ls_lock, ls_wbusy, pending, wirq, sending, rx, nin, out, accepted,
                 taken, overrun, cards, cpumask, self, cpus, cram, started, cirqe,
                 ls_slotsinuse, ls_irqfuncs, class, found, irqs, at, seen, duds,
                 dudsnow, raised>>

PInit ==
  /\ which = "process" /\ P!Init
  /\ sem_count = Unused /\ sem_wchan = Unused /\ lk_spinlock = Unused
  /\ cv_spinlock = Unused /\ cv_wchan = Unused /\ op = Unused /\ obj = Unused
  /\ cond = Unused /\ execthrottle = Unused /\ argv = Unused /\ image = Unused
  /\ buf = Unused /\ held = Unused /\ p_addrspace = Unused /\ active = Unused
  /\ spaces = Unused /\ old = Unused /\ name = Unused /\ result = Unused
  /\ stack = Unused /\ nomem = Unused /\ calls = Unused /\ panicked = Unused
  /\ test = Unused /\ prog = Unused /\ count = Unused /\ sleeping = Unused
  /\ holder = Unused /\ owes = Unused /\ val = Unused /\ spins = Unused
  /\ intr = Unused /\ printed = Unused /\ dir = Unused /\ data = Unused
  /\ fd = Unused /\ trouble = Unused /\ complaint = Unused /\ outcome = Unused
  /\ req = Unused /\ resid = Unused /\ tries = Unused /\ done = Unused
  /\ nreq = Unused /\ stat = Unused /\ sect = Unused /\ owner = Unused
  /\ platter = Unused /\ lh_clear = Unused /\ lh_done = Unused /\ lh_result = Unused
  /\ faults = Unused /\ plan = Unused /\ job = Unused /\ ref = Unused
  /\ retries = Unused /\ stuck = Unused /\ vn_refcount = Unused
  /\ unreclaimed = Unused /\ big = Unused /\ e_lock = Unused /\ e_sem = Unused
  /\ e_result = Unused /\ reg = Unused /\ opened = Unused /\ ops = Unused
  /\ the_console = Unused /\ delayed = Unused /\ todo = Unused /\ rlock = Unused
  /\ wlock = Unused /\ cs_wsem = Unused /\ cs_rsem = Unused /\ ring = Unused
  /\ head = Unused /\ tail = Unused /\ ls_lock = Unused /\ ls_wbusy = Unused
  /\ pending = Unused /\ wirq = Unused /\ sending = Unused /\ rx = Unused
  /\ nin = Unused /\ out = Unused /\ accepted = Unused /\ taken = Unused
  /\ overrun = Unused /\ cards = Unused /\ cpumask = Unused /\ self = Unused
  /\ cpus = Unused /\ cram = Unused /\ started = Unused /\ cirqe = Unused
  /\ ls_slotsinuse = Unused /\ ls_irqfuncs = Unused /\ class = Unused
  /\ found = Unused /\ irqs = Unused /\ at = Unused /\ seen = Unused
  /\ duds = Unused /\ dudsnow = Unused /\ raised = Unused
PNext ==
  /\ which = "process" /\ P!Next
  /\ UNCHANGED <<which, sem_count, sem_wchan, lk_spinlock, cv_spinlock, cv_wchan,
                 op, obj, cond, execthrottle, argv, image, buf, held, p_addrspace,
                 active, spaces, old, name, result, stack, nomem, calls, panicked,
                 test, prog, count, sleeping, holder, owes, val, spins, intr,
                 printed, dir, data, fd, trouble, complaint, outcome, req, resid,
                 tries, done, nreq, stat, sect, owner, platter, lh_clear, lh_done,
                 lh_result, faults, plan, job, ref, retries, stuck, vn_refcount,
                 unreclaimed, big, e_lock, e_sem, e_result, reg, opened, ops,
                 the_console, delayed, todo, rlock, wlock, cs_wsem, cs_rsem, ring,
                 head, tail, ls_lock, ls_wbusy, pending, wirq, sending, rx, nin,
                 out, accepted, taken, overrun, cards, cpumask, self, cpus, cram,
                 started, cirqe, ls_slotsinuse, ls_irqfuncs, class, found, irqs, at,
                 seen, duds, dudsnow, raised>>

XInit ==
  /\ which = "exec" /\ X!Init
  /\ sem_count = Unused /\ sem_wchan = Unused /\ lk_owner = Unused
  /\ lk_spinlock = Unused /\ cv_spinlock = Unused /\ cv_wchan = Unused
  /\ op = Unused /\ obj = Unused /\ cond = Unused /\ table = Unused
  /\ last_pid = Unused /\ stage = Unused /\ p_pid = Unused /\ father_pid = Unused
  /\ child_list = Unused /\ p_numthreads = Unused /\ p_status = Unused
  /\ cv_waiters = Unused /\ new = Unused /\ idx = Unused /\ target = Unused
  /\ got = Unused /\ test = Unused /\ prog = Unused /\ count = Unused
  /\ sleeping = Unused /\ holder = Unused /\ owes = Unused /\ val = Unused
  /\ spins = Unused /\ intr = Unused /\ printed = Unused /\ dir = Unused
  /\ data = Unused /\ fd = Unused /\ trouble = Unused /\ complaint = Unused
  /\ outcome = Unused /\ req = Unused /\ resid = Unused /\ tries = Unused
  /\ done = Unused /\ nreq = Unused /\ stat = Unused /\ sect = Unused
  /\ owner = Unused /\ platter = Unused /\ lh_clear = Unused /\ lh_done = Unused
  /\ lh_result = Unused /\ faults = Unused /\ plan = Unused /\ job = Unused
  /\ ref = Unused /\ retries = Unused /\ stuck = Unused /\ vn_refcount = Unused
  /\ unreclaimed = Unused /\ big = Unused /\ e_lock = Unused /\ e_sem = Unused
  /\ e_result = Unused /\ reg = Unused /\ opened = Unused /\ ops = Unused
  /\ the_console = Unused /\ delayed = Unused /\ todo = Unused /\ rlock = Unused
  /\ wlock = Unused /\ cs_wsem = Unused /\ cs_rsem = Unused /\ ring = Unused
  /\ head = Unused /\ tail = Unused /\ ls_lock = Unused /\ ls_wbusy = Unused
  /\ pending = Unused /\ wirq = Unused /\ sending = Unused /\ rx = Unused
  /\ nin = Unused /\ out = Unused /\ accepted = Unused /\ taken = Unused
  /\ overrun = Unused /\ cards = Unused /\ cpumask = Unused /\ self = Unused
  /\ cpus = Unused /\ cram = Unused /\ started = Unused /\ cirqe = Unused
  /\ ls_slotsinuse = Unused /\ ls_irqfuncs = Unused /\ class = Unused
  /\ found = Unused /\ irqs = Unused /\ at = Unused /\ seen = Unused
  /\ duds = Unused /\ dudsnow = Unused /\ raised = Unused
XNext ==
  /\ which = "exec" /\ X!Next
  /\ UNCHANGED <<which, sem_count, sem_wchan, lk_owner, lk_spinlock, cv_spinlock,
                 cv_wchan, op, obj, cond, table, last_pid, stage, p_pid, father_pid,
                 child_list, p_numthreads, p_status, cv_waiters, new, idx, target,
                 got, test, prog, count, sleeping, holder, owes, val, spins, intr,
                 printed, dir, data, fd, trouble, complaint, outcome, req, resid,
                 tries, done, nreq, stat, sect, owner, platter, lh_clear, lh_done,
                 lh_result, faults, plan, job, ref, retries, stuck, vn_refcount,
                 unreclaimed, big, e_lock, e_sem, e_result, reg, opened, ops,
                 the_console, delayed, todo, rlock, wlock, cs_wsem, cs_rsem, ring,
                 head, tail, ls_lock, ls_wbusy, pending, wirq, sending, rx, nin,
                 out, accepted, taken, overrun, cards, cpumask, self, cpus, cram,
                 started, cirqe, ls_slotsinuse, ls_irqfuncs, class, found, irqs, at,
                 seen, duds, dudsnow, raised>>

KInit ==
  /\ which = "tests" /\ K!Init
  /\ sem_count = Unused /\ sem_wchan = Unused /\ lk_owner = Unused
  /\ lk_spinlock = Unused /\ cv_spinlock = Unused /\ cv_wchan = Unused
  /\ op = Unused /\ obj = Unused /\ cond = Unused /\ table = Unused
  /\ last_pid = Unused /\ stage = Unused /\ p_pid = Unused /\ father_pid = Unused
  /\ child_list = Unused /\ p_numthreads = Unused /\ p_status = Unused
  /\ cv_waiters = Unused /\ new = Unused /\ idx = Unused /\ target = Unused
  /\ got = Unused /\ execthrottle = Unused /\ argv = Unused /\ image = Unused
  /\ buf = Unused /\ held = Unused /\ p_addrspace = Unused /\ active = Unused
  /\ spaces = Unused /\ old = Unused /\ name = Unused /\ result = Unused
  /\ stack = Unused /\ nomem = Unused /\ calls = Unused /\ panicked = Unused
  /\ req = Unused /\ resid = Unused /\ tries = Unused /\ done = Unused
  /\ nreq = Unused /\ stat = Unused /\ sect = Unused /\ owner = Unused
  /\ platter = Unused /\ lh_clear = Unused /\ lh_done = Unused /\ lh_result = Unused
  /\ faults = Unused /\ plan = Unused /\ job = Unused /\ ref = Unused
  /\ retries = Unused /\ stuck = Unused /\ vn_refcount = Unused
  /\ unreclaimed = Unused /\ big = Unused /\ e_lock = Unused /\ e_sem = Unused
  /\ e_result = Unused /\ reg = Unused /\ opened = Unused /\ ops = Unused
  /\ the_console = Unused /\ delayed = Unused /\ todo = Unused /\ rlock = Unused
  /\ wlock = Unused /\ cs_wsem = Unused /\ cs_rsem = Unused /\ ring = Unused
  /\ head = Unused /\ tail = Unused /\ ls_lock = Unused /\ ls_wbusy = Unused
  /\ pending = Unused /\ wirq = Unused /\ sending = Unused /\ rx = Unused
  /\ nin = Unused /\ out = Unused /\ accepted = Unused /\ taken = Unused
  /\ overrun = Unused /\ cards = Unused /\ cpumask = Unused /\ self = Unused
  /\ cpus = Unused /\ cram = Unused /\ started = Unused /\ cirqe = Unused
  /\ ls_slotsinuse = Unused /\ ls_irqfuncs = Unused /\ class = Unused
  /\ found = Unused /\ irqs = Unused /\ at = Unused /\ seen = Unused
  /\ duds = Unused /\ dudsnow = Unused /\ raised = Unused
KNext ==
  /\ which = "tests" /\ K!Next
  /\ UNCHANGED <<which, sem_count, sem_wchan, lk_owner, lk_spinlock, cv_spinlock,
                 cv_wchan, op, obj, cond, table, last_pid, stage, p_pid, father_pid,
                 child_list, p_numthreads, p_status, cv_waiters, new, idx, target,
                 got, execthrottle, argv, image, buf, held, p_addrspace, active,
                 spaces, old, name, result, stack, nomem, calls, panicked, req,
                 resid, tries, done, nreq, stat, sect, owner, platter, lh_clear,
                 lh_done, lh_result, faults, plan, job, ref, retries, stuck,
                 vn_refcount, unreclaimed, big, e_lock, e_sem, e_result, reg,
                 opened, ops, the_console, delayed, todo, rlock, wlock, cs_wsem,
                 cs_rsem, ring, head, tail, ls_lock, ls_wbusy, pending, wirq,
                 sending, rx, nin, out, accepted, taken, overrun, cards, cpumask,
                 self, cpus, cram, started, cirqe, ls_slotsinuse, ls_irqfuncs,
                 class, found, irqs, at, seen, duds, dudsnow, raised>>

LInit ==
  /\ which = "lhd" /\ L!Init
  /\ sem_count = Unused /\ sem_wchan = Unused /\ lk_owner = Unused
  /\ lk_spinlock = Unused /\ cv_spinlock = Unused /\ cv_wchan = Unused
  /\ op = Unused /\ obj = Unused /\ cond = Unused /\ table = Unused
  /\ last_pid = Unused /\ stage = Unused /\ p_pid = Unused /\ father_pid = Unused
  /\ child_list = Unused /\ p_numthreads = Unused /\ p_status = Unused
  /\ cv_waiters = Unused /\ new = Unused /\ idx = Unused /\ target = Unused
  /\ execthrottle = Unused /\ argv = Unused /\ image = Unused /\ held = Unused
  /\ p_addrspace = Unused /\ active = Unused /\ spaces = Unused /\ old = Unused
  /\ name = Unused /\ stack = Unused /\ nomem = Unused /\ calls = Unused
  /\ panicked = Unused /\ test = Unused /\ prog = Unused /\ count = Unused
  /\ sleeping = Unused /\ holder = Unused /\ owes = Unused /\ val = Unused
  /\ spins = Unused /\ intr = Unused /\ printed = Unused /\ dir = Unused
  /\ data = Unused /\ fd = Unused /\ trouble = Unused /\ complaint = Unused
  /\ outcome = Unused /\ plan = Unused /\ job = Unused /\ ref = Unused
  /\ retries = Unused /\ stuck = Unused /\ vn_refcount = Unused
  /\ unreclaimed = Unused /\ big = Unused /\ e_lock = Unused /\ e_sem = Unused
  /\ e_result = Unused /\ reg = Unused /\ opened = Unused /\ ops = Unused
  /\ the_console = Unused /\ delayed = Unused /\ todo = Unused /\ rlock = Unused
  /\ wlock = Unused /\ cs_wsem = Unused /\ cs_rsem = Unused /\ ring = Unused
  /\ head = Unused /\ tail = Unused /\ ls_lock = Unused /\ ls_wbusy = Unused
  /\ pending = Unused /\ wirq = Unused /\ sending = Unused /\ rx = Unused
  /\ nin = Unused /\ out = Unused /\ accepted = Unused /\ taken = Unused
  /\ overrun = Unused /\ cards = Unused /\ cpumask = Unused /\ self = Unused
  /\ cpus = Unused /\ cram = Unused /\ started = Unused /\ cirqe = Unused
  /\ ls_slotsinuse = Unused /\ ls_irqfuncs = Unused /\ class = Unused
  /\ found = Unused /\ irqs = Unused /\ at = Unused /\ seen = Unused
  /\ duds = Unused /\ dudsnow = Unused /\ raised = Unused
LNext ==
  /\ which = "lhd" /\ L!Next
  /\ UNCHANGED <<which, sem_count, sem_wchan, lk_owner, lk_spinlock, cv_spinlock,
                 cv_wchan, op, obj, cond, table, last_pid, stage, p_pid, father_pid,
                 child_list, p_numthreads, p_status, cv_waiters, new, idx, target,
                 execthrottle, argv, image, held, p_addrspace, active, spaces, old,
                 name, stack, nomem, calls, panicked, test, prog, count, sleeping,
                 holder, owes, val, spins, intr, printed, dir, data, fd, trouble,
                 complaint, outcome, plan, job, ref, retries, stuck, vn_refcount,
                 unreclaimed, big, e_lock, e_sem, e_result, reg, opened, ops,
                 the_console, delayed, todo, rlock, wlock, cs_wsem, cs_rsem, ring,
                 head, tail, ls_lock, ls_wbusy, pending, wirq, sending, rx, nin,
                 out, accepted, taken, overrun, cards, cpumask, self, cpus, cram,
                 started, cirqe, ls_slotsinuse, ls_irqfuncs, class, found, irqs, at,
                 seen, duds, dudsnow, raised>>

EInit ==
  /\ which = "emu" /\ E!Init
  /\ sem_count = Unused /\ sem_wchan = Unused /\ lk_owner = Unused
  /\ lk_spinlock = Unused /\ cv_spinlock = Unused /\ cv_wchan = Unused
  /\ op = Unused /\ obj = Unused /\ cond = Unused /\ table = Unused
  /\ last_pid = Unused /\ stage = Unused /\ p_pid = Unused /\ father_pid = Unused
  /\ child_list = Unused /\ p_numthreads = Unused /\ p_status = Unused
  /\ cv_waiters = Unused /\ new = Unused /\ idx = Unused /\ target = Unused
  /\ got = Unused /\ execthrottle = Unused /\ argv = Unused /\ image = Unused
  /\ buf = Unused /\ held = Unused /\ p_addrspace = Unused /\ active = Unused
  /\ spaces = Unused /\ old = Unused /\ name = Unused /\ result = Unused
  /\ stack = Unused /\ calls = Unused /\ test = Unused /\ prog = Unused
  /\ count = Unused /\ sleeping = Unused /\ holder = Unused /\ owes = Unused
  /\ val = Unused /\ spins = Unused /\ intr = Unused /\ printed = Unused
  /\ dir = Unused /\ data = Unused /\ fd = Unused /\ trouble = Unused
  /\ complaint = Unused /\ outcome = Unused /\ req = Unused /\ resid = Unused
  /\ tries = Unused /\ done = Unused /\ nreq = Unused /\ stat = Unused
  /\ sect = Unused /\ owner = Unused /\ platter = Unused /\ lh_clear = Unused
  /\ lh_done = Unused /\ lh_result = Unused /\ the_console = Unused
  /\ delayed = Unused /\ todo = Unused /\ rlock = Unused /\ wlock = Unused
  /\ cs_wsem = Unused /\ cs_rsem = Unused /\ ring = Unused /\ head = Unused
  /\ tail = Unused /\ ls_lock = Unused /\ ls_wbusy = Unused /\ pending = Unused
  /\ wirq = Unused /\ sending = Unused /\ rx = Unused /\ nin = Unused
  /\ out = Unused /\ accepted = Unused /\ taken = Unused /\ overrun = Unused
  /\ cards = Unused /\ cpumask = Unused /\ self = Unused /\ cpus = Unused
  /\ cram = Unused /\ started = Unused /\ cirqe = Unused /\ ls_slotsinuse = Unused
  /\ ls_irqfuncs = Unused /\ class = Unused /\ found = Unused /\ irqs = Unused
  /\ at = Unused /\ seen = Unused /\ duds = Unused /\ dudsnow = Unused
  /\ raised = Unused
ENext ==
  /\ which = "emu" /\ E!Next
  /\ UNCHANGED <<which, sem_count, sem_wchan, lk_owner, lk_spinlock, cv_spinlock,
                 cv_wchan, op, obj, cond, table, last_pid, stage, p_pid, father_pid,
                 child_list, p_numthreads, p_status, cv_waiters, new, idx, target,
                 got, execthrottle, argv, image, buf, held, p_addrspace, active,
                 spaces, old, name, result, stack, calls, test, prog, count,
                 sleeping, holder, owes, val, spins, intr, printed, dir, data, fd,
                 trouble, complaint, outcome, req, resid, tries, done, nreq, stat,
                 sect, owner, platter, lh_clear, lh_done, lh_result, the_console,
                 delayed, todo, rlock, wlock, cs_wsem, cs_rsem, ring, head, tail,
                 ls_lock, ls_wbusy, pending, wirq, sending, rx, nin, out, accepted,
                 taken, overrun, cards, cpumask, self, cpus, cram, started, cirqe,
                 ls_slotsinuse, ls_irqfuncs, class, found, irqs, at, seen, duds,
                 dudsnow, raised>>

CInit ==
  /\ which = "conout" /\ C!Init
  /\ sem_count = Unused /\ sem_wchan = Unused /\ lk_owner = Unused
  /\ lk_spinlock = Unused /\ cv_spinlock = Unused /\ cv_wchan = Unused
  /\ op = Unused /\ obj = Unused /\ cond = Unused /\ table = Unused
  /\ last_pid = Unused /\ stage = Unused /\ p_pid = Unused /\ father_pid = Unused
  /\ child_list = Unused /\ p_numthreads = Unused /\ p_status = Unused
  /\ cv_waiters = Unused /\ new = Unused /\ idx = Unused /\ target = Unused
  /\ got = Unused /\ execthrottle = Unused /\ argv = Unused /\ image = Unused
  /\ buf = Unused /\ held = Unused /\ p_addrspace = Unused /\ active = Unused
  /\ spaces = Unused /\ old = Unused /\ name = Unused /\ result = Unused
  /\ stack = Unused /\ nomem = Unused /\ calls = Unused /\ test = Unused
  /\ prog = Unused /\ count = Unused /\ sleeping = Unused /\ holder = Unused
  /\ owes = Unused /\ val = Unused /\ spins = Unused /\ intr = Unused
  /\ printed = Unused /\ dir = Unused /\ data = Unused /\ fd = Unused
  /\ trouble = Unused /\ complaint = Unused /\ outcome = Unused /\ req = Unused
  /\ resid = Unused /\ tries = Unused /\ done = Unused /\ nreq = Unused
  /\ stat = Unused /\ sect = Unused /\ owner = Unused /\ platter = Unused
  /\ lh_clear = Unused /\ lh_done = Unused /\ lh_result = Unused /\ faults = Unused
  /\ plan = Unused /\ job = Unused /\ ref = Unused /\ retries = Unused
  /\ stuck = Unused /\ vn_refcount = Unused /\ unreclaimed = Unused /\ big = Unused
  /\ e_lock = Unused /\ e_sem = Unused /\ e_result = Unused /\ reg = Unused
  /\ opened = Unused /\ ops = Unused /\ cards = Unused /\ cpumask = Unused
  /\ self = Unused /\ cpus = Unused /\ cram = Unused /\ started = Unused
  /\ cirqe = Unused /\ ls_slotsinuse = Unused /\ ls_irqfuncs = Unused
  /\ class = Unused /\ found = Unused /\ irqs = Unused /\ at = Unused
  /\ seen = Unused /\ duds = Unused /\ dudsnow = Unused /\ raised = Unused
CNext ==
  /\ which = "conout" /\ C!Next
  /\ UNCHANGED <<which, sem_count, sem_wchan, lk_owner, lk_spinlock, cv_spinlock,
                 cv_wchan, op, obj, cond, table, last_pid, stage, p_pid, father_pid,
                 child_list, p_numthreads, p_status, cv_waiters, new, idx, target,
                 got, execthrottle, argv, image, buf, held, p_addrspace, active,
                 spaces, old, name, result, stack, nomem, calls, test, prog, count,
                 sleeping, holder, owes, val, spins, intr, printed, dir, data, fd,
                 trouble, complaint, outcome, req, resid, tries, done, nreq, stat,
                 sect, owner, platter, lh_clear, lh_done, lh_result, faults, plan,
                 job, ref, retries, stuck, vn_refcount, unreclaimed, big, e_lock,
                 e_sem, e_result, reg, opened, ops, cards, cpumask, self, cpus,
                 cram, started, cirqe, ls_slotsinuse, ls_irqfuncs, class, found,
                 irqs, at, seen, duds, dudsnow, raised>>

BInit ==
  /\ which = "bus" /\ B!Init
  /\ sem_count = Unused /\ sem_wchan = Unused /\ lk_owner = Unused
  /\ lk_spinlock = Unused /\ cv_spinlock = Unused /\ cv_wchan = Unused
  /\ pc = Unused /\ op = Unused /\ obj = Unused /\ cond = Unused /\ table = Unused
  /\ last_pid = Unused /\ stage = Unused /\ p_pid = Unused /\ father_pid = Unused
  /\ child_list = Unused /\ p_numthreads = Unused /\ p_status = Unused
  /\ cv_waiters = Unused /\ new = Unused /\ idx = Unused /\ target = Unused
  /\ got = Unused /\ execthrottle = Unused /\ argv = Unused /\ image = Unused
  /\ buf = Unused /\ held = Unused /\ p_addrspace = Unused /\ active = Unused
  /\ spaces = Unused /\ old = Unused /\ name = Unused /\ result = Unused
  /\ stack = Unused /\ nomem = Unused /\ calls = Unused /\ test = Unused
  /\ prog = Unused /\ count = Unused /\ sleeping = Unused /\ holder = Unused
  /\ owes = Unused /\ val = Unused /\ spins = Unused /\ intr = Unused
  /\ printed = Unused /\ dir = Unused /\ data = Unused /\ fd = Unused
  /\ trouble = Unused /\ complaint = Unused /\ outcome = Unused /\ req = Unused
  /\ resid = Unused /\ tries = Unused /\ done = Unused /\ nreq = Unused
  /\ stat = Unused /\ sect = Unused /\ owner = Unused /\ platter = Unused
  /\ lh_clear = Unused /\ lh_done = Unused /\ lh_result = Unused /\ faults = Unused
  /\ plan = Unused /\ job = Unused /\ ref = Unused /\ retries = Unused
  /\ stuck = Unused /\ vn_refcount = Unused /\ unreclaimed = Unused /\ big = Unused
  /\ e_lock = Unused /\ e_sem = Unused /\ e_result = Unused /\ reg = Unused
  /\ opened = Unused /\ ops = Unused /\ the_console = Unused /\ delayed = Unused
  /\ todo = Unused /\ rlock = Unused /\ wlock = Unused /\ cs_wsem = Unused
  /\ cs_rsem = Unused /\ ring = Unused /\ head = Unused /\ tail = Unused
  /\ ls_lock = Unused /\ ls_wbusy = Unused /\ pending = Unused /\ wirq = Unused
  /\ sending = Unused /\ rx = Unused /\ nin = Unused /\ out = Unused
  /\ accepted = Unused /\ taken = Unused /\ overrun = Unused
BNext ==
  /\ which = "bus" /\ B!Next
  /\ UNCHANGED <<which, sem_count, sem_wchan, lk_owner, lk_spinlock, cv_spinlock,
                 cv_wchan, pc, op, obj, cond, table, last_pid, stage, p_pid,
                 father_pid, child_list, p_numthreads, p_status, cv_waiters, new,
                 idx, target, got, execthrottle, argv, image, buf, held,
                 p_addrspace, active, spaces, old, name, result, stack, nomem,
                 calls, test, prog, count, sleeping, holder, owes, val, spins, intr,
                 printed, dir, data, fd, trouble, complaint, outcome, req, resid,
                 tries, done, nreq, stat, sect, owner, platter, lh_clear, lh_done,
                 lh_result, faults, plan, job, ref, retries, stuck, vn_refcount,
                 unreclaimed, big, e_lock, e_sem, e_result, reg, opened, ops,
                 the_console, delayed, todo, rlock, wlock, cs_wsem, cs_rsem, ring,
                 head, tail, ls_lock, ls_wbusy, pending, wirq, sending, rx, nin,
                 out, accepted, taken, overrun>>

Init == YInit \/ PInit \/ XInit \/ KInit \/ LInit \/ EInit \/ CInit \/ BInit
Next == YNext \/ PNext \/ XNext \/ KNext \/ LNext \/ ENext \/ CNext \/ BNext

Spec == /\ Init /\ [][Next]_vars
        /\ \A t \in {1, 2, 3} : WF_(Y!vars)(which = "synch" /\ Y!Internal(t))
        /\ \A p \in {1, 2, 10} : WF_(P!vars)(which = "process" /\ ~ P!Panicked /\ P!Kernel(p))
        /\ \A p \in {1, 2} : WF_(X!vars)(which = "exec" /\ X!Step(p))
        /\ \A t \in 0 .. 2 : WF_(K!vars)(which = "tests" /\ K!Step(t))
        /\ \A t \in {1, 2} : WF_(L!vars)(which = "lhd" /\ L!Step(t))
        /\ WF_(L!vars)(which = "lhd" /\ L!Finish)
        /\ WF_(L!vars)(which = "lhd" /\ L!lhd_irq)
        /\ \A t \in {1, 2} : WF_(E!vars)(which = "emu" /\ E!Step(t))
        /\ WF_(E!vars)(which = "emu" /\ E!Complete)
        /\ WF_(E!vars)(which = "emu" /\ E!emu_irq)
        /\ \A w \in {1, 2} : WF_(C!vars)(which = "conout" /\ C!Writes(w))
        /\ WF_(C!vars)(which = "conout" /\ C!Polls(5))
        /\ WF_(C!vars)(which = "conout" /\ C!Sent)
        /\ WF_(C!vars)(which = "conout" /\ C!lser_irq)
        /\ WF_(B!vars)(which = "bus" /\ B!Interrupting)

(* Synch: a free lock that threads sleep for does not stay free, and no    *)
(* spinlock is held for ever, although cv_wait waits for one while it has  *)
(* another.                                                                *)
LocksHandedOn ==
  /\ (which = "synch" /\ sem_count[11] = 1 /\ sem_wchan[11] # <<>>)
       ~> (which = "synch" /\ lk_owner[11] # 0)
  /\ (which = "synch" /\ cv_spinlock[21] # 0) ~> (which = "synch" /\ cv_spinlock[21] = 0)
  /\ (which = "synch" /\ lk_spinlock[11] # 0) ~> (which = "synch" /\ lk_spinlock[11] = 0)

(* A thread, named by t, that asked for something, and has got it: a        *)
(* transfer of the disk, an operation of emufs, a write to the console, an  *)
(* execv; in Process, a waitpid of the process that forks (1) or of the     *)
(* menu (2) that sleeps since before its child took p_locklock to exit; a   *)
(* kernel test, other than tt3 that depends on chance; the interrupt of a   *)
(* card that has a handler (in slots 0 and 2).                              *)
Waiter(t) == IF t = 1 THEN 1 ELSE 10
Slot(t) == IF t = 1 THEN 0 ELSE 2
Asked(t) ==
  \/ which = "lhd" /\ L!Asked(t)
  \/ which = "emu" /\ E!Asked(t)
  \/ which = "conout" /\ C!Writing(t)
  \/ which = "exec" /\ X!Calling(t)
  \/ which = "process" /\ pc[Waiter(t)] = "asleep" /\ pc[target[Waiter(t)]] = "exit_lock"
  \/ which = "tests" /\ test.name # "tt3"
  \/ which = "bus" /\ B!Asserted(Slot(t))
Answered(t) ==
  \/ which = "lhd" /\ L!Answered(t)
  \/ which = "emu" /\ E!Answered(t)
  \/ which = "conout" /\ C!Written(t)
  \/ which = "exec" /\ X!Returned(t)
  \/ which = "process" /\ pc[Waiter(t)] = P!Home(Waiter(t))
  \/ which = "tests" /\ K!Done
  \/ which = "bus" /\ B!SeenTo(Slot(t))

(* Whoever asks is answered: every request of the disk and of emufs, every  *)
(* write to the console and every execv returns; a waitpid that sleeps      *)
(* before its child exits returns; the kernel tests end ("If this hangs,    *)
(* it's broken"); an interrupt of a card with a handler is seen to.         *)
CallsReturn == \A t \in {1, 2} : Asked(t) ~> Answered(t)
=============================================================================
