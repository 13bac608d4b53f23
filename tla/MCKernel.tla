------------------------------ MODULE MCKernel ------------------------------
(***************************************************************************)
(* The entry to the kernel and what it is built from, each by itself:      *)
(* execv (Exec), traps and the TLB (Trap), copies from and to user space   *)
(* (UserCopy), the containers of the kernel library (Containers), the      *)
(* kernel tests (KernelTests), boot and menu (Menu), and processes whose   *)
(* calls fail (failures) or that are forked by one process alone (single), *)
(* both of Process. A behaviour is one of one component; "which" says      *)
(* whose.                                                                  *)
(***************************************************************************)
EXTENDS Naturals, Sequences, FiniteSets

VARIABLES which, execthrottle, pc, argv, image, buf, held, p_addrspace, active,
          spaces, old, name, result, stack, nomem, calls, panicked, cur, tlb, as,
          regions, where, badfault, t_curspl, t_iplhigh_count, in_irq, adjusted,
          irqon, fresh, execs, irqs, input, client, arr, seq, bm, marked, tl, order,
          data, failed, test, prog, count, sleeping, holder, owes, val, spins, intr,
          printed, dir, fd, trouble, complaint, outcome, phase, todo, booted, lines,
          isargs, context, args, typed, ran, shown, mounted, bootfs, cwd, unsynced,
          child, refs, table, last_pid, stage, p_pid, father_pid, child_list,
          p_numthreads, p_status, lk_owner, cv_waiters, new, idx, target, got

vars == <<which, execthrottle, pc, argv, image, buf, held, p_addrspace, active,
          spaces, old, name, result, stack, nomem, calls, panicked, cur, tlb, as,
          regions, where, badfault, t_curspl, t_iplhigh_count, in_irq, adjusted,
          irqon, fresh, execs, irqs, input, client, arr, seq, bm, marked, tl, order,
          data, failed, test, prog, count, sleeping, holder, owes, val, spins, intr,
          printed, dir, fd, trouble, complaint, outcome, phase, todo, booted, lines,
          isargs, context, args, typed, ran, shown, mounted, bootfs, cwd, unsynced,
          child, refs, table, last_pid, stage, p_pid, father_pid, child_list,
          p_numthreads, p_status, lk_owner, cv_waiters, new, idx, target, got>>

ExecArgvs == {<<>>, <<2, 1>>, <<1, 3>>, <<2, 2, 1>>, <<3, 4, 1>>, <<4, 4, 2>>, <<3, 0>>, <<5, 5>>,
              <<3, 2, 1, 1, 1, 1>>}
CopyMappings == {0 .. 7, {1, 2, 3, 4}, {0, 1, 5, 6, 7}, {}}
CopyIovecs == {<<>>, <<3>>, <<2, 0, 3>>, <<0, 1, 2>>, <<1, 1, 1>>}
KernelTestSet ==
  [name : {"semtest", "locktest", "cvtest", "cvtest2", "threadtest", "tt3",
           "fs1", "fs2", "fs3", "fs4", "fs5", "fs6"}, k : {0}]
  \cup [name : {"semu"}, k : 1 .. 22]
MenuArgLines ==
  {<<>>, <<"x">>, <<"deadlock">>, <<"mount">>, <<"unmount">>, <<"bootfs">>,
   <<"mount", " ", "sfs", " ", "lhd0", ":", ";", "bootfs", " ", "lhd0", ";", "cd", " ", "lhd0", ":", ";", "s">>,
   <<"mount", " ", "sfs", " ", "lhd0", ";", "p", " ", "x", " ", "x">>,
   <<"?", ";", "?o", ";", "?t", ";", "kh">>,
   <<"mount", " ", "sfs", " ", "lhd0", ";", "unmount", " ", "lhd0", ":">>,
   <<"p", " ", "x", " ", "x", " ", "x">>}
MenuLines ==
  {<<>>, <<"q">>, <<"s", ";", "q">>, <<" ", ";", ";", "p", " ", " ", "x", " ", ";", "s", " ">>,
   <<"unmount", " ", "lhd0", ":", ";", "mount", " ", "sfs", " ", "lhd0">>,
   <<"bootfs", " ", "lhd0", ";", "cd", " ", "lhd0", ":", ";", "s", ";", "q">>}

X == INSTANCE Exec WITH Proc <- {1, 2}, EXEC_BIGBUF_THROTTLE <- 1, PAGE_SIZE <- 4,
  ARG_MAX <- 9, Word <- 4, StackSize <- 28, Argvs <- ExecArgvs,
  Images <- {"good", "one", "three", "short", "unreadable", "missing", "badpath"},
  MaxNoMem <- 1, MaxCalls <- 2
T == INSTANCE Trap WITH Cpu <- {1, 2}, Proc <- {1, 2}, Page <- {1},
  Frame <- {1, 2, 3}, NUM_TLB <- 1, MaxExecs <- 1, MaxIrqs <- 2
U == INSTANCE UserCopy WITH Width <- 4, Mappings <- CopyMappings, MaxLen <- 6,
  Iovecs <- CopyIovecs
C == INSTANCE Containers WITH
  Client <- {"array", "bitmap", "threadlist", "arraytest", "bitmaptest", "threadlisttest"},
  Val <- {1, 2}, MaxNum <- 5, BITS_PER_WORD <- 3, NBits <- {5, 6, 7},
  Thread <- 1 .. 5, List <- {1, 2}, TESTSIZE <- 9
K == INSTANCE KernelTests WITH Tests <- KernelTestSet, NTHREADS <- 3, NLOOPS <- 2,
  NCVS <- 2, NSTRESS <- 2, NCHUNKS <- 2, CountMod <- 5, Blocks <- 5
M == INSTANCE Menu WITH Lines <- MenuLines, MaxLen <- 14, MAXMENUARGS <- 3,
  ArgLines <- MenuArgLines, Volume <- {"lhd0"}, MaxLines <- 2
F == INSTANCE Process WITH Procs <- {1, 2, 3}, KProc <- 10, NoProc <- 0,
  MAX_PROC <- 2, Forkers <- {1, 2}, Options <- {"plain", "WNOHANG", "nostatus"},
  Failures <- {"proc_create", "cv_create", "std_init", "as_copy", "thread_fork", "runprogram"}
W == INSTANCE Process WITH Procs <- {1, 2, 3}, KProc <- 10, NoProc <- 0,
  MAX_PROC <- 2, Forkers <- {1}, Options <- {"plain"},
  Failures <- {"proc_create", "cv_create", "std_init", "as_copy", "thread_fork", "runprogram"}

(* The components that are not looked at have nothing to show. *)
Unused == 0

XInit ==
  /\ which = "exec" /\ X!Init
  /\ cur = Unused /\ tlb = Unused /\ as = Unused /\ regions = Unused
  /\ where = Unused /\ badfault = Unused /\ t_curspl = Unused
  /\ t_iplhigh_count = Unused /\ in_irq = Unused /\ adjusted = Unused
  /\ irqon = Unused /\ fresh = Unused /\ execs = Unused /\ irqs = Unused
  /\ input = Unused /\ client = Unused /\ arr = Unused /\ seq = Unused
  /\ bm = Unused /\ marked = Unused /\ tl = Unused /\ order = Unused
  /\ data = Unused /\ failed = Unused /\ test = Unused /\ prog = Unused
  /\ count = Unused /\ sleeping = Unused /\ holder = Unused /\ owes = Unused
  /\ val = Unused /\ spins = Unused /\ intr = Unused /\ printed = Unused
  /\ dir = Unused /\ fd = Unused /\ trouble = Unused /\ complaint = Unused
  /\ outcome = Unused /\ phase = Unused /\ todo = Unused /\ booted = Unused
  /\ lines = Unused /\ isargs = Unused /\ context = Unused /\ args = Unused
  /\ typed = Unused /\ ran = Unused /\ shown = Unused /\ mounted = Unused
  /\ bootfs = Unused /\ cwd = Unused /\ unsynced = Unused /\ child = Unused
  /\ refs = Unused /\ table = Unused /\ last_pid = Unused /\ stage = Unused
  /\ p_pid = Unused /\ father_pid = Unused /\ child_list = Unused
  /\ p_numthreads = Unused /\ p_status = Unused /\ lk_owner = Unused
  /\ cv_waiters = Unused /\ new = Unused /\ idx = Unused /\ target = Unused
  /\ got = Unused
XNext ==
  /\ which = "exec" /\ X!Next
  /\ UNCHANGED <<which, cur, tlb, as, regions, where, badfault, t_curspl,
                 t_iplhigh_count, in_irq, adjusted, irqon, fresh, execs, irqs,
                 input, client, arr, seq, bm, marked, tl, order, data, failed, test,
                 prog, count, sleeping, holder, owes, val, spins, intr, printed,
                 dir, fd, trouble, complaint, outcome, phase, todo, booted, lines,
                 isargs, context, args, typed, ran, shown, mounted, bootfs, cwd,
                 unsynced, child, refs, table, last_pid, stage, p_pid, father_pid,
                 child_list, p_numthreads, p_status, lk_owner, cv_waiters, new, idx,
                 target, got>>

TInit ==
  /\ which = "trap" /\ T!Init
  /\ execthrottle = Unused /\ pc = Unused /\ argv = Unused /\ image = Unused
  /\ buf = Unused /\ held = Unused /\ p_addrspace = Unused /\ active = Unused
  /\ spaces = Unused /\ old = Unused /\ name = Unused /\ result = Unused
  /\ stack = Unused /\ nomem = Unused /\ calls = Unused /\ input = Unused
  /\ client = Unused /\ arr = Unused /\ seq = Unused /\ bm = Unused
  /\ marked = Unused /\ tl = Unused /\ order = Unused /\ data = Unused
  /\ failed = Unused /\ test = Unused /\ prog = Unused /\ count = Unused
  /\ sleeping = Unused /\ holder = Unused /\ owes = Unused /\ val = Unused
  /\ spins = Unused /\ intr = Unused /\ printed = Unused /\ dir = Unused
  /\ fd = Unused /\ trouble = Unused /\ complaint = Unused /\ outcome = Unused
  /\ phase = Unused /\ todo = Unused /\ booted = Unused /\ lines = Unused
  /\ isargs = Unused /\ context = Unused /\ args = Unused /\ typed = Unused
  /\ ran = Unused /\ shown = Unused /\ mounted = Unused /\ bootfs = Unused
  /\ cwd = Unused /\ unsynced = Unused /\ child = Unused /\ refs = Unused
  /\ table = Unused /\ last_pid = Unused /\ stage = Unused /\ p_pid = Unused
  /\ father_pid = Unused /\ child_list = Unused /\ p_numthreads = Unused
  /\ p_status = Unused /\ lk_owner = Unused /\ cv_waiters = Unused /\ new = Unused
  /\ idx = Unused /\ target = Unused /\ got = Unused
TNext ==
  /\ which = "trap" /\ T!Next
  /\ UNCHANGED <<which, execthrottle, pc, argv, image, buf, held, p_addrspace,
                 active, spaces, old, name, result, stack, nomem, calls, input,
                 client, arr, seq, bm, marked, tl, order, data, failed, test, prog,
                 count, sleeping, holder, owes, val, spins, intr, printed, dir, fd,
                 trouble, complaint, outcome, phase, todo, booted, lines, isargs,
                 context, args, typed, ran, shown, mounted, bootfs, cwd, unsynced,
                 child, refs, table, last_pid, stage, p_pid, father_pid, child_list,
                 p_numthreads, p_status, lk_owner, cv_waiters, new, idx, target,
                 got>>

UInit ==
  /\ which = "copy" /\ U!Init
  /\ execthrottle = Unused /\ pc = Unused /\ argv = Unused /\ image = Unused
  /\ buf = Unused /\ held = Unused /\ p_addrspace = Unused /\ active = Unused
  /\ spaces = Unused /\ old = Unused /\ name = Unused /\ result = Unused
  /\ stack = Unused /\ nomem = Unused /\ calls = Unused /\ panicked = Unused
  /\ cur = Unused /\ tlb = Unused /\ as = Unused /\ regions = Unused
  /\ where = Unused /\ badfault = Unused /\ t_curspl = Unused
  /\ t_iplhigh_count = Unused /\ in_irq = Unused /\ adjusted = Unused
  /\ irqon = Unused /\ fresh = Unused /\ execs = Unused /\ irqs = Unused
  /\ client = Unused /\ arr = Unused /\ seq = Unused /\ bm = Unused
  /\ marked = Unused /\ tl = Unused /\ order = Unused /\ data = Unused
  /\ failed = Unused /\ test = Unused /\ prog = Unused /\ count = Unused
  /\ sleeping = Unused /\ holder = Unused /\ owes = Unused /\ val = Unused
  /\ spins = Unused /\ intr = Unused /\ printed = Unused /\ dir = Unused
  /\ fd = Unused /\ trouble = Unused /\ complaint = Unused /\ outcome = Unused
  /\ phase = Unused /\ todo = Unused /\ booted = Unused /\ lines = Unused
  /\ isargs = Unused /\ context = Unused /\ args = Unused /\ typed = Unused
  /\ ran = Unused /\ shown = Unused /\ mounted = Unused /\ bootfs = Unused
  /\ cwd = Unused /\ unsynced = Unused /\ child = Unused /\ refs = Unused
  /\ table = Unused /\ last_pid = Unused /\ stage = Unused /\ p_pid = Unused
  /\ father_pid = Unused /\ child_list = Unused /\ p_numthreads = Unused
  /\ p_status = Unused /\ lk_owner = Unused /\ cv_waiters = Unused /\ new = Unused
  /\ idx = Unused /\ target = Unused /\ got = Unused
UNext ==
  /\ which = "copy" /\ U!Next
  /\ UNCHANGED <<which, execthrottle, pc, argv, image, buf, held, p_addrspace,
                 active, spaces, old, name, result, stack, nomem, calls, panicked,
                 cur, tlb, as, regions, where, badfault, t_curspl, t_iplhigh_count,
                 in_irq, adjusted, irqon, fresh, execs, irqs, client, arr, seq, bm,
                 marked, tl, order, data, failed, test, prog, count, sleeping,
                 holder, owes, val, spins, intr, printed, dir, fd, trouble,
                 complaint, outcome, phase, todo, booted, lines, isargs, context,
                 args, typed, ran, shown, mounted, bootfs, cwd, unsynced, child,
                 refs, table, last_pid, stage, p_pid, father_pid, child_list,
                 p_numthreads, p_status, lk_owner, cv_waiters, new, idx, target,
                 got>>

CInit ==
  /\ which = "containers" /\ C!Init
  /\ execthrottle = Unused /\ argv = Unused /\ image = Unused /\ buf = Unused
  /\ held = Unused /\ p_addrspace = Unused /\ active = Unused /\ spaces = Unused
  /\ old = Unused /\ name = Unused /\ result = Unused /\ stack = Unused
  /\ nomem = Unused /\ calls = Unused /\ panicked = Unused /\ cur = Unused
  /\ tlb = Unused /\ as = Unused /\ regions = Unused /\ where = Unused
  /\ badfault = Unused /\ t_curspl = Unused /\ t_iplhigh_count = Unused
  /\ in_irq = Unused /\ adjusted = Unused /\ irqon = Unused /\ fresh = Unused
  /\ execs = Unused /\ irqs = Unused /\ input = Unused /\ test = Unused
  /\ prog = Unused /\ count = Unused /\ sleeping = Unused /\ holder = Unused
  /\ owes = Unused /\ val = Unused /\ spins = Unused /\ intr = Unused
  /\ printed = Unused /\ dir = Unused /\ fd = Unused /\ trouble = Unused
  /\ complaint = Unused /\ outcome = Unused /\ phase = Unused /\ todo = Unused
  /\ booted = Unused /\ lines = Unused /\ isargs = Unused /\ context = Unused
  /\ args = Unused /\ typed = Unused /\ ran = Unused /\ shown = Unused
  /\ mounted = Unused /\ bootfs = Unused /\ cwd = Unused /\ unsynced = Unused
  /\ child = Unused /\ refs = Unused /\ table = Unused /\ last_pid = Unused
  /\ stage = Unused /\ p_pid = Unused /\ father_pid = Unused /\ child_list = Unused
  /\ p_numthreads = Unused /\ p_status = Unused /\ lk_owner = Unused
  /\ cv_waiters = Unused /\ new = Unused /\ idx = Unused /\ target = Unused
  /\ got = Unused
CNext ==
  /\ which = "containers" /\ C!Next
  /\ UNCHANGED <<which, execthrottle, argv, image, buf, held, p_addrspace, active,
                 spaces, old, name, result, stack, nomem, calls, panicked, cur, tlb,
                 as, regions, where, badfault, t_curspl, t_iplhigh_count, in_irq,
                 adjusted, irqon, fresh, execs, irqs, input, test, prog, count,
                 sleeping, holder, owes, val, spins, intr, printed, dir, fd,
                 trouble, complaint, outcome, phase, todo, booted, lines, isargs,
                 context, args, typed, ran, shown, mounted, bootfs, cwd, unsynced,
                 child, refs, table, last_pid, stage, p_pid, father_pid, child_list,
                 p_numthreads, p_status, lk_owner, cv_waiters, new, idx, target,
                 got>>

KInit ==
  /\ which = "tests" /\ K!Init
  /\ execthrottle = Unused /\ argv = Unused /\ image = Unused /\ buf = Unused
  /\ held = Unused /\ p_addrspace = Unused /\ active = Unused /\ spaces = Unused
  /\ old = Unused /\ name = Unused /\ result = Unused /\ stack = Unused
  /\ nomem = Unused /\ calls = Unused /\ panicked = Unused /\ cur = Unused
  /\ tlb = Unused /\ as = Unused /\ regions = Unused /\ where = Unused
  /\ badfault = Unused /\ t_curspl = Unused /\ t_iplhigh_count = Unused
  /\ in_irq = Unused /\ adjusted = Unused /\ irqon = Unused /\ fresh = Unused
  /\ execs = Unused /\ irqs = Unused /\ input = Unused /\ client = Unused
  /\ arr = Unused /\ seq = Unused /\ bm = Unused /\ marked = Unused /\ tl = Unused
  /\ order = Unused /\ failed = Unused /\ phase = Unused /\ todo = Unused
  /\ booted = Unused /\ lines = Unused /\ isargs = Unused /\ context = Unused
  /\ args = Unused /\ typed = Unused /\ ran = Unused /\ shown = Unused
  /\ mounted = Unused /\ bootfs = Unused /\ cwd = Unused /\ unsynced = Unused
  /\ child = Unused /\ refs = Unused /\ table = Unused /\ last_pid = Unused
  /\ stage = Unused /\ p_pid = Unused /\ father_pid = Unused /\ child_list = Unused
  /\ p_numthreads = Unused /\ p_status = Unused /\ lk_owner = Unused
  /\ cv_waiters = Unused /\ new = Unused /\ idx = Unused /\ target = Unused
  /\ got = Unused
KNext ==
  /\ which = "tests" /\ K!Next
  /\ UNCHANGED <<which, execthrottle, argv, image, buf, held, p_addrspace, active,
                 spaces, old, name, result, stack, nomem, calls, panicked, cur, tlb,
                 as, regions, where, badfault, t_curspl, t_iplhigh_count, in_irq,
                 adjusted, irqon, fresh, execs, irqs, input, client, arr, seq, bm,
                 marked, tl, order, failed, phase, todo, booted, lines, isargs,
                 context, args, typed, ran, shown, mounted, bootfs, cwd, unsynced,
                 child, refs, table, last_pid, stage, p_pid, father_pid, child_list,
                 p_numthreads, p_status, lk_owner, cv_waiters, new, idx, target,
                 got>>

MInit ==
  /\ which = "menu" /\ M!Init
  /\ execthrottle = Unused /\ pc = Unused /\ argv = Unused /\ image = Unused
  /\ held = Unused /\ p_addrspace = Unused /\ active = Unused /\ spaces = Unused
  /\ old = Unused /\ name = Unused /\ result = Unused /\ stack = Unused
  /\ nomem = Unused /\ calls = Unused /\ panicked = Unused /\ cur = Unused
  /\ tlb = Unused /\ as = Unused /\ regions = Unused /\ where = Unused
  /\ badfault = Unused /\ t_curspl = Unused /\ t_iplhigh_count = Unused
  /\ in_irq = Unused /\ adjusted = Unused /\ irqon = Unused /\ fresh = Unused
  /\ execs = Unused /\ irqs = Unused /\ input = Unused /\ client = Unused
  /\ arr = Unused /\ seq = Unused /\ bm = Unused /\ marked = Unused /\ tl = Unused
  /\ order = Unused /\ data = Unused /\ failed = Unused /\ test = Unused
  /\ prog = Unused /\ count = Unused /\ sleeping = Unused /\ holder = Unused
  /\ owes = Unused /\ val = Unused /\ spins = Unused /\ intr = Unused
  /\ printed = Unused /\ dir = Unused /\ fd = Unused /\ trouble = Unused
  /\ complaint = Unused /\ outcome = Unused /\ table = Unused /\ last_pid = Unused
  /\ stage = Unused /\ p_pid = Unused /\ father_pid = Unused /\ child_list = Unused
  /\ p_numthreads = Unused /\ p_status = Unused /\ lk_owner = Unused
  /\ cv_waiters = Unused /\ new = Unused /\ idx = Unused /\ target = Unused
  /\ got = Unused
MNext ==
  /\ which = "menu" /\ M!Next
  /\ UNCHANGED <<which, execthrottle, pc, argv, image, held, p_addrspace, active,
                 spaces, old, name, result, stack, nomem, calls, panicked, cur, tlb,
                 as, regions, where, badfault, t_curspl, t_iplhigh_count, in_irq,
                 adjusted, irqon, fresh, execs, irqs, input, client, arr, seq, bm,
                 marked, tl, order, data, failed, test, prog, count, sleeping,
                 holder, owes, val, spins, intr, printed, dir, fd, trouble,
                 complaint, outcome, table, last_pid, stage, p_pid, father_pid,
                 child_list, p_numthreads, p_status, lk_owner, cv_waiters, new, idx,
                 target, got>>

FInit ==
  /\ which = "failures" /\ F!Init
  /\ execthrottle = Unused /\ argv = Unused /\ image = Unused /\ buf = Unused
  /\ held = Unused /\ p_addrspace = Unused /\ active = Unused /\ spaces = Unused
  /\ old = Unused /\ name = Unused /\ result = Unused /\ stack = Unused
  /\ nomem = Unused /\ calls = Unused /\ panicked = Unused /\ cur = Unused
  /\ tlb = Unused /\ as = Unused /\ regions = Unused /\ where = Unused
  /\ badfault = Unused /\ t_curspl = Unused /\ t_iplhigh_count = Unused
  /\ in_irq = Unused /\ adjusted = Unused /\ irqon = Unused /\ fresh = Unused
  /\ execs = Unused /\ irqs = Unused /\ input = Unused /\ client = Unused
  /\ arr = Unused /\ seq = Unused /\ bm = Unused /\ marked = Unused /\ tl = Unused
  /\ order = Unused /\ data = Unused /\ failed = Unused /\ test = Unused
  /\ prog = Unused /\ count = Unused /\ sleeping = Unused /\ holder = Unused
  /\ owes = Unused /\ val = Unused /\ spins = Unused /\ intr = Unused
  /\ printed = Unused /\ dir = Unused /\ fd = Unused /\ trouble = Unused
  /\ complaint = Unused /\ outcome = Unused /\ phase = Unused /\ todo = Unused
  /\ booted = Unused /\ lines = Unused /\ isargs = Unused /\ context = Unused
  /\ args = Unused /\ typed = Unused /\ ran = Unused /\ shown = Unused
  /\ mounted = Unused /\ bootfs = Unused /\ cwd = Unused /\ unsynced = Unused
  /\ child = Unused /\ refs = Unused
FNext ==
  /\ which = "failures" /\ F!Next
  /\ UNCHANGED <<which, execthrottle, argv, image, buf, held, p_addrspace, active,
                 spaces, old, name, result, stack, nomem, calls, panicked, cur, tlb,
                 as, regions, where, badfault, t_curspl, t_iplhigh_count, in_irq,
                 adjusted, irqon, fresh, execs, irqs, input, client, arr, seq, bm,
                 marked, tl, order, data, failed, test, prog, count, sleeping,
                 holder, owes, val, spins, intr, printed, dir, fd, trouble,
                 complaint, outcome, phase, todo, booted, lines, isargs, context,
                 args, typed, ran, shown, mounted, bootfs, cwd, unsynced, child,
                 refs>>

WInit ==
  /\ which = "single" /\ W!Init
  /\ execthrottle = Unused /\ argv = Unused /\ image = Unused /\ buf = Unused
  /\ held = Unused /\ p_addrspace = Unused /\ active = Unused /\ spaces = Unused
  /\ old = Unused /\ name = Unused /\ result = Unused /\ stack = Unused
  /\ nomem = Unused /\ calls = Unused /\ panicked = Unused /\ cur = Unused
  /\ tlb = Unused /\ as = Unused /\ regions = Unused /\ where = Unused
  /\ badfault = Unused /\ t_curspl = Unused /\ t_iplhigh_count = Unused
  /\ in_irq = Unused /\ adjusted = Unused /\ irqon = Unused /\ fresh = Unused
  /\ execs = Unused /\ irqs = Unused /\ input = Unused /\ client = Unused
  /\ arr = Unused /\ seq = Unused /\ bm = Unused /\ marked = Unused /\ tl = Unused
  /\ order = Unused /\ data = Unused /\ failed = Unused /\ test = Unused
  /\ prog = Unused /\ count = Unused /\ sleeping = Unused /\ holder = Unused
  /\ owes = Unused /\ val = Unused /\ spins = Unused /\ intr = Unused
  /\ printed = Unused /\ dir = Unused /\ fd = Unused /\ trouble = Unused
  /\ complaint = Unused /\ outcome = Unused /\ phase = Unused /\ todo = Unused
  /\ booted = Unused /\ lines = Unused /\ isargs = Unused /\ context = Unused
  /\ args = Unused /\ typed = Unused /\ ran = Unused /\ shown = Unused
  /\ mounted = Unused /\ bootfs = Unused /\ cwd = Unused /\ unsynced = Unused
  /\ child = Unused /\ refs = Unused
WNext ==
  /\ which = "single" /\ W!Next
  /\ UNCHANGED <<which, execthrottle, argv, image, buf, held, p_addrspace, active,
                 spaces, old, name, result, stack, nomem, calls, panicked, cur, tlb,
                 as, regions, where, badfault, t_curspl, t_iplhigh_count, in_irq,
                 adjusted, irqon, fresh, execs, irqs, input, client, arr, seq, bm,
                 marked, tl, order, data, failed, test, prog, count, sleeping,
                 holder, owes, val, spins, intr, printed, dir, fd, trouble,
                 complaint, outcome, phase, todo, booted, lines, isargs, context,
                 args, typed, ran, shown, mounted, bootfs, cwd, unsynced, child,
                 refs>>

Init == XInit \/ TInit \/ UInit \/ CInit \/ KInit \/ MInit \/ FInit \/ WInit
Next == XNext \/ TNext \/ UNext \/ CNext \/ KNext \/ MNext \/ FNext \/ WNext

Spec == /\ Init /\ [][Next]_vars

(* The throttle on big argument buffers is kept and given back on every    *)
(* path, nothing is left of an execv that is over, the kernel panics only  *)
(* over one segment or over arguments the stack cannot hold, and a new     *)
(* program finds its arguments where its stack pointer says.               *)
ExecLeavesNothing ==
  /\ which = "exec" => /\ X!ThrottleKept
                       /\ X!NothingLeftBehind
                       /\ X!ArgumentsArrive

(* An execv that fails, however late, leaves the program that called it as *)
(* it was.                                                                 *)
FailureKeepsProgram == [][
  /\ which = "exec" => \A p \in {1, 2} : X!FailureKept(p)]_vars


(* Arrays, bitmaps and thread lists are the sequences and sets their       *)
(* clients built, and no assertion of theirs fails; the kernel tests       *)
(* report no failure that did not happen and leave semaphores and locks as *)
(* they were; boot finds at each step what it needs, the menu runs the     *)
(* commands typed, in order, and a volume is still mounted at power off    *)
(* only for a process that did not shut down, or when it could not be      *)
(* synced.                                                                 *)
TestsAndMenuTrue ==
  /\ which = "containers" => /\ C!ArrayIsSequence
                             /\ C!BitmapIsSet
                             /\ C!ListsAreSequences
                             /\ C!AssertionsHold
  /\ which = "tests" => /\ K!TestsSucceed
                        /\ K!OnePrints
                        /\ K!ReverseOrder
                        /\ K!LeavesAsBefore
                        /\ K!FsTestsTruthful
  /\ which = "menu" => /\ M!BootInOrder
                       /\ M!CommandsAsTyped
                       /\ M!RunsWhatWasTyped
                       /\ M!MenusAreTrue
                       /\ M!UnmountedAtOff

(* Whatever fails in fork, pids stay unique, the processes one tree, and   *)
(* each is destroyed by one thread; with one process that forks, every     *)
(* live process is found under its pid, the table has no other entries but *)
(* those proc_create leaves behind, and no panic of proc_destroy is        *)
(* reached.                                                                *)
ForkFailuresUndone ==
  /\ which = "failures" => /\ F!UniquePids
                           /\ F!FamilyTree
                           /\ F!ReapedByOne
  /\ which = "single" => /\ W!TableKeepsLive
                         /\ W!NeverPanics

=============================================================================
