# A verification of OS/161 2.0.3 with the SHELL kernel

TLA+ specifications of the kernel in `src/os161-base-2.0.3/kern` (SHELL
configuration) and of the programs that run on it. TLC checks them on small
instances; TLAPS proves the main properties of three components (physical
memory, synchronisation, processes) for every instance. Paths below are relative
to `src/os161-base-2.0.3/`, those of the kernel to its `kern/`.

`PROJECT.json` has the details: every component with what is left out of it, the
source lines of every definition, the hazards and the properties that cover them,
a wrong variant of the code for every property, and the theorems.

## The system and its modules

| Part | Code | What is hard about it | Modules |
|---|---|---|---|
| Physical memory, address spaces | `arch/mips/vm/dumbvm.c`, `ram.c` | several critical sections per allocation, an unlocked read of `allocSize`, failure half way through an address space | `Dumbvm`, proofs in `DumbvmProofs` |
| Kernel heap | `vm/kmalloc.c` | the lock is dropped around page allocation | `Kmalloc` |
| Semaphores, locks, condition variables, wait channels | `thread/synch.c`, `thread.c` | release and sleep must look atomic; overtaking; one spinlock in a sleep | `Synch`, `Monitor`, proofs in `SynchInvariant`, `SynchMonitor`, `SynchProofs` |
| Scheduler and processors | `thread/thread.c`, `clock.c`, `spinlock.c`, `spl.c`, `trap.c` | idle processors, interprocessor interrupts, migration, stacks in use | `Scheduler` |
| Processes | `proc/proc.c`, `syscall/proc_syscalls.c`, `main/menu.c` | unlocked reads, pids used again, errors in the middle of fork | `Process`, proofs in `ProcessInvariant`, `ProcessFork`, `ProcessWait`, `ProcessProofs` |
| Open files | `syscall/file_syscalls.c` | shared counts, locks kept on errors | `OpenFile` |
| execv | `syscall/exec.c`, `loadelf.c` | throttled buffer, many error paths, old and new address space | `Exec` |
| Traps, TLB, faults | `arch/mips/locore/trap.c`, `vm_fault` | a shared TLB, interrupt levels, faults inside the kernel | `Trap` |
| User copies, uio | `vm/copyinout.c`, `lib/uio.c` | address wrap, partial moves | `UserCopy` |
| VFS layer | `vfs/` | references, mount while in use | `Vfs` |
| SFS and its tools | `fs/sfs/`, `userland/sbin/mksfs`, `sfsck` | stops between block writes, reclaim, repair | `Sfs`, `Sfsck`, `FileSystem` |
| semfs | `fs/semfs/` | lookup, removal and reclaim under three locks | `Semfs` |
| Disk, emufs, console, bus, clock | `dev/lamebus/`, `dev/generic/` | one set of registers, interrupts, polled output | `Lhd`, `Emu`, `Console`, `Lamebus`, `Clock` |
| Boot and menu | `main/`, `strtok_r.c` | order of bootstraps, a line cut up in place, shutdown | `Menu` |
| Containers | `lib/array.c`, `bitmap.c`, `thread/threadlist.c` | growing, last word of a bitmap, relinking | `Containers` |
| Kernel tests | `test/` | tests whose verdict depends on the schedule | `KernelTests` |
| Programs | `userland/bin`, `userland/testbin` | children, redirected files, jobs | `UserCalls`, `Testbin`, `Badcall`, `Shell` |

How the parts rest on each other. Everything that blocks goes through `Synch`;
the others use locks and condition variables as atomic steps. `Monitor` is the
specification of those steps, and `Synch` is *proved* to implement it
(`ImplementsMonitor`), which justifies the abstraction. `Synch` gives each thread
a processor of its own; `Scheduler` is what makes a runnable thread run.
`Process` takes `as_copy` as a call that succeeds or fails; `Dumbvm` has its
inside, and `Exec` the other place where address spaces are built. A struct
openfile belongs to one process, as `sys_fork` gives the child new handles of the
console, so `OpenFile` needs no fork. `Sfs` runs under `vfs_biglock`, above `Lhd`,
whose transfers are atomic for it or fail; `FileSystem` is what it promises.
`UserCalls` is what programs see of the system calls; the steps inside the calls
are in `Process`, `OpenFile`, `Exec` and `Semfs`.

### How the modules are written

One action is one critical section, one call that may sleep, or one step of a
device; `pc` says where in a handler a thread is. Names are those of the source.
Definitions marked "Mutant" are wrong variants of the definition they stand
before; every checked property is known to fail when its mutant takes the place
of the right definition.

- **Dumbvm.** A physical address is a frame number, and 0 is both the error value
  and the page of the exception handlers, as in the code. A holder is a region of
  an address space, a block of the kernel heap or the tables of `vm_bootstrap`;
  `pbase` and `npages` are its fields. `Fits` says what the loop of
  `getfreeppages` looks for without the loop. `bootTop` and `damage` are history
  variables; `damage` collects the frames freed through a base of 0, and the
  entries of the tables written past their end.
- **Kmalloc.** Pages, pagerefs and free lists as the code keeps them; an action is
  one section under `kmalloc_spinlock` or one call of `alloc_kpages`/`free_kpages`.
- **Synch.** `lk_spinlock` and `cv_spinlock` are variables where the code holds
  them over a call with a spinlock of its own (`lock_release` over `V`, `cv_wait`
  over `lock_release`). The semaphore of a lock is named by the lock.
- **Scheduler.** A processor takes one step at a time, ending where the code takes
  or drops a spinlock; run queues, zombies, the interprocessor interrupts and the
  counts behind `splraise`/`spllower` are explicit. `Does` is what threads and the
  machine may ask for (fork, yield, sleep, wake, exit, shutdown, device).
- **Process.** A process and its only thread have one name; pids are used again,
  names are not, so a name is one life of a struct proc. A thread that goes on
  with a freed struct stops in "fault". `Forkers`, `Options` and `Failures` say
  which programs fork, how they call waitpid and what may fail. The `p_pid` and
  `child_list` of kproc, which nothing initialises, are zero.
- **OpenFile.** Each call is split at its lock operations, `sys_open` also between
  the test of a slot and its claim. Data is left out; offsets are kept.
- **Exec, Trap, UserCopy.** Arguments are lengths; an image is good, or has one
  segment or three, or is broken or unreadable; an address space has two regions
  and a stack, the second region empty for an image with one segment; addresses
  have `Width` bits.
- **Sfs, Sfsck.** A volume of blocks with the kernel's copies of inodes and map;
  operations are operators on a state record, and the machine may stop between
  any two block writes. A read may fail for good. A write that fails once is lost
  and reported as done, as the retry of `sfs_rwblock` finds its uio used up; the
  volume is "stale" then and not followed further. `sfsck` is one step from disk to
  disk, in its passes.
- **Devices.** Registers, interrupt lines and the threads inside the driver; the
  card is external and does what the driver's code expects of it, or faults.
- **Menu.** A line is a buffer of words and separators; how `kgets` edits it is
  left out. A volume is used by the boot file system, current directories, open
  files and the processes a program has forked.
- **Programs.** A program is a sequence of system calls and tests of their
  results; `Shell` works on words.

## Runs

Twelve runs. In `memory`, `devices`, `kernel`, `programs` and `progress` one
module instantiates several components; a behaviour is one of one component, and
the variable `which` says whose, so the properties are conjunctions over the
components.

| Run | Instance | Shows |
|---|---|---|
| `memory` | "frames": 5 frames (1 of the kernel image), 2 threads, 2 address spaces, 2 blocks, regions of 0 or 1 pages; "spaces": address spaces and blocks of 1 and 2 pages cut out of each other; "pair": 7 frames, two address spaces that exist together; "heap": 3 pages, two block sizes | no frame has two holders, free frames are unused, `free_kpages` frees no more than its block has, no frame is lost when no region is empty ("spaces", "pair"); the heap passes `checksubpages` whenever its lock is free, blocks do not overlap, everything is returned |
| `monitor` | 3 threads, 1 lock, 2 cvs, 1 semaphore up to 2 | mutual exclusion, no lost wakeup, one spinlock in `wchan_sleep`, `Monitor` is implemented |
| `scheduler` | 2 processors, 3 threads, with shutdown | no stack is used by two processors or freed in use, queues are exact, no idle processor misses a thread, interrupt counts balance |
| `scheduler_live` | 2 processors, 3 threads that fork, yield and exit, deadlock checked | every ready thread runs in the end |
| `process_family` | 4 processes, 3 pids, 2 may fork | pids unique, one family tree, only children that left are reported, one reaper |
| `open_handles` | 1 process, 2 slots, 3 fds, 2 files, every failure | counts are the handles, vnode references are exact, handles name open files and keep their file |
| `sfs_volume` | up to 8 blocks, 2 names, 2 processes, a stop, a failed transfer | no panic (but in an operation that lost a write), blocks belong to one file, link counts and references exact, a clean copy is on disk, `FileSystem` is implemented, `sfsck` keeps the files |
| `devices` | `Lhd`, `Emu`, `Console` (output, input), `Lamebus`, `Clock`, `Vfs`, `Semfs` | transfers arrive whole and at the one who asked; what is open stays and what nobody has goes; every card gets its driver; time is never wrong; counts do not wrap |
| `kernel` | `Exec`, `Trap`, `UserCopy`, `Containers`, `KernelTests`, `Menu`, `Process` with failures | execv leaves nothing behind and a failed one keeps the program; user memory is seen by its process only, and nothing but an image with one segment makes a fault panic; containers are the sequences and sets they stand for; tests and menu tell the truth, and at power-off a volume is mounted only for another process or a failed sync; failures of fork are undone |
| `programs` | `Testbin`, `Badcall`, `Shell` | programs this kernel supports succeed, reap their children, leave nothing; those that read to the end of a file complain of that and of nothing else; wrong calls fail as expected; the shell waits for what it runs in the foreground and reports its status, and drops no job in silence |
| `progress` | `Synch`, `Process`, `Exec`, `KernelTests`, `Lhd`, `Emu`, `Console`, `Lamebus` | a free lock that is waited for is taken, spinlocks are released, whoever asks is answered |
| `process_lost_signal` | 2 processes | **violated**: waitpid may never return (below) |

**Bounds.** Two threads are enough for every pair of critical sections of the
allocator to interleave, and memory is small enough to run out in each of the
allocations of an address space. Three threads in `Synch` give an owner, a
sleeper and one that overtakes a woken thread. Three pids and four processes let
a pid be used again while its father lives, and two forking processes let forks
race. Two slots and three descriptors let each table fill before the other. Two
processors and three threads give an idle processor, a migrated thread and a
zombie; three threads on two processors compete for them in `scheduler_live` too.
The SFS instance has one direct and two indirect block pointers, so files
cross the boundary; each workload of `MCSfs` is small and has its own hazard, and
`MaxIO` is more transfers than an operation makes in any of them. Starvation by
overtaking in `P` does not happen in `progress`, as `MaxRequests`, `MaxOps` and
`MaxCalls` end what the overtakers ask for; that is why a lock is promised to
somebody only.
Constants named `Max...` cap what clients ask for (counts, requests, faults,
keys, offsets) and are guards on requests, never on what the kernel does with
them. Symmetry is used for threads, processes, blocks and names that differ in
nothing else, in runs of safety properties only.

Some properties are stated up to the point where the code goes wrong by itself,
which is listed under "Other disagreements":

- `memory`: states without `damage`, as after it frames of the kernel image are
  free. Memory that runs out in the middle of a load ends in damage, so
  `SpacesLoseNoFrame` covers what comes before.
- `sfs_volume`: states up to a lost block write ("stale") and up to blocks that two
  files claim after a stop, which `sfsck` reports and does not repair
  ("crosslinked"); `BlocksExact` does not cover those.
- `devices`: where `VOP_CREAT` meets a device that gives one handle twice, the
  vnodes of emufs are counted, but their handles may be closed (`progress` leaves
  that plan out); semfs leaves nothing behind unless it used a freed semaphore.
- `kernel`: execv leaves nothing behind unless the machine panicked.
- `programs`: `bgpids` of the shell never holds two jobs, as `waitpoll` drops a job
  that still runs, so its "too many jobs" is not reached.
- `progress`: waitpid is promised to return when it sleeps before its child exits;
  the window before that is the violated run.

`open_handles` has one process: two calls of `open` that race for a slot share a
struct openfile, and nothing that counts handles holds after that.

**Deadlock** is checked in `scheduler_live` only. Elsewhere the system really may
stop: all threads asleep in `cv_wait`, memory used up, processes gone, a machine
shut down or panicked, a test over.

**Fairness.** `scheduler_live` assumes strong fairness of the steps of each
processor, of those each thread takes inside the kernel when it is on one, and of
the timer: a processor goes on executing and in the end gets a spinlock it spins
for, a thread that is run again and again gets on with its call, and the timer line
stays asserted until it is served. The timer also gets a processor out of idling, so
that a missed interprocessor interrupt shows in `NoLostUnidle`, not here.
`progress` and `process_lost_signal` assume weak fairness of the steps each
thread takes *inside* the kernel, of devices completing what they were given and
of asserted interrupts being taken; `thread_switch` serves the run queue in order
and the clock preempts (which is `scheduler_live`). Nothing is assumed of what
programs ask for. A lock is promised to somebody, not to a particular thread, as
`P` lets a newcomer overtake.

### The violated run

`process_lost_signal`: `sys_waitpid` (`syscall/proc_syscalls.c:111`) reads
`p_numthreads` without `p_locklock` and then calls `cv_wait` without testing
again. A child that exits in between signals nobody, and the parent sleeps for
ever, although `man/syscall/waitpid.html:60` promises an immediate return. The
property `WaitpidReturns` fails under the fairness above; `progress` shows that a
waitpid asleep before its child exits does return.

## Proofs

Everything below holds for every value of the constants under the named
assumptions of the component's module, which TLC evaluates in the runs.

### Physical memory (`DumbvmProofs`)

Assumptions: the kernel image is not empty and fits, a stack and a heap block
have at least a page, the names of the holders are distinct.

Proved: `TypeOK` (`TypeCorrect`), `IInv` (`InductiveInvariant`), `FramesDisjoint`,
`FreeFramesUnused` and `FreesNoMoreThanHeld`.

The properties are not inductive. That frames stay disjoint needs to know that a
block ends below `firstpaddr`, that an entry of `allocSize` is not larger than its
block (for which frames not handed out yet must have none), that an address space
that does not exist holds nothing, and that two threads never work on one block or
one address space. `Sound` says this, and `IInv == damage = {} => Sound`: no step
takes `damage` away again. There is one lemma per action, about arbitrary frames,
so nothing depends on how much memory there is.

### Synchronisation (`SynchInvariant`, `SynchMonitor`, `SynchProofs`)

Assumptions: locks and semaphores have different names, the null values are no
thread, lock or condition variable, the set of threads is finite.

| Theorem | Says |
|---|---|
| `SynchInvariant`, `SynchTypeCorrect` | `IInv` and `TypeOK`; the semaphore of a lock is binary |
| `Mutual_Exclusion` | one thread at most is between `lock_acquire` and `lock_release`, across `cv_wait` too |
| `Owner_Is_Null` | `KASSERT(lock->lk_owner == NULL)` of `lock_acquire` never fires |
| `MonitorInvariant`, `OneSpinlockInSleep` | `MInv`; a thread goes to sleep with `cv_spinlock` and no other spinlock, as `wchan_sleep` asserts |
| `WakeupsAreNotLost` | while a thread sleeps in `P`, the count does not exceed the threads awake in `P` that are about to take it |
| `ImplementsMonitor` | every behaviour of `Synch` is one of `Monitor` |

*Mutual exclusion* follows a token: the one unit of a lock's semaphore is in its
count, or with exactly one thread: one past `P`, the owner, or one about to do
`V`. To carry this over a wakeup, `IInv` also says that the threads on a channel
are asleep on it, each once, so that a woken thread has no token, and that a thread
in `cv_wait` or `lock_release` owns its lock until it gives it up.

*Spinlocks.* `MInv` adds, for each thread, which spinlocks it has at each point
and which call it is in. It is inductive next to `IInv`: a step of one thread at
most wakes another and changes nothing else of it (`Others`), so it is enough to
look at the thread that moves.

*Refinement.* Inside `cv_wait` the lock is given up several steps before the thread
is on the channel. `cv_spinlock` belongs to that one thread meanwhile, so at most
one thread per condition variable is in between, and the mapping shows it as the
last of the waiters. `cv_signal` needs the same spinlock, so it finds the channel
as the mapping shows it. Each action is shown to be a step of `Monitor` or a
stutter, and the initial states to correspond.

*Wakeups.* For each semaphore the set of threads awake in `P` is compared before
and after the step: `V` raises the count by one and wakes one sleeper, `P` lowers
the count by one and leaves the set by one, and a thread goes to sleep only when the
count is 0. Counting finite sets is why threads are assumed finite.

### Processes (`ProcessInvariant`, `ProcessFork`, `ProcessWait`, `ProcessProofs`)

Assumptions: kproc is no user process, the null process is nobody, the table has
an entry. Nothing is assumed of `Forkers`, `Failures` or `Options`, except in
`WaitReportsExited`.

| Theorem | Says |
|---|---|
| `Invariance`, `TypeCorrect` | `IInv` and `TypeOK` |
| `PidsAreUnique` | no two live processes have one pid |
| `TreeIsATree` | child lists and father pids describe one tree at every moment |
| `OneReaper` | at most one thread waits for a process or destroys it |
| `WaitReportsExited` | with the plain form of waitpid only children whose thread has left are reported |

Pids are unique although `sys_fork` looks up an index outside the lock and
`add_newp` overwrites the table through it: the entry of a live process may name
another process, but is never free, and `proc_init` takes pids of free entries
only (`PidInv`). The tree is harder. `proc_destroy` frees the pid before
`proc_deinit` takes the process out of the tree, so the pid may be given to a new
process in between, and for a moment two structs share it. `TreeInv` therefore
speaks of every process that is *held* (alive, or the target of the thread that
destroys it) and says that two holders of one pid have disjoint child lists
(`ListsInv`) and that the new one is no child of the same father (`ReuseInv`).
`TargetInv` and `NewInv` tie a process to the one thread that waits for it or
creates it. `ThreadInv` and `SleepInv` relate `p_numthreads`, `p_cv` and what
threads do. `IInv` was checked by TLC before it was proved. `ProcessInvariant` has it and
the steps that leave table and tree alone; `ProcessFork` the steps of creation,
`ProcessWait` the search and the first half of destruction, `ProcessProofs`
`proc_deinit` and the theorems.

### Only model-checked

- Liveness (`ReadyRuns`, `LocksHandedOn`, `CallsReturn`, `WaitpidReturns`): proofs
  about fairness need ENABLED, which the prover does not handle.
- `SpacesLoseNoFrame`: its claim is about one kind of instance (no empty region),
  and it counts frames over all holders, an induction over data.
- `HeapSound`, `StacksSafe`, `QueuesExact`, `NoLostUnidle`, `InterruptsBalanced`:
  free lists and run queues are sequences threaded through several records, and
  `Scheduler` counts the places of a thread with a recursive operator.
- `open_handles`: its properties are about one process; for several they hold only
  as long as no two opens claim one slot.
- `sfs_volume` with its refinement: an operation goes through blocks and directory
  entries one by one, and what it leaves is a fact by induction over them.
- `devices`, `kernel`, `programs`: conjunctions over several components on fixed
  instances, some of them algorithms compared with a reference on bounded inputs.

## Other disagreements

These came up while the modules were written: places where the code and a comment,
an assertion, a manual page or a test disagree. The state is in the model. The
definition named fails when it is added to a configuration of its module; no run
is kept for it.

| Definition | What happens |
|---|---|
| `Dumbvm!KernelImageNotAllocatable` | `as_prepare_load` fails half way (`dumbvm.c:365`), and `as_destroy` frees frames of the kernel image through a base of 0 |
| `Process!OnlyReference` | `_exit` detaches its thread before it uses `p_locklock` and `p_cv` (`proc_syscalls.c:30`); the parent may destroy them in between |
| `Process!ChildIsFound` | two processes fork at once; `add_newp` (`proc.c:73`) stores through a stale index and overwrites the entry of another child |
| `Process!EnprocOnlyWhenFull` | the search for a pid (`proc.c:38`) never tests the entry `last_pid` |
| `Process!ReturnsOnlyExited`, with "WNOHANG" or "nostatus" in `Options` | waitpid reports a child that still runs |
| `Process!WaitpidReturns`, with "runprogram" in `Failures` | `cmd_progthread` (`menu.c:92`) leaves through `thread_exit` and nobody signals the menu |
| `Scheduler!OfflineHalts`, everything in `Does`, two threads, with fairness | an interprocessor interrupt sent between the handling of one and `lamebus_clear_ipi` is cleared unseen, and the processor is not switched off |
| `OpenFile!IndependentOpens`, two processes | two opens take one slot (`file_syscalls.c:244`) |
| `OpenFile!AcquireAssertion` | read and write return an error with the lock held (`file_syscalls.c:89`) |
| `OpenFile!EnfileOnlyWhenFull` | the last close leaves `vn` set (`file_syscalls.c:353`): the slot is never free again |
| `OpenFile!WritesThroughHandles` | write accepts fd = OPEN_MAX (`file_syscalls.c:51`) |
| `OpenFile!OffsetsNotNegative`, positions beyond `INT_MAX` | lseek keeps the position in an int (`file_syscalls.c:468`) |
| `Kmalloc!NeverPanics` | `freepageref` asserts that a root without a page has no pageref in use, while another thread has claimed one and is allocating the page |
| `Semfs!SleepersOnlyAtZero`, 5 calls | a second V finds the count positive and wakes nobody: a reader sleeps on while there is something to take |
| `Lhd!RetriedWritesLand` | `sfs_rwblock` repeats a transfer whose uio has already moved on |
| `Exec!FaultMeansBadPointer` | arguments that fill the buffer exactly leave no room for the next, and `copycheck` says EFAULT instead of "too long" |
| `Testbin!RedirectWorks` | fork does not copy the file table, so a child does not see a redirected file |
| `Shell!WaitWaits` | the builtin `wait` without arguments waits for nothing |
| `Badcall!TestsSurvived` | a call with fd = OPEN_MAX passes the test of the range |

More of them are states or results in the model that the properties above leave room
for:

| Where | What happens |
|---|---|
| `Dumbvm!PastEnd` | `getppages(0)` at the end of RAM writes `allocSize` past its end (`dumbvm.c:184`); to free that region breaks the assertion of `freeppages` (`dumbvm.c:198`) |
| `Exec!load_elf`, `Trap!vm_fault` | an executable with one segment loads, and the assertions of `vm_fault` (`dumbvm.c:285`) panic at its first fault |
| `Exec!argbuf_copyout` | strings of `ARG_MAX` bytes, with their uncounted pointers, do not fit the stack; `sys_execv` has no way back and panics (`proc_syscalls.c:266`), where the manual page of execv promises E2BIG |
| `Process!TableKeepsLive` | after a failed `cv_create` the table keeps an entry for a freed process (`proc.c:325`); after a failed `std_init` it keeps a process that nobody runs or reaps. The property says the rest: no live process is missing |
| `Sfs!sfs_writeblock` | "Read or write a block, retrying I/O errors" (`fs/sfs/sfs_io.c`): the retry of a write moves nothing and reports success; the block is lost, a clean mark is wrong, and `sfs_loadvnode` may panic on a block that was not cleared (`sfs_inode.c:214`) |
| `Semfs!RemoveRest` | `semfs_reclaim` destroys a semaphore while `semfs_remove` holds its lock (`semfs_vnops.c:495`) |
| `Emu!VnodesAreOpen` | `emufs_creat` lets `e_lock` go between the open and `emufs_loadvnode` (`emu.c:746`): another vnode of that handle may close it in between |
| `Lhd!lhd_io` | "this check can overflow" (`lhd.c:205`): the disk then refuses the sector, with EINVAL |
| `UserCalls!sys_read` | read at the end of a file is EFAULT, with the lock of the file kept, as `copyout` refuses 0 bytes (`file_syscalls.c:178`, `copyinout.c:125`); the manual page says 0 |
| `UserCalls!sys_waitpid` | with WNOHANG the pid of a child that runs is returned (`proc_syscalls.c:94`), so the shell takes its jobs for ended |
| `Testbin!getsize` | fstat returns 0 and fills nothing in (`syscall.c:157`); psort gives up |
| `Menu!vfs_unmountall` | an open file, or the current directory of another process, keeps a volume mounted at power-off (`sfs_fsops.c:284`) |

The panic "Cannot recover" of `sfs_rename` needs two transfers that fail; the runs
have one.

Smaller ones are visible in the definitions themselves: `sfs_itrunc` and `sfsck` on
an empty indirect block, a root directory from `mksfs` without `.` and `..`,
`emufs_loadvnode` keeping `vfs_biglock` when memory is out, `vfs_swapoff` without a
DECREF, `clocksleep` counting broadcasts rather than seconds, `sh` reaping
background jobs only on request.

## Not modelled

- The C library, `kprintf` and the string functions: sequential functions on text.
  `execvp` is in `Shell`, `strtok_r` in `Menu`; the line editors of the menu and the
  shell are left out.
- `hangman.c` (deadlock detection) and the debugging aids of `kmalloc.c` (guard
  bands, labels, dumps): off in the SHELL configuration, or printing.
- `addrspace.c` and the branches of `dumbvm.c` without freeing: not compiled here.
- Device entry points that wrap one register (random, beep, screen, trace).
- Programs that need calls this kernel does not have (`mkdir`, `sbrk`, `getdirentry`,
  `pipe`, ...): `frack`, `sbrktest`, `malloctest`, `dirseek` and their like; and
  programs that only compute.
- `dumpsfs`, which prints a volume; the sorting of `psort`, which this kernel never
  lets it reach.
- Memory ordering: spinlocks are taken for what they promise, and unlocked reads
  of a word see some value it has had.
- Names longer than a buffer, wording of messages, and contents of data where no
  property looks at them.

## Running it

In `tla/`: `tlc -config <cfg> <module>` with the pairs listed under "runs" in
`PROJECT.json`, and `tlapm <module>.tla` for the eight modules with theorems.
