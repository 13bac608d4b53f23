----------------------------- MODULE Scheduler -----------------------------
(***************************************************************************)
(* The thread system of OS/161 on several processors: run queues, idle     *)
(* processors, interprocessor interrupts, migration, zombies, the interrupt*)
(* priority counts (kern/thread/thread.c, clock.c, spinlock.c, *)
(* spl.c, arch/mips/thread/cpu.c, arch/mips/locore/trap.c and the bus code *)
(* that dispatches interrupts).                                            *)
(*                                                                         *)
(* A processor takes one step at a time; the steps end where the code takes*)
(* or drops a spinlock.  A critical section that takes no further lock is  *)
(* one step, guarded by the lock being free.  There is one wait channel,   *)
(* with its spinlock; it stands for lbolt or for the channel of a          *)
(* semaphore.                                                              *)
(***************************************************************************)
EXTENDS Integers, Sequences, FiniteSets, SequencesExt

CONSTANTS NumCpus,             \* processors 1 .. NumCpus; 1 is the boot cpu
          Threads,             \* thread structures the heap can hand out
          MIGRATE_HARDCLOCKS,  \* a processor migrates every so many ticks
          Does                 \* what threads do: "fork", "yield", "sleep", "wake",
                               \* "exit", "shutdown"; and "device", interrupts

Cpus == 1..NumCpus
Nobody == 0

ASSUME SchedulerAssumption ==
    /\ NumCpus \in Nat \ {0}
    /\ MIGRATE_HARDCLOCKS \in Nat \ {0}
    /\ IsFiniteSet(Threads) /\ Cardinality(Threads) >= NumCpus
    /\ Does \subseteq {"fork", "yield", "sleep", "wake", "exit", "shutdown", "device"}

VARIABLES
    pc,         \* what each processor does; "thread": it runs its curthread
    curthread,  \* c_curthread
    isidle,     \* c_isidle
    runqueue,   \* c_runqueue
    rqlock,     \* holder of c_runqueue_lock
    zombies,    \* c_zombies
    pending,    \* c_ipi_pending, a set of interrupt codes
    line,       \* whether the interrupt line of the processor is asserted
    causes,     \* interrupt causes the trap in progress has still to serve
    clocks,     \* c_hardclocks modulo MIGRATE_HARDCLOCKS
    mig,        \* locals of thread_consider_migration
    waking,     \* threads a wakeup has taken off the channel
    state,      \* t_state, "NONE" for a structure that is not allocated
    tcpu,       \* t_cpu
    tpc,        \* where the thread is in its own code
    child,      \* the thread a fork has created and not queued yet
    ipl,        \* t_iplhigh_count
    spl,        \* t_curspl
    frame,      \* what thread_switch keeps on the stack of the thread
    wchan,      \* wc_threads
    wclock      \* holder of the spinlock of the channel

vars == <<pc, curthread, isidle, runqueue, rqlock, zombies, pending, line,
          causes, clocks, mig, waking, state, tcpu, tpc, child, ipl, spl,
          frame, wchan, wclock>>


sched == <<curthread, isidle, runqueue, rqlock, zombies>>
irqs  == <<pending, line, causes>>
clock == <<clocks, mig>>
chan  == <<waking, wchan, wclock>>
thrd  == <<state, tcpu, tpc, child>>
level == <<ipl, spl, frame>>

NoThread == "nothread"
NoFrame == [spl |-> 0, irq |-> FALSE, to |-> "READY"]
NoMigration == [i |-> 0, my |-> 0, total |-> 0, share |-> 0, send |-> 0,
                victims |-> << >>]

TypeOK ==
    /\ pc \in [Cpus -> {"hatch", "thread", "switch", "pick", "wait",
                        "relock", "wake", "irq", "clear", "count", "give",
                        "giving", "halted"}]
    /\ curthread \in [Cpus -> Threads]
    /\ isidle \in [Cpus -> BOOLEAN]
    /\ \A c \in Cpus : runqueue[c] \in Seq(Threads)
    /\ rqlock \in [Cpus -> Cpus \cup {Nobody}]
    /\ \A c \in Cpus : zombies[c] \in Seq(Threads)
    /\ pending \in [Cpus -> SUBSET {"UNIDLE", "OFFLINE"}]
    /\ line \in [Cpus -> BOOLEAN]
    /\ causes \in [Cpus -> SUBSET {"device", "ipi", "timer"}]
    /\ clocks \in [Cpus -> 0..(MIGRATE_HARDCLOCKS - 1)]
    /\ \A c \in Cpus : mig[c].victims \in Seq(Threads)
    /\ \A c \in Cpus : mig[c].send \in Nat
    /\ \A c \in Cpus : waking[c] \in Seq(Threads)
    /\ state \in [Threads -> {"NONE", "READY", "RUN", "SLEEP", "ZOMBIE"}]
    /\ tcpu \in [Threads -> Cpus]
    /\ tpc \in [Threads -> {"run", "forked", "relk", "new"}]
    /\ child \in [Threads -> Threads \cup {NoThread}]
    /\ ipl \in [Threads -> Nat]
    /\ spl \in [Threads -> {0, 1}]
    /\ wchan \in Seq(Threads)
    /\ wclock \in Cpus \cup {Nobody}

(* After thread_bootstrap and lamebus_start_cpus: the boot processor runs  *)
(* its first thread with interrupts on; the others are at the start of     *)
(* cpu_hatch, with interrupts off and the thread cpu_create gave them.     *)
Init ==
    /\ pc = [c \in Cpus |-> IF c = 1 THEN "thread" ELSE "hatch"]
    /\ curthread \in Injection(Cpus, Threads)
    /\ isidle = [c \in Cpus |-> FALSE]
    /\ runqueue = [c \in Cpus |-> << >>]
    /\ rqlock = [c \in Cpus |-> Nobody]
    /\ zombies = [c \in Cpus |-> << >>]
    /\ pending = [c \in Cpus |-> {}]
    /\ line = [c \in Cpus |-> FALSE]
    /\ causes = [c \in Cpus |-> {}]
    /\ clocks = [c \in Cpus |-> 0]
    /\ mig = [c \in Cpus |-> NoMigration]
    /\ waking = [c \in Cpus |-> << >>]
    /\ state = [t \in Threads |-> IF t \in Range(curthread) THEN "RUN" ELSE "NONE"]
    /\ tcpu = [t \in Threads |-> IF t \in Range(curthread) THEN Inverse(curthread, Cpus, Threads)[t] ELSE 1]
    /\ tpc = [t \in Threads |-> "run"]
    /\ child = [t \in Threads |-> NoThread]
    /\ ipl = [t \in Threads |-> IF t \in Range(curthread) /\ tcpu[t] # 1 THEN 1 ELSE 0]
    /\ spl = ipl
    /\ frame = [t \in Threads |-> NoFrame]
    /\ wchan = << >>
    /\ wclock = Nobody

-----------------------------------------------------------------------------
(* Interrupt priority.  splhigh() and splx(s) count a change of level once *)
(* in t_iplhigh_count; every spinlock held counts once more.               *)

splhigh(count, old) == [count |-> IF old = 0 THEN count + 1 ELSE count,
                        spl |-> 1, old |-> old]

(* Mutant: lowering the level does not lower the count.                    *)
splxKeeps(count, old, s) == [count |-> count, spl |-> IF old > s THEN s ELSE old]
splx(count, old, s) == [count |-> IF old > s THEN count - 1 ELSE count,
                        spl |-> IF old > s THEN s ELSE old]

(* Processor c is executing the code of its current thread.                *)
Runs(c, p) == pc[c] = "thread" /\ tpc[curthread[c]] = p

(* ipi_send: note the code and assert the line of the target.              *)
Sent(c, code) ==
    /\ pending' = [pending EXCEPT ![c] = @ \cup {code}]
    /\ line' = [line EXCEPT ![c] = TRUE]

(* Whether a thread that becomes runnable on d is worth an interrupt: only *)
(* an idle processor waits for one, and not when it is this processor.     *)
(* Mutant: no interrupt when one is already noted.                         *)
NeedsUnidleUnlessPending(d, c) == isidle[d] /\ d # c /\ "UNIDLE" \notin pending[d]
NeedsUnidle(d, c) == isidle[d] /\ d # c

(* thread_make_runnable by processor c, not holding the run queue lock.    *)
MakeRunnable(c, t) ==
    LET d == tcpu[t] IN
    /\ rqlock[d] = Nobody
    /\ state' = [state EXCEPT ![t] = "READY"]
    /\ runqueue' = [runqueue EXCEPT ![d] = Append(@, t)]
    /\ IF NeedsUnidle(d, c) THEN Sent(d, "UNIDLE")
                            ELSE UNCHANGED <<pending, line>>

-----------------------------------------------------------------------------
(* What a thread can do.                                                   *)

(* thread_fork, first part: a structure and a stack, on the processor of   *)
(* the caller.  The count starts at 1 for t_curspl and gets 1 for the run  *)
(* queue lock that thread_startup releases.                                *)
NewIplCount == 2

ForkCreate(c) ==
    LET cur == curthread[c] IN
    /\ "fork" \in Does /\ Runs(c, "run")
    /\ \E t \in Threads :
         /\ state[t] = "NONE"
         /\ state' = [state EXCEPT ![t] = "READY"]
         /\ tcpu' = [tcpu EXCEPT ![t] = tcpu[cur]]
         /\ ipl' = [ipl EXCEPT ![t] = NewIplCount]
         /\ spl' = [spl EXCEPT ![t] = 1]
         /\ frame' = [frame EXCEPT ![t] = NoFrame]
         /\ tpc' = [tpc EXCEPT ![t] = "new", ![cur] = "forked"]
         /\ child' = [child EXCEPT ![cur] = t]
    /\ UNCHANGED <<pc, sched, irqs, clock, chan>>

(* The caller may have been preempted and moved since; the new thread is   *)
(* queued on the processor noted above.                                    *)
ForkQueue(c) ==
    LET cur == curthread[c] IN
    /\ Runs(c, "forked")
    /\ MakeRunnable(c, child[cur])
    /\ tpc' = [tpc EXCEPT ![cur] = "run"]
    /\ child' = [child EXCEPT ![cur] = NoThread]
    /\ UNCHANGED <<pc, curthread, isidle, rqlock, zombies, causes, tcpu, clock, chan, level>>

(* Enter thread_switch(s): interrupts off; irq says that the caller is     *)
(* hardclock, in the trap handler.                                         *)
EnterSwitch(c, s, irq) ==
    LET cur == curthread[c]
        h == splhigh(ipl[cur], spl[cur]) IN
    /\ pc' = [pc EXCEPT ![c] = "switch"]
    /\ ipl' = [ipl EXCEPT ![cur] = h.count]
    /\ spl' = [spl EXCEPT ![cur] = h.spl]
    /\ frame' = [frame EXCEPT ![cur] = [spl |-> h.old, irq |-> irq, to |-> s]]

(* thread_yield, called by the thread itself.                              *)
thread_yield(c) ==
    /\ "yield" \in Does /\ Runs(c, "run")
    /\ EnterSwitch(c, "READY", FALSE)
    /\ UNCHANGED <<sched, irqs, clock, chan, thrd>>

(* A thread takes the spinlock of the channel and calls wchan_sleep.  One  *)
(* step, because interrupts are off once the lock is held.                 *)
wchan_sleep(c) ==
    LET cur == curthread[c]
        h == splhigh(ipl[cur] + 1, spl[cur]) IN
    /\ "sleep" \in Does /\ Runs(c, "run")
    /\ wclock = Nobody
    /\ wclock' = c
    /\ pc' = [pc EXCEPT ![c] = "switch"]
    /\ ipl' = [ipl EXCEPT ![cur] = h.count]
    /\ spl' = [spl EXCEPT ![cur] = h.spl]
    /\ frame' = [frame EXCEPT ![cur] = [spl |-> h.old, irq |-> FALSE, to |-> "SLEEP"]]
    /\ tpc' = [tpc EXCEPT ![cur] = "relk"]
    /\ UNCHANGED <<waking, state, tcpu, child, wchan, sched, irqs, clock>>

(* The end of wchan_sleep, in a thread that was woken: take the spinlock   *)
(* again; the caller tests its condition and releases it.                  *)
Relock(c) ==
    /\ Runs(c, "relk")
    /\ wclock = Nobody
    /\ tpc' = [tpc EXCEPT ![curthread[c]] = "run"]
    /\ UNCHANGED <<pc, state, tcpu, child, sched, irqs, clock, chan, level>>

(* wchan_wakeone takes the first sleeper off the channel, wchan_wakeall    *)
(* all of them; each is then made runnable, the spinlock still held.       *)
TakeSleepers(c) ==
    /\ wclock = Nobody
    /\ wclock' = c
    /\ \E n \in {IF wchan = << >> THEN 0 ELSE 1, Len(wchan)} :
         /\ waking' = [waking EXCEPT ![c] = SubSeq(wchan, 1, n)]
         /\ wchan' = SubSeq(wchan, n + 1, Len(wchan))
    /\ ipl' = [ipl EXCEPT ![curthread[c]] = @ + 1]
    /\ pc' = [pc EXCEPT ![c] = "wake"]

wchan_wake(c) ==
    /\ "wake" \in Does /\ Runs(c, "run")
    /\ TakeSleepers(c)
    /\ UNCHANGED <<spl, frame, sched, irqs, clock, thrd>>

WakeNext(c) ==
    /\ pc[c] = "wake" /\ waking[c] # << >>
    /\ MakeRunnable(c, Head(waking[c]))
    /\ waking' = [waking EXCEPT ![c] = Tail(@)]
    /\ UNCHANGED <<pc, curthread, isidle, rqlock, zombies, causes, tcpu, tpc, child, wchan, wclock, clock, level>>

(* In the trap handler a wakeup is followed by the next interrupt cause.   *)
WakeDone(c) ==
    /\ pc[c] = "wake" /\ waking[c] = << >>
    /\ wclock' = Nobody
    /\ ipl' = [ipl EXCEPT ![curthread[c]] = @ - 1]
    /\ pc' = [pc EXCEPT ![c] = IF spl[curthread[c]] = 1 THEN "irq" ELSE "thread"]
    /\ UNCHANGED <<waking, spl, frame, wchan, sched, irqs, clock, thrd>>

(* thread_exit; cpu_hatch ends the same way after turning interrupts on.   *)
thread_exit(c) ==
    /\ "exit" \in Does /\ Runs(c, "run")
    /\ EnterSwitch(c, "ZOMBIE", FALSE)
    /\ UNCHANGED <<sched, irqs, clock, chan, thrd>>

cpu_hatch(c) ==
    LET cur == curthread[c]
        x == splx(ipl[cur], spl[cur], 0) IN
    /\ pc[c] = "hatch"
    /\ pc' = [pc EXCEPT ![c] = "thread"]
    /\ ipl' = [ipl EXCEPT ![cur] = x.count]
    /\ spl' = [spl EXCEPT ![cur] = x.spl]
    /\ UNCHANGED <<frame, sched, irqs, clock, chan, thrd>>

(* shutdown: ask the other processors to go offline, then power off.       *)
thread_shutdown(c) ==
    /\ "shutdown" \in Does /\ Runs(c, "run")
    /\ pending' = [d \in Cpus |-> IF d = c THEN pending[d]
                                  ELSE pending[d] \cup {"OFFLINE"}]
    /\ line' = [d \in Cpus |-> IF d = c THEN line[d] ELSE TRUE]
    /\ pc' = [pc EXCEPT ![c] = "halted"]
    /\ UNCHANGED <<causes, sched, clock, chan, thrd, level>>

-----------------------------------------------------------------------------
(* thread_switch.                                                          *)

(* A thread that gives way queues behind the others.                       *)
(* Mutant: before them.                                                    *)
QueuedFirst(q, t) == << t >> \o q
Queued(q, t) == Append(q, t)

(* Lock the run queue and put the thread where it belongs.  A sleeper is on *)
(* the channel and its spinlock free before t_state says so.  A yield with  *)
(* nothing else to run returns at once.                                     *)
SwitchQueue(c) ==
    LET cur == curthread[c] to == frame[cur].to IN
    /\ pc[c] = "switch" /\ rqlock[c] = Nobody
    /\ to # "READY" \/ runqueue[c] # << >>
    /\ rqlock' = [rqlock EXCEPT ![c] = c]
    /\ runqueue' = IF to = "READY" THEN [runqueue EXCEPT ![c] = Queued(@, cur)]
                                   ELSE runqueue
    /\ zombies' = IF to = "ZOMBIE" THEN [zombies EXCEPT ![c] = Append(@, cur)]
                                   ELSE zombies
    /\ IF to = "SLEEP"
       THEN wchan' = Append(wchan, cur) /\ wclock' = Nobody /\ ipl' = ipl
       ELSE ipl' = [ipl EXCEPT ![cur] = @ + 1] /\ UNCHANGED <<wchan, wclock>>
    /\ pc' = [pc EXCEPT ![c] = "pick"]
    /\ UNCHANGED <<curthread, isidle, waking, spl, frame, irqs, clock, thrd>>

(* Back in the caller: for hardclock, mips_trap undoes the adjustment it   *)
(* made when it found interrupts on.                                       *)
ReturnFromSwitch(c, t, counts) ==
    LET x == splx(counts[t], spl[t], frame[t].spl) IN
    /\ ipl' = [counts EXCEPT ![t] = IF frame[t].irq THEN x.count - 1 ELSE x.count]
    /\ spl' = [spl EXCEPT ![t] = IF frame[t].irq THEN 0 ELSE x.spl]
    /\ frame' = [frame EXCEPT ![t] = NoFrame]
    /\ pc' = [pc EXCEPT ![c] = "thread"]

SwitchNothing(c) ==
    /\ pc[c] = "switch" /\ rqlock[c] = Nobody
    /\ frame[curthread[c]].to = "READY" /\ runqueue[c] = << >>
    /\ ReturnFromSwitch(c, curthread[c], ipl)
    /\ UNCHANGED <<sched, irqs, clock, chan, thrd>>

(* The stack that exorcise frees, and its structure: those of the zombies  *)
(* of this processor.                                                      *)
Exorcised(c) == {zombies[c][i] : i \in 1..Len(zombies[c])}

(* Take the next thread, with the run queue locked, and run the end of     *)
(* thread_switch or the start of thread_startup on its stack: its state,   *)
(* unlock, as_activate, exorcise, and interrupts as they were (on, for a   *)
(* new thread).  states and counts: t_state and t_iplhigh_count with the   *)
(* old thread queued and the lock counted.                                 *)
SwitchTo(c, t, states, counts) ==
    /\ curthread' = [curthread EXCEPT ![c] = t]
    /\ runqueue' = [runqueue EXCEPT ![c] = Tail(@)]
    /\ isidle' = [isidle EXCEPT ![c] = FALSE]
    /\ state' = [u \in Threads |-> IF u = t THEN "RUN"
                                   ELSE IF u \in Exorcised(c) THEN "NONE"
                                   ELSE states[u]]
    /\ tcpu' = [u \in Threads |-> IF u \in Exorcised(c) THEN 1 ELSE tcpu[u]]
    /\ rqlock' = [rqlock EXCEPT ![c] = Nobody]
    /\ zombies' = [zombies EXCEPT ![c] = << >>]
    /\ ReturnFromSwitch(c, t, [u \in Threads |-> IF u = t THEN counts[t] - 1
                                              ELSE IF u \in Exorcised(c) THEN 0
                                              ELSE counts[u]])
    /\ tpc' = [tpc EXCEPT ![t] = IF @ = "new" THEN "run" ELSE @]
    /\ UNCHANGED <<child, irqs, clock, chan>>

(* Set t_state of the old thread, then look for the next one; with none,   *)
(* unlock and wait in cpu_idle.                                            *)
SwitchPick(c) ==
    LET cur == curthread[c]
        states == [state EXCEPT ![cur] = frame[cur].to] IN
    /\ pc[c] = "pick"
    /\ IF runqueue[c] # << >>
       THEN SwitchTo(c, Head(runqueue[c]), states, ipl)
       ELSE /\ state' = states
            /\ isidle' = [isidle EXCEPT ![c] = TRUE]
            /\ rqlock' = [rqlock EXCEPT ![c] = Nobody]
            /\ ipl' = [ipl EXCEPT ![cur] = @ - 1]
            /\ pc' = [pc EXCEPT ![c] = "wait"]
            /\ UNCHANGED <<curthread, runqueue, zombies, tcpu, tpc, child,
                           spl, frame, irqs, clock, chan>>

(* After cpu_idle has let the interrupt in: lock and look again.           *)
IdleAgain(c) ==
    /\ pc[c] = "relock" /\ rqlock[c] = Nobody
    /\ IF runqueue[c] # << >>
       THEN SwitchTo(c, Head(runqueue[c]), state,
                     [ipl EXCEPT ![curthread[c]] = @ + 1])
       ELSE /\ pc' = [pc EXCEPT ![c] = "wait"]
            /\ UNCHANGED <<sched, irqs, clock, chan, thrd, level>>

-----------------------------------------------------------------------------
(* Interrupts.                                                             *)

(* The hardware interrupts a processor whose current thread has no reason  *)
(* to keep interrupts off, or that waits in cpu_idle.  mips_trap raises    *)
(* the recorded level when it was low.  Devices interrupt the boot         *)
(* processor only (CTLCPU_CIRQE).                                          *)
Interruptible(c) ==
    pc[c] = "wait" \/ (pc[c] = "thread" /\ ipl[curthread[c]] = 0)

mips_trap(c) ==
    LET cur == curthread[c] IN
    /\ Interruptible(c)
    /\ \E cause \in SUBSET {"device", "ipi", "timer"} :
         /\ cause # {}
         /\ "ipi" \in cause <=> line[c]
         /\ "device" \in cause => c = 1 /\ "device" \in Does
         /\ causes' = [causes EXCEPT ![c] = cause]
    /\ ipl' = [ipl EXCEPT ![cur] = IF spl[cur] = 0 THEN @ + 1 ELSE @]
    /\ spl' = [spl EXCEPT ![cur] = 1]
    /\ pc' = [pc EXCEPT ![c] = "irq"]
    /\ UNCHANGED <<pending, line, frame, sched, clock, chan, thrd>>

(* mainbus_interrupt serves the causes in this order.                      *)
lamebus_interrupt(c) ==
    /\ pc[c] = "irq" /\ "device" \in causes[c]
    /\ TakeSleepers(c)
    /\ causes' = [causes EXCEPT ![c] = @ \ {"device"}]
    /\ UNCHANGED <<pending, line, spl, frame, sched, clock, thrd>>

(* interprocessor_interrupt; a processor asked to go offline halts, once   *)
(* it can look at its run queue.                                           *)
interprocessor_interrupt(c) ==
    /\ pc[c] = "irq" /\ "device" \notin causes[c] /\ "ipi" \in causes[c]
    /\ causes' = [causes EXCEPT ![c] = @ \ {"ipi"}]
    /\ IF "OFFLINE" \in pending[c]
       THEN /\ rqlock[c] = Nobody
            /\ pc' = [pc EXCEPT ![c] = "halted"]
            /\ UNCHANGED pending
       ELSE /\ pending' = [pending EXCEPT ![c] = {}]
            /\ pc' = [pc EXCEPT ![c] = "clear"]
    /\ UNCHANGED <<line, sched, clock, chan, thrd, level>>

lamebus_clear_ipi(c) ==
    /\ pc[c] = "clear"
    /\ line' = [line EXCEPT ![c] = FALSE]
    /\ pc' = [pc EXCEPT ![c] = "irq"]
    /\ UNCHANGED <<pending, causes, sched, clock, chan, thrd, level>>

(* thread_yield from hardclock; the idle loop is left alone.               *)
HardclockYield(c) ==
    IF isidle[c] THEN pc' = [pc EXCEPT ![c] = "relock"] /\ UNCHANGED level
                 ELSE EnterSwitch(c, "READY", TRUE)

(* hardclock: count, migrate on every MIGRATE_HARDCLOCKS-th tick, yield.   *)
hardclock(c) ==
    LET n == (clocks[c] + 1) % MIGRATE_HARDCLOCKS IN
    /\ pc[c] = "irq" /\ causes[c] = {"timer"}
    /\ causes' = [causes EXCEPT ![c] = {}]
    /\ clocks' = [clocks EXCEPT ![c] = n]
    /\ IF n = 0 THEN /\ pc' = [pc EXCEPT ![c] = "count"]
                     /\ mig' = [mig EXCEPT ![c].i = 1]
                     /\ UNCHANGED level
                ELSE HardclockYield(c) /\ UNCHANGED mig
    /\ UNCHANGED <<pending, line, sched, chan, thrd>>

(* The end of a trap that had no tick to serve.                            *)
TrapReturn(c) ==
    LET cur == curthread[c] IN
    /\ pc[c] = "irq" /\ causes[c] = {}
    /\ ipl' = [ipl EXCEPT ![cur] = IF isidle[c] THEN @ ELSE @ - 1]
    /\ spl' = [spl EXCEPT ![cur] = IF isidle[c] THEN @ ELSE 0]
    /\ pc' = [pc EXCEPT ![c] = IF isidle[c] THEN "relock" ELSE "thread"]
    /\ UNCHANGED <<frame, sched, irqs, clock, chan, thrd>>

-----------------------------------------------------------------------------
(* thread_consider_migration, in hardclock, interrupts off.                *)

Ceil(a, b) == (a + b - 1) \div b

(* Count the queued threads, one processor at a time under its lock.       *)
MigrateCount(c) ==
    LET m == mig[c] n == Len(runqueue[m.i]) IN
    /\ pc[c] = "count" /\ m.i \in Cpus
    /\ rqlock[m.i] = Nobody
    /\ mig' = [mig EXCEPT ![c] = [m EXCEPT !.i = @ + 1, !.total = @ + n,
                                           !.my = IF m.i = c THEN n ELSE @]]
    /\ UNCHANGED <<pc, clocks, sched, irqs, chan, thrd, level>>

(* Nothing to send: this processor has less than its share.                *)
MigrateNothing(c) ==
    LET m == mig[c] IN
    /\ pc[c] = "count" /\ m.i = NumCpus + 1
    /\ m.my < Ceil(m.total, NumCpus)
    /\ mig' = [mig EXCEPT ![c] = NoMigration]
    /\ HardclockYield(c)
    /\ UNCHANGED <<clocks, sched, irqs, chan, thrd>>

(* Take the surplus off the tail of the own queue.                         *)
NextOther(c, i) == IF i = c THEN i + 1 ELSE i

MigrateTake(c) ==
    LET m == mig[c]
        share == Ceil(m.total, NumCpus)
        send == m.my - share
        n == Len(runqueue[c]) IN
    /\ pc[c] = "count" /\ m.i = NumCpus + 1
    /\ m.my >= share
    /\ rqlock[c] = Nobody
    /\ runqueue' = [runqueue EXCEPT ![c] = SubSeq(@, 1, n - send)]
    /\ mig' = [mig EXCEPT ![c] = [NoMigration EXCEPT !.i = NextOther(c, 1),
                    !.share = share, !.send = send,
                    !.victims = SubSeq(runqueue[c], n - send + 1, n)]]
    /\ pc' = [pc EXCEPT ![c] = "give"]
    /\ UNCHANGED <<curthread, isidle, rqlock, zombies, clocks, irqs, chan,
                   thrd, level>>

(* Lock the next processor.                                                *)
MigrateLock(c) ==
    LET m == mig[c] IN
    /\ pc[c] = "give" /\ m.i \in Cpus /\ m.send > 0
    /\ rqlock[m.i] = Nobody
    /\ rqlock' = [rqlock EXCEPT ![m.i] = c]
    /\ pc' = [pc EXCEPT ![c] = "giving"]
    /\ UNCHANGED <<curthread, isidle, runqueue, zombies, irqs, clock,
                   chan, thrd, level>>

(* One round of the loop: a victim that is the current thread goes to the  *)
(* end of the list and is not given away.                                  *)
(* Mutant: the current thread is given away like any other.                *)
NeverSkipped(c, t) == FALSE
IsSkipped(c, t) == t = curthread[c]

MigrateGive(c) ==
    LET m == mig[c] t == Head(m.victims) IN
    /\ pc[c] = "giving"
    /\ Len(runqueue[m.i]) < m.share /\ m.send > 0
    /\ IF IsSkipped(c, t)
       THEN /\ mig' = [mig EXCEPT ![c] = [m EXCEPT !.send = @ - 1,
                                   !.victims = Append(Tail(@), t)]]
            /\ UNCHANGED <<tcpu, runqueue, pending, line>>
       ELSE /\ mig' = [mig EXCEPT ![c] = [m EXCEPT !.send = @ - 1,
                                                   !.victims = Tail(@)]]
            /\ tcpu' = [tcpu EXCEPT ![t] = m.i]
            /\ runqueue' = [runqueue EXCEPT ![m.i] = Append(@, t)]
            /\ IF isidle[m.i] THEN Sent(m.i, "UNIDLE") ELSE UNCHANGED <<pending, line>>
    /\ UNCHANGED <<pc, curthread, isidle, rqlock, zombies, causes, clocks,
                   state, tpc, child, chan, level>>

MigrateUnlock(c) ==
    LET m == mig[c] IN
    /\ pc[c] = "giving"
    /\ Len(runqueue[m.i]) >= m.share \/ m.send = 0
    /\ rqlock' = [rqlock EXCEPT ![m.i] = Nobody]
    /\ mig' = [mig EXCEPT ![c].i = NextOther(c, @ + 1)]
    /\ pc' = [pc EXCEPT ![c] = "give"]
    /\ UNCHANGED <<curthread, isidle, runqueue, zombies, clocks, irqs,
                   chan, thrd, level>>

(* Put what is left back on the own queue.                                 *)
(* Mutant: the victims nobody took are forgotten.                          *)
LeftoversDropped(c) == << >>
Leftovers(c) == mig[c].victims

MigrateBack(c) ==
    /\ pc[c] = "give" /\ (mig[c].i \notin Cpus \/ mig[c].send = 0)
    /\ mig[c].victims # << >> => rqlock[c] = Nobody
    /\ runqueue' = [runqueue EXCEPT ![c] = @ \o Leftovers(c)]
    /\ mig' = [mig EXCEPT ![c] = NoMigration]
    /\ HardclockYield(c)
    /\ UNCHANGED <<curthread, isidle, rqlock, zombies, clocks, irqs, chan,
                   thrd>>

-----------------------------------------------------------------------------
ThreadStep(c) ==
    \/ ForkCreate(c) \/ thread_yield(c) \/ wchan_sleep(c) \/ wchan_wake(c)
    \/ thread_exit(c) \/ thread_shutdown(c)

KernelStep(c) ==
    \/ ForkQueue(c) \/ Relock(c) \/ cpu_hatch(c) \/ WakeNext(c) \/ WakeDone(c)
    \/ SwitchQueue(c) \/ SwitchNothing(c) \/ SwitchPick(c) \/ IdleAgain(c)
    \/ lamebus_interrupt(c) \/ interprocessor_interrupt(c)
    \/ lamebus_clear_ipi(c) \/ hardclock(c) \/ TrapReturn(c)
    \/ MigrateCount(c) \/ MigrateNothing(c) \/ MigrateTake(c)
    \/ MigrateLock(c) \/ MigrateGive(c) \/ MigrateUnlock(c) \/ MigrateBack(c)

Next == \E c \in Cpus : ThreadStep(c) \/ KernelStep(c) \/ mips_trap(c)

Spec == Init /\ [][Next]_vars

(* Every processor goes on executing the kernel and gets a spinlock it     *)
(* spins for (test-and-set on one bus), and its timer, which stays asserted*)
(* until it is served, goes on interrupting it.  What a thread does is up  *)
(* to it, but between two ticks it gets some way: one that runs again and  *)
(* again finishes a fork or a sleep.                                       *)
TimerTick(c) == mips_trap(c) /\ "timer" \in causes'[c]
OwnStep(t) == \E c \in Cpus : curthread[c] = t /\ (ForkQueue(c) \/ Relock(c))

Fairness ==
    /\ \A c \in Cpus : SF_vars(KernelStep(c)) /\ SF_vars(TimerTick(c))
    /\ \A t \in Threads : SF_vars(OwnStep(t))

FairSpec == Spec /\ Fairness

-----------------------------------------------------------------------------
(* Properties.                                                             *)

(* Threads whose kernel stack a processor is using.  An idle processor     *)
(* still runs on the stack of the thread that switched away last.          *)
(* No stack is used by two processors: a sleeping thread whose processor   *)
(* went idle is woken, queued, and must not be given to another processor  *)
(* before this one has left its stack.                                     *)
OneProcessorPerStack ==
    \A c, d \in Cpus : curthread[c] = curthread[d] => c = d

(* Everywhere a thread can be: in a queue, among the victims of a          *)
(* migration, on the channel, taken off it, or running.                    *)
Places(t) ==
    [c \in Cpus |-> <<Len(SelectSeq(runqueue[c], LAMBDA u : u = t)),
                      Len(SelectSeq(mig[c].victims, LAMBDA u : u = t)),
                      Len(SelectSeq(waking[c], LAMBDA u : u = t)),
                      Len(SelectSeq(zombies[c], LAMBDA u : u = t)),
                      IF curthread[c] = t /\ ~isidle[c]
                         /\ pc[c] # "pick" THEN 1 ELSE 0>>]

HowOften(t) ==
    LET RECURSIVE Total(_)
        Total(c) == IF c = 0 THEN 0
                    ELSE Total(c - 1) + Places(t)[c][1] + Places(t)[c][2]
                         + Places(t)[c][3] + Places(t)[c][4] + Places(t)[c][5]
    IN  Total(NumCpus) + Len(SelectSeq(wchan, LAMBDA u : u = t))
        + Cardinality({u \in Threads : child[u] = t})

(* No thread is lost or duplicated: whatever is forked, woken, switched    *)
(* and migrated at the same time, a thread that exists is in one place.    *)
EachThreadOnce ==
    \A t \in Threads : HowOften(t) = IF state[t] = "NONE" THEN 0 ELSE 1

(* exorcise never frees the stack a processor is on.                       *)
NoStackFreedInUse ==
    \A c \in Cpus : state[curthread[c]] # "NONE"

(* A stack has one processor at a time, and none that is used is freed.    *)
StacksSafe == OneProcessorPerStack /\ NoStackFreedInUse

(* A queued thread is on the queue of its t_cpu, and is ready: what        *)
(* thread_make_runnable relies on when it picks the lock to take.          *)
QueuedWhereItBelongs ==
    \A c \in Cpus : \A i \in 1..Len(runqueue[c]) :
        /\ tcpu[runqueue[c][i]] = c
        /\ pc[c] # "pick" => state[runqueue[c][i]] = "READY"

(* Every thread is in one place, and that the right one.                   *)
QueuesExact == EachThreadOnce /\ QueuedWhereItBelongs

(* No wakeup of a processor is lost: one that waits in cpu_idle while its  *)
(* queue holds a thread has its interrupt line asserted.  The line is      *)
(* cleared after the pending codes were read, so a new code can lose its   *)
(* signal; the queue is looked at again after that.                        *)
NoLostUnidle ==
    \A c \in Cpus : pc[c] = "wait" /\ runqueue[c] # << >> => line[c]

(* splhigh, splx, spinlocks and traps nest: a thread in its own code has   *)
(* interrupts on, and one in the kernel has them off.                      *)
InterruptsBalanced ==
    \A c \in Cpus : LET t == curthread[c] IN
        /\ pc[c] = "thread" => ipl[t] = 0 /\ spl[t] = 0
        /\ pc[c] \notin {"thread", "halted"} => ipl[t] > 0

(* Every ready thread runs in the end, on whatever processor it ends up,   *)
(* although more threads than processors compete, come and go, and are     *)
(* moved from queue to queue.                                              *)
ReadyRuns ==
    \A t \in Threads : state[t] = "READY" ~> state[t] \in {"RUN", "ZOMBIE", "NONE"}

(* A processor told to go offline halts: thread_shutdown asks "the other   *)
(* CPUs to switch off".                                                    *)
OfflineHalts ==
    \A c \in Cpus : "OFFLINE" \in pending[c] ~> pc[c] = "halted"
=============================================================================
