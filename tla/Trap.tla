-------------------------------- MODULE Trap --------------------------------
(***************************************************************************)
(* From user mode into the kernel and back: traps (arch/mips/locore/       *)
(* trap.c), interrupt levels (thread/spl.c), the TLB and page faults       *)
(* (vm_fault and as_activate of dumbvm.c), copies from and to user memory  *)
(* with their recovery from bad addresses (vm/copyinout.c), and the places *)
(* where a process changes or loses its address space.                     *)
(*                                                                         *)
(* An address space is a set of <<page, frame>> pairs; a process with none *)
(* has NULL.  Interrupts arrive at any instruction at which the processor  *)
(* takes them, and may end in a switch to another thread.                  *)
(***************************************************************************)
EXTENDS Integers, FiniteSets

CONSTANTS Cpu, Proc, Page, Frame,
          NUM_TLB,
          MaxExecs, MaxIrqs

VARIABLES cur,       \* [Cpu -> process whose thread runs, or Idle]
          tlb,       \* [Cpu -> the valid entries]
          as,        \* [Proc -> its address space]
          regions,   \* [Proc -> the regions that as_prepare_load found, 0 before it]
          where,     \* [Proc -> "user", "kernel", "copy" (user memory from the kernel),
                     \*  "setas" (new space, not yet activated), "exited", "gone"]
          badfault,  \* [Proc -> tm_badfaultfunc is set]
          t_curspl, t_iplhigh_count, in_irq, adjusted,  \* per thread
          irqon,     \* [Cpu -> the processor takes interrupts]
          fresh,     \* [Proc -> thread_switch's as_activate is still to come]
          execs, irqs, panicked

vars == <<cur, tlb, as, regions, where, badfault, t_curspl, t_iplhigh_count, in_irq, adjusted,
          irqon, fresh, execs, irqs, panicked>>
levels == <<t_curspl, t_iplhigh_count, in_irq, adjusted, irqon>>

Idle == 0
FramesOf(s) == {e[2] : e \in s}
FreeFrames == Frame \ UNION {FramesOf(as[p]) : p \in Proc}
Spaces(F) == {s \in SUBSET (Page \X F) :
                \A d, e \in s : d # e => d[1] # e[1] /\ d[2] # e[2]}
FullSpaces(F) == {s \in Spaces(F) : {e[1] : e \in s} = Page}

Init ==
  /\ as = CHOOSE f \in [Proc -> FullSpaces(Frame)] :
            \A p, q \in Proc : p # q => FramesOf(f[p]) \cap FramesOf(f[q]) = {}
  /\ cur = [c \in Cpu |-> Idle] /\ tlb = [c \in Cpu |-> {}]
  /\ regions = [p \in Proc |-> 2] /\ where = [p \in Proc |-> "user"]
  /\ badfault = [p \in Proc |-> FALSE]
  /\ t_curspl = [p \in Proc |-> 0] /\ t_iplhigh_count = [p \in Proc |-> 0]
  /\ in_irq = [p \in Proc |-> FALSE] /\ adjusted = [p \in Proc |-> FALSE]
  /\ irqon = [c \in Cpu |-> TRUE] /\ fresh = [p \in Proc |-> FALSE]
  /\ execs = 0 /\ irqs = 0 /\ panicked = FALSE

Kernel(p) == where[p] \in {"kernel", "copy", "setas"} /\ ~in_irq[p]
Runs(c, p) == cur[c] = p /\ ~fresh[p]

(***************************************************************************)
(* Interrupt levels.  Interrupts go off at the first raise and on again at *)
(* the last lower.                                                         *)
(***************************************************************************)
splraise(c, p) ==
  /\ Runs(c, p) /\ Kernel(p) /\ t_iplhigh_count[p] < 2
  /\ t_iplhigh_count' = [t_iplhigh_count EXCEPT ![p] = @ + 1]
  /\ irqon' = [irqon EXCEPT ![c] = FALSE]
  /\ UNCHANGED <<cur, tlb, as, regions, where, badfault, t_curspl, in_irq, adjusted, fresh, execs,
                 irqs, panicked>>

spllower(c, p) ==
  /\ Runs(c, p) /\ Kernel(p) /\ t_iplhigh_count[p] > 0
  /\ t_iplhigh_count' = [t_iplhigh_count EXCEPT ![p] = @ - 1]
  /\ irqon' = [irqon EXCEPT ![c] = (t_iplhigh_count[p] = 1)]
  /\ UNCHANGED <<cur, tlb, as, regions, where, badfault, t_curspl, in_irq, adjusted, fresh, execs,
                 irqs, panicked>>

(* An interrupt: the processor has turned interrupts off; if the recorded  *)
(* level is low it is made to agree.                                       *)
Interrupt(c, p) ==
  /\ Runs(c, p) /\ irqon[c] /\ where[p] # "gone" /\ irqs < MaxIrqs /\ irqs' = irqs + 1
  /\ panicked' = (t_curspl[p] = 0 /\ t_iplhigh_count[p] # 0)
  /\ in_irq' = [in_irq EXCEPT ![p] = TRUE] /\ irqon' = [irqon EXCEPT ![c] = FALSE]
  /\ adjusted' = [adjusted EXCEPT ![p] = (t_curspl[p] = 0)]
  /\ t_curspl' = [t_curspl EXCEPT ![p] = 1]
  /\ t_iplhigh_count' = [t_iplhigh_count EXCEPT ![p] = @ + (1 - t_curspl[p])]
  /\ UNCHANGED <<cur, tlb, as, regions, where, badfault, fresh, execs>>

(* And its end: the level is put back, and the return turns them on. *)
InterruptDone(c, p) ==
  /\ Runs(c, p) /\ in_irq[p]
  /\ panicked' = (adjusted[p] /\ (t_curspl[p] # 1 \/ t_iplhigh_count[p] # 1))
  /\ in_irq' = [in_irq EXCEPT ![p] = FALSE]
  /\ t_iplhigh_count' = [t_iplhigh_count EXCEPT ![p] = @ - (IF adjusted[p] THEN 1 ELSE 0)]
  /\ t_curspl' = [t_curspl EXCEPT ![p] = IF adjusted[p] THEN 0 ELSE @]
  /\ irqon' = [irqon EXCEPT ![c] = TRUE]
  /\ UNCHANGED <<cur, tlb, as, regions, where, badfault, adjusted, fresh, execs, irqs>>

(***************************************************************************)
(* Switching threads: in the kernel, from an interrupt or when the thread  *)
(* has to wait; the new thread's as_activate comes a little later, and     *)
(* does nothing for a thread without an address space.                     *)
(***************************************************************************)
Ready(p) == where[p] \notin {"exited", "gone"} /\ \A c \in Cpu : cur[c] # p
LeavesKernel(c) ==
  IF cur[c] = Idle THEN TRUE
  ELSE /\ Runs(c, cur[c])
       /\ \/ in_irq[cur[c]] \/ where[cur[c]] \in {"exited", "gone"}
          \/ Kernel(cur[c]) /\ t_iplhigh_count[cur[c]] = 0
thread_switch(c) ==
  /\ LeavesKernel(c)
  /\ \E p \in {q \in Proc : Ready(q)} \cup {Idle} :
       /\ p # cur[c] /\ cur' = [cur EXCEPT ![c] = p]
       /\ fresh' = [q \in Proc |-> IF q = p THEN TRUE ELSE fresh[q]]
       /\ irqon' = [irqon EXCEPT ![c] = IF p = Idle THEN TRUE ELSE FALSE]
  /\ UNCHANGED <<tlb, as, regions, where, badfault, t_curspl, t_iplhigh_count, in_irq, adjusted,
                 execs, irqs, panicked>>

SwitchedTo(c, p) ==
  /\ cur[c] = p /\ fresh[p] /\ fresh' = [fresh EXCEPT ![p] = FALSE]
  /\ tlb' = [tlb EXCEPT ![c] = IF as[p] = {} THEN @ ELSE {}]
  /\ irqon' = [irqon EXCEPT ![c] = (t_iplhigh_count[p] = 0)]
  /\ UNCHANGED <<cur, as, regions, where, badfault, t_curspl, t_iplhigh_count, in_irq, adjusted,
                 execs, irqs, panicked>>

(***************************************************************************)
(* Memory.  An address outside the address space, or one for which there   *)
(* is no TLB entry left, is a fatal fault: in user mode the process exits, *)
(* in a copy it goes on at copyfail.                                       *)
(***************************************************************************)
Faults(c, p, pg) == ~\E e \in tlb[c] : e[1] = pg
Translation(p, pg) == {e \in as[p] : e[1] = pg}

Touching(c, p) == Runs(c, p) /\ ~in_irq[p] /\ where[p] \in {"user", "copy"}

(* vm_fault asserts that the address space has two regions with pages, and *)
(* that as_prepare_load has given each of them memory.                     *)
vm_fault(c, p, pg) ==
  /\ Touching(c, p) /\ Faults(c, p, pg) /\ panicked' = (regions[p] < 2)
  /\ Cardinality(tlb[c]) < NUM_TLB /\ Translation(p, pg) # {}
  /\ tlb' = [tlb EXCEPT ![c] = @ \cup Translation(p, pg)]
  /\ UNCHANGED <<cur, as, regions, where, badfault, levels, fresh, execs, irqs>>

(* copyin and copyout begin; they end here or in FatalFault. *)
CopyBegin(c, p) ==
  /\ Runs(c, p) /\ where[p] = "kernel" /\ ~in_irq[p] /\ t_iplhigh_count[p] = 0
  /\ where' = [where EXCEPT ![p] = "copy"] /\ badfault' = [badfault EXCEPT ![p] = TRUE]
  /\ UNCHANGED <<cur, tlb, as, regions, levels, fresh, execs, irqs, panicked>>
CopyEnd(c, p) ==
  /\ Runs(c, p) /\ where[p] = "copy" /\ ~in_irq[p]
  /\ where' = [where EXCEPT ![p] = "kernel"] /\ badfault' = [badfault EXCEPT ![p] = FALSE]
  /\ UNCHANGED <<cur, tlb, as, regions, levels, fresh, execs, irqs, panicked>>

FatalFault(c, p, pg) ==
  /\ Touching(c, p) /\ Faults(c, p, pg)
  /\ Cardinality(tlb[c]) = NUM_TLB \/ Translation(p, pg) = {}
  /\ IF where[p] = "user"
     THEN where' = [where EXCEPT ![p] = "exited"] /\ UNCHANGED <<badfault, panicked>>
     ELSE /\ panicked' = ~badfault[p] /\ badfault' = [badfault EXCEPT ![p] = FALSE]
          /\ where' = [where EXCEPT ![p] = "kernel"]
  /\ UNCHANGED <<cur, tlb, as, regions, levels, fresh, execs, irqs>>

(***************************************************************************)
(* System calls.                                                           *)
(***************************************************************************)
(* mips_trap and syscall assert that interrupts were on in user mode. *)
Syscall(c, p) ==
  /\ Runs(c, p) /\ where[p] = "user" /\ ~in_irq[p] /\ where' = [where EXCEPT ![p] = "kernel"]
  /\ panicked' = (t_curspl[p] # 0 \/ t_iplhigh_count[p] # 0)
  /\ UNCHANGED <<cur, tlb, as, regions, badfault, levels, fresh, execs, irqs>>

(* And on the way back that no level was left raised. *)
SyscallReturn(c, p) ==
  /\ Runs(c, p) /\ where[p] = "kernel" /\ ~in_irq[p] /\ regions[p] > 0 /\ t_iplhigh_count[p] = 0
  /\ where' = [where EXCEPT ![p] = "user"]
  /\ UNCHANGED <<cur, tlb, as, regions, badfault, levels, fresh, execs, irqs, panicked>>

(* loadexec: a new address space is set, activated, and prepared, with one *)
(* region or two.  (The old one goes when all has succeeded; it is         *)
(* replaced here.)                                                         *)
ExecSetas(c, p) ==
  /\ Runs(c, p) /\ where[p] = "kernel" /\ ~in_irq[p] /\ regions[p] > 0 /\ t_iplhigh_count[p] = 0
  /\ execs < MaxExecs /\ execs' = execs + 1
  /\ \E s \in FullSpaces(FreeFrames) : as' = [as EXCEPT ![p] = s]
  /\ regions' = [regions EXCEPT ![p] = 0] /\ where' = [where EXCEPT ![p] = "setas"]
  /\ UNCHANGED <<cur, tlb, badfault, levels, fresh, irqs, panicked>>

ExecActivate(c, p) ==
  /\ Runs(c, p) /\ where[p] = "setas" /\ ~in_irq[p] /\ t_iplhigh_count[p] = 0
  /\ tlb' = [tlb EXCEPT ![c] = {}]
  /\ \E n \in {1, 2} : regions' = [regions EXCEPT ![p] = n] /\ where' = [where EXCEPT ![p] = "kernel"]
  /\ UNCHANGED <<cur, as, badfault, levels, fresh, execs, irqs, panicked>>

sys__exit(c, p) ==
  /\ Runs(c, p) /\ where[p] = "kernel" /\ ~in_irq[p] /\ regions[p] > 0 /\ t_iplhigh_count[p] = 0
  /\ where' = [where EXCEPT ![p] = "exited"]
  /\ UNCHANGED <<cur, tlb, as, regions, badfault, levels, fresh, execs, irqs, panicked>>

(* The parent reaps it, perhaps before its thread has left the processor:  *)
(* the frames are free.                                                    *)
proc_destroy(p) ==
  /\ where[p] = "exited" /\ where' = [where EXCEPT ![p] = "gone"]
  /\ as' = [as EXCEPT ![p] = {}]
  /\ UNCHANGED <<cur, tlb, regions, badfault, levels, fresh, execs, irqs, panicked>>

OnCpu(c, p) ==
  \/ splraise(c, p) \/ spllower(c, p) \/ Interrupt(c, p) \/ InterruptDone(c, p)
  \/ SwitchedTo(c, p) \/ CopyBegin(c, p) \/ CopyEnd(c, p)
  \/ Syscall(c, p) \/ SyscallReturn(c, p) \/ ExecSetas(c, p) \/ ExecActivate(c, p)
  \/ sys__exit(c, p)
  \/ \E pg \in Page \cup {0} : vm_fault(c, p, pg) \/ FatalFault(c, p, pg)
Next == ~panicked /\ \/ \E c \in Cpu : thread_switch(c) \/ \E p \in Proc : OnCpu(c, p)
                     \/ \E p \in Proc : proc_destroy(p)

Spec == Init /\ [][Next]_vars

(***************************************************************************)
(* Properties.                                                             *)
(***************************************************************************)
(* Wherever a process can touch user memory, in user mode or in a copy,    *)
(* the TLB holds nothing but its own pages: no page of the process that    *)
(* ran before, of its own former program, or of a frame freed since.       *)
SeesOwnMemory ==
  \A c \in Cpu : \A p \in Proc :
    Runs(c, p) /\ where[p] \in {"user", "kernel", "copy"} => tlb[c] \subseteq as[p]

(* None of the assertions of mips_trap, syscall and vm_fault fails, and no *)
(* fault in the kernel is fatal: only copies touch user memory, and they   *)
(* are prepared for a fault as long as they last, interrupts and switches  *)
(* in between included.  Only a program of one segment, which load_elf     *)
(* lets pass, fails the assertions of vm_fault.                            *)
NoPanic == panicked => \E p \in Proc : regions[p] = 1

(* In user mode interrupts are on, in the processor and on record; in the  *)
(* kernel the processor is as the record says.                             *)
LevelsAgree ==
  \A c \in Cpu : \A p \in Proc : Runs(c, p) =>
    /\ irqon[c] = (t_iplhigh_count[p] = 0)
    /\ where[p] = "user" /\ ~in_irq[p] => t_curspl[p] = 0 /\ irqon[c]
=============================================================================
