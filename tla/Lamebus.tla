------------------------------ MODULE Lamebus ------------------------------
(***************************************************************************)
(* The system bus: kern/dev/lamebus/lamebus.c, the attach functions of the *)
(* cards and kern/arch/sys161/dev/lamebus_machdep.c.  The boot processor   *)
(* finds the processors, then attaches a driver to every card it knows, in *)
(* the order of the kernel configuration, with interrupts on all the time; *)
(* lamebus_interrupt goes through the slots and calls the handlers.        *)
(***************************************************************************)
EXTENDS Naturals, Sequences, FiniteSets

CONSTANTS Slots,        \* the slots, numbered from 0; the last is the controller's
          Layouts,      \* what may be plugged in: sequences of [kind, version], by slot
          CpuMasks,     \* CTLREG_CPUS: which hardware processors there are
          MaxDuds,      \* 10000
          MaxRaised     \* bound: interrupts raised

VARIABLES cards,                         \* the layout of this machine
          cpumask, self, cpus, cram,     \* processors: hardware numbers by software
                                         \* number; software number told to each
          started,                       \* the secondary processors are running
          cirqe,                         \* the processors bus interrupts go to
          ls_slotsinuse, ls_irqfuncs,    \* slots in use; the handler of a slot
          class,                         \* which class of device is being attached
          found,                         \* the slot the probe has found, or -1
          irqs,                          \* slots that assert an interrupt
          at, seen,                      \* lamebus_interrupt: slot; irqs as read
          duds, dudsnow, raised, panicked

vars == <<cards, cpumask, self, cpus, cram, started, cirqe, ls_slotsinuse, ls_irqfuncs, class,
          found, irqs, at, seen, duds, dudsnow, raised, panicked>>
machine == <<cards, cpumask, self>>
procs == <<cpus, cram, cirqe, started>>
irq == <<irqs, at, seen, duds, dudsnow, raised>>

Nowhere == Cardinality(Slots)
Controller == Nowhere - 1
Least(S) == CHOOSE x \in S : \A y \in S : x <= y
Sorted(S) == CHOOSE s \in [1 .. Cardinality(S) -> S] :
               \A i, j \in 1 .. Cardinality(S) : i < j => s[i] < s[j]

(* lamebus_init, with the bus's interrupts still off. *)
Init ==
  /\ cards \in Layouts /\ cpumask \in CpuMasks /\ self \in cpumask
  /\ cpus = <<>> /\ cram = [c \in cpumask |-> 0] /\ cirqe = {}
  /\ ls_slotsinuse = {Controller} /\ ls_irqfuncs = [s \in Slots |-> "none"]
  /\ class = 1 /\ found = Nowhere /\ started = FALSE
  /\ irqs = {} /\ at = Nowhere /\ seen = {} /\ duds = 0 /\ dudsnow = 0
  /\ raised = 0 /\ panicked = FALSE

(***************************************************************************)
(* Processors.  The boot processor has software number 0 (position 1);     *)
(* cpu_create numbers the others as they are made.                         *)
(***************************************************************************)
lamebus_find_cpus ==
  /\ cpus = <<>>
  /\ cpus' = <<self>> \o Sorted(cpumask \ {self})
  /\ cirqe' = {self}
  /\ UNCHANGED <<machine, cram, started, ls_slotsinuse, ls_irqfuncs, class, found, irq, panicked>>

(***************************************************************************)
(* Attaching: probe for a free slot with such a card, mark it, and hook    *)
(* its interrupt, again and again until there are no more.                 *)
(***************************************************************************)
attach_emu_to_lamebus     == [kind |-> "emufs",  low |-> 1, irq |-> "emu_irq"]
attach_ltrace_to_lamebus  == [kind |-> "trace",  low |-> 1, irq |-> "none"]
attach_ltimer_to_lamebus  == [kind |-> "timer",  low |-> 1, irq |-> "ltimer_irq"]
attach_lrandom_to_lamebus == [kind |-> "random", low |-> 1, irq |-> "none"]
attach_lhd_to_lamebus     == [kind |-> "disk",   low |-> 2, irq |-> "lhd_irq"]
attach_lser_to_lamebus    == [kind |-> "serial", low |-> 1, irq |-> "lser_irq"]
Classes == <<attach_emu_to_lamebus, attach_ltrace_to_lamebus, attach_ltimer_to_lamebus,
             attach_lrandom_to_lamebus, attach_lhd_to_lamebus, attach_lser_to_lamebus>>

(* Mutant: slots in use are not skipped. *)
MatchingUsed(c) == {s \in Slots : cards[s + 1].kind = c.kind /\ cards[s + 1].version >= c.low}
Matching(c) == {s \in Slots \ ls_slotsinuse :
                  cards[s + 1].kind = c.kind /\ cards[s + 1].version >= c.low}

lamebus_probe ==
  /\ cpus # <<>> /\ class <= Len(Classes) /\ found = Nowhere /\ at = Nowhere
  /\ IF Matching(Classes[class]) # {}
     THEN found' = Least(Matching(Classes[class])) /\ UNCHANGED class
     ELSE class' = class + 1 /\ UNCHANGED found
  /\ UNCHANGED <<machine, procs, ls_slotsinuse, ls_irqfuncs, irq, panicked>>

lamebus_mark ==
  /\ found # Nowhere /\ at = Nowhere /\ found \notin ls_slotsinuse
  /\ ls_slotsinuse' = ls_slotsinuse \cup {found}
  /\ UNCHANGED <<machine, procs, ls_irqfuncs, class, found, irq, panicked>>

(* Mutant: one card of each kind is looked for. *)
AttachFirstOnly ==
  /\ found # Nowhere /\ at = Nowhere /\ found \in ls_slotsinuse
  /\ panicked' = (ls_irqfuncs[found] # "none")
  /\ ls_irqfuncs' = [ls_irqfuncs EXCEPT ![found] = Classes[class].irq]
  /\ found' = Nowhere /\ class' = class + 1
  /\ UNCHANGED <<machine, procs, ls_slotsinuse, irq>>
lamebus_attach_interrupt ==
  /\ found # Nowhere /\ at = Nowhere /\ found \in ls_slotsinuse
  /\ panicked' = (ls_irqfuncs[found] # "none")
  /\ ls_irqfuncs' = [ls_irqfuncs EXCEPT ![found] = Classes[class].irq]
  /\ found' = Nowhere
  /\ UNCHANGED <<machine, procs, ls_slotsinuse, class, irq>>

(* All attached: the other processors are told their numbers and started. *)
(* Mutant: the number is not advanced past the boot processor's bit. *)
StartCountsBoot ==
  /\ class > Len(Classes) /\ ~started /\ at = Nowhere /\ started' = TRUE
  /\ cram' = [c \in cpumask |-> IF c = self THEN 0 ELSE Cardinality({d \in cpumask : d < c})]
  /\ UNCHANGED <<machine, cpus, cirqe, ls_slotsinuse, ls_irqfuncs, class, found, irq,
                 panicked>>
lamebus_start_cpus ==
  /\ class > Len(Classes) /\ ~started /\ at = Nowhere /\ started' = TRUE
  /\ cram' = [c \in cpumask |-> IF c = self THEN 0
                                ELSE 1 + Cardinality({d \in cpumask \ {self} : d < c})]
  /\ UNCHANGED <<machine, cpus, cirqe, ls_slotsinuse, ls_irqfuncs, class, found, irq,
                 panicked>>

(***************************************************************************)
(* Interrupts.  A card asserts its line until its handler has seen to it.  *)
(***************************************************************************)
Raise(s) ==
  /\ cirqe # {} /\ raised < MaxRaised /\ s \notin irqs /\ cards[s + 1].kind # "none"
  /\ irqs' = irqs \cup {s} /\ raised' = raised + 1
  /\ UNCHANGED <<machine, procs, ls_slotsinuse, ls_irqfuncs, class, found, at, seen, duds,
                 dudsnow, panicked>>

(* lamebus_interrupt reads which slots assert; none at all is a dud. *)
lamebus_interrupt ==
  /\ at = Nowhere /\ irqs # {} /\ cirqe # {}
  /\ at' = 0
  /\ \/ seen' = irqs /\ dudsnow' = 0 /\ UNCHANGED <<duds, irqs>>
     \/ /\ \A s \in irqs : ls_irqfuncs[s] = "none"       \* it went away again
        /\ seen' = {} /\ irqs' = {} /\ duds' = duds + 1 /\ dudsnow' = 1
  /\ UNCHANGED <<machine, procs, ls_slotsinuse, ls_irqfuncs, class, found, raised, panicked>>

(* The handler is called without the lock; afterwards the lines are read   *)
(* again, and the scan goes on from the next slot.                         *)
(* Mutant: the scan stops at the first slot without a handler. *)
SlotGivesUp ==
  /\ at < Nowhere /\ at \in seen
  /\ IF at \notin ls_slotsinuse \/ ls_irqfuncs[at] = "none"
     THEN /\ duds' = duds + 1 /\ dudsnow' = dudsnow + 1 /\ at' = Nowhere
          /\ UNCHANGED <<irqs, seen>>
     ELSE /\ irqs' = irqs \ {at} /\ seen' = irqs'
          /\ at' = at + 1 /\ UNCHANGED <<duds, dudsnow>>
  /\ UNCHANGED <<machine, procs, ls_slotsinuse, ls_irqfuncs, class, found, raised, panicked>>
Slot ==
  /\ at < Nowhere /\ at \in seen
  /\ IF at \notin ls_slotsinuse \/ ls_irqfuncs[at] = "none"
     THEN /\ duds' = duds + 1 /\ dudsnow' = dudsnow + 1
          /\ UNCHANGED <<irqs, seen>>
     ELSE /\ irqs' = irqs \ {at} /\ seen' = irqs'
          /\ UNCHANGED <<duds, dudsnow>>
  /\ at' = at + 1
  /\ UNCHANGED <<machine, procs, ls_slotsinuse, ls_irqfuncs, class, found, raised, panicked>>

Skip ==
  /\ at < Nowhere /\ at \notin seen
  /\ at' = at + 1
  /\ IF at = Controller
     THEN /\ duds' = (IF dudsnow = 0 THEN 0 ELSE duds)
          /\ panicked' = (duds' > MaxDuds)
     ELSE UNCHANGED <<duds, panicked>>
  /\ UNCHANGED <<machine, procs, ls_slotsinuse, ls_irqfuncs, class, found, irqs, seen,
                 dudsnow, raised>>

Booting == \/ lamebus_find_cpus \/ lamebus_probe \/ lamebus_mark
           \/ lamebus_attach_interrupt \/ lamebus_start_cpus
Interrupting == lamebus_interrupt \/ Slot \/ Skip

Next == ~panicked /\ (Booting \/ Interrupting \/ \E s \in Slots : Raise(s))

(* The processor takes interrupts and goes on with what it does. *)
Spec == Init /\ [][Next]_vars /\ WF_vars(Interrupting)

(***************************************************************************)
(* Properties.                                                             *)
(***************************************************************************)
(* No two drivers share a card, every driver has a card of its kind and of *)
(* a version it knows, and no slot is marked or hooked twice.              *)
CardsWellAttached ==
  /\ \A s \in Slots \ {Controller} : s \in ls_slotsinuse =>
       \E i \in DOMAIN Classes : cards[s + 1].kind = Classes[i].kind /\ cards[s + 1].version >= Classes[i].low
  /\ panicked => duds > MaxDuds
  /\ \A s \in Slots : ls_irqfuncs[s] # "none" =>
       s \in ls_slotsinuse /\ \E i \in DOMAIN Classes : /\ Classes[i].irq = ls_irqfuncs[s]
                                               /\ Classes[i].kind = cards[s + 1].kind

(* A secondary processor is told the software number of the cpu structure  *)
(* made for it ("the logic here assumes the boot CPU is CPU 0"), and bus   *)
(* interrupts go to the boot processor alone.                              *)
CpuNumbersAgree ==
  started => /\ \A c \in cpumask : cpus[cram[c] + 1] = c
               /\ cirqe = {cpus[1]}

(* A card with a handler is seen to even when others, that nobody knows,   *)
(* keep interrupting, until there are so many duds that the system panics. *)
Asserted(s) == s \in irqs /\ ls_irqfuncs[s] # "none"
SeenTo(s) == s \notin irqs \/ panicked
InterruptsHandled == \A s \in Slots : Asserted(s) ~> SeenTo(s)

(* Every card there is a driver for gets one before the boot is over.      *)
AllAttached ==
  started => \A s \in Slots : \A i \in DOMAIN Classes :
    (cards[s + 1].kind = Classes[i].kind /\ cards[s + 1].version >= Classes[i].low) => s \in ls_slotsinuse
=============================================================================
