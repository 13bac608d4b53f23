------------------------------- MODULE Dumbvm -------------------------------
(***************************************************************************)
(* Physical memory: arch/mips/vm/ram.c and the allocator half of           *)
(* arch/mips/vm/dumbvm.c (the DUMBVM_WITH_FREE branch), with the callers   *)
(* that build and destroy address spaces (as_create, as_define_region,     *)
(* as_prepare_load, as_copy, as_destroy, loadexec, runprogram) and the     *)
(* kernel heap's page requests (alloc_kpages, free_kpages).                *)
(*                                                                         *)
(* A physical address is a frame number.  0 is the error value of          *)
(* getppages, exactly as in the code, and also the frame that holds the    *)
(* exception handlers.  Each critical section under freemem_lock or        *)
(* stealmem_lock is one action; a thread can be preempted between two of   *)
(* them.                                                                   *)
(***************************************************************************)
EXTENDS Integers

CONSTANTS
  nRamFrames,        \* frames of RAM: ram_getsize() / PAGE_SIZE
  BootFrames,        \* frames below firstfree: exception page, kernel image
  StackPages,        \* DUMBVM_STACKPAGES
  FreeTablePages,    \* pages that hold vm_bootstrap's freeRamFrames
  SizeTablePages,    \* pages that hold vm_bootstrap's allocSize
  RegionPages,       \* the region sizes, in pages, that executables have
  KernelPages,       \* the sizes, in pages, that alloc_kpages is asked for
  Threads,           \* kernel threads that allocate and free
  AddrSpaces,        \* struct addrspace objects
  KBlocks,           \* handles for page-sized kernel heap blocks
  VmTables           \* the handle of vm_bootstrap's own tables

Frames  == 0 .. (nRamFrames - 1)
Regions == AddrSpaces \X (1 .. 3)      \* 1, 2: as_pbase1, as_pbase2; 3: stack
Holders == KBlocks \cup {VmTables} \cup Regions

ASSUME RamAssumption ==
  /\ nRamFrames \in Nat
  /\ BootFrames \in Nat \ {0}
  /\ BootFrames <= nRamFrames
ASSUME SizeAssumption ==
  /\ StackPages \in Nat \ {0}
  /\ FreeTablePages \in Nat
  /\ SizeTablePages \in Nat
  /\ RegionPages \subseteq Nat
  /\ KernelPages \subseteq Nat \ {0}
ASSUME HolderAssumption ==
  /\ KBlocks \cap Regions = {}
  /\ VmTables \notin KBlocks \cup Regions

VARIABLES
  firstpaddr,        \* ram.c: next frame ram_stealmem hands out
  freeRamFrames,     \* the frames whose entry is 1: those given back
  allocSize,         \* [Frames -> Nat]
  table,             \* "boot" before vm_bootstrap, then allocTableActive or not
  pbase,             \* [Holders -> frame]: as_pbase1/2, as_stackpbase, or a block
  npages,            \* [Holders -> Nat]
  as,                \* [AddrSpaces -> stage of its life]
  pc,                \* [Threads -> control point]
  who,               \* [Threads -> holder the thread works on]
  caller,            \* [Threads -> who called as_prepare_load]
  count,             \* [Threads -> npages argument of freeppages]
  bootTop,           \* history: firstpaddr when vm_bootstrap finished
  damage             \* history: frames freed through an unset (0) base, and
                     \* entries written past the end of the tables

ramVars    == <<firstpaddr, freeRamFrames, allocSize, table>>
holderVars == <<pbase, npages, as>>
threadVars == <<pc, who, caller, count>>
vars == <<ramVars, holderVars, threadVars, bootTop, damage>>

RamTypeOK ==
  /\ firstpaddr \in 0 .. nRamFrames
  /\ freeRamFrames \subseteq Frames
  /\ allocSize \in [Frames -> Nat]
  /\ table \in {"boot", "active", "disabled"}
  /\ bootTop \in 0 .. nRamFrames
  /\ damage \subseteq Nat
HolderTypeOK ==
  /\ pbase \in [Holders -> 0 .. nRamFrames]
  /\ npages \in [Holders -> Nat]
  /\ as \in [AddrSpaces -> {"none", "loading", "loaded", "partial", "dying"}]
ThreadTypeOK ==
  /\ pc \in [Threads -> {"idle", "getfree", "steal", "record", "free"}]
  /\ who \in [Threads -> Holders]
  /\ caller \in [Threads -> {"none", "as_copy", "loadexec", "runprogram"}]
  /\ count \in [Threads -> Nat]

(* The shape of the state; ram_stealmem never hands out memory past the    *)
(* end of RAM.                                                             *)
TypeOK == RamTypeOK /\ HolderTypeOK /\ ThreadTypeOK

allocTableActive == table = "active"

-----------------------------------------------------------------------------
(* ram_bootstrap: the first free frame follows the kernel image.           *)

Init ==
  /\ firstpaddr = BootFrames
  /\ freeRamFrames = {}
  /\ allocSize = [f \in Frames |-> 0]
  /\ table = "boot"
  /\ pbase = [h \in Holders |-> 0]
  /\ npages = [h \in Holders |-> 0]
  /\ as = [a \in AddrSpaces |-> "none"]
  /\ pc = [t \in Threads |-> "idle"]
  /\ who = [t \in Threads |-> VmTables]
  /\ caller = [t \in Threads |-> "none"]
  /\ count = [t \in Threads |-> 0]
  /\ bootTop = 0
  /\ damage = {}

(* Mutant: ram_stealmem lets a request run one frame past the end of RAM.  *)
StealOkPastEnd(n) == firstpaddr + n <= nRamFrames + 1

(* ram_stealmem succeeds for n pages.                                      *)
StealOk(n) == firstpaddr + n <= nRamFrames

(* vm_bootstrap, on the only thread there is at boot: two kmallocs, the    *)
(* first one lost when the second one fails.                               *)
VmBootstrap ==
  /\ table = "boot"
  /\ \A t \in Threads : pc[t] = "idle"
  /\ LET first == StealOk(FreeTablePages)
         both  == StealOk(FreeTablePages + SizeTablePages)
         got   == IF both THEN FreeTablePages + SizeTablePages
                  ELSE IF first THEN FreeTablePages ELSE 0
     IN /\ table' = IF both THEN "active" ELSE "disabled"
        /\ firstpaddr' = firstpaddr + got
        /\ pbase' = [pbase EXCEPT ![VmTables] = firstpaddr]
        /\ npages' = [npages EXCEPT ![VmTables] = got]
        /\ bootTop' = firstpaddr + got
  /\ UNCHANGED <<freeRamFrames, allocSize, as, threadVars, damage>>

-----------------------------------------------------------------------------
(* getppages, in its three critical sections.                              *)

(* The frames n pages from f on, and the free runs long enough for n:      *)
(* the loop of getfreeppages stops in the first of them.                   *)
Span(f, n) == f .. (f + n - 1)

(* Mutant: the run may be one frame too short (i-first+2 >= np).           *)
FitsShort(n) ==
  {f \in freeRamFrames : f - 1 \notin freeRamFrames
                         /\ Span(f, n - 1) \subseteq freeRamFrames}

Fits(n) ==
  {f \in freeRamFrames : f - 1 \notin freeRamFrames
                         /\ Span(f, n) \subseteq freeRamFrames}

GetFreeFound(t, f) ==
  LET n == npages[who[t]] IN
  /\ freeRamFrames' = freeRamFrames \ Span(f, n)
  /\ allocSize' = [allocSize EXCEPT ![f] = n]
  /\ pbase' = [pbase EXCEPT ![who[t]] = f]
  /\ pc' = [pc EXCEPT ![t] = IF f = 0 THEN "steal" ELSE "record"]

(* getfreeppages                                                           *)
GetFreePages(t) ==
  /\ pc[t] = "getfree"
  /\ \/ /\ ~allocTableActive \/ Fits(npages[who[t]]) = {}
        /\ pc' = [pc EXCEPT ![t] = "steal"]
        /\ UNCHANGED <<freeRamFrames, allocSize, pbase>>
     \/ /\ allocTableActive
        /\ \E f \in Fits(npages[who[t]]) :
             /\ \A g \in Fits(npages[who[t]]) : f <= g
             /\ GetFreeFound(t, f)
  /\ UNCHANGED <<firstpaddr, table, npages, as, who, caller, count, bootTop, damage>>

(* The call returns; its locals are dead.                                  *)
Return(t) ==
  /\ pc' = [pc EXCEPT ![t] = "idle"]
  /\ who' = [who EXCEPT ![t] = VmTables]
  /\ caller' = [caller EXCEPT ![t] = "none"]
  /\ count' = [count EXCEPT ![t] = 0]

(* as_destroy begins with the first region.                                *)
StartDestroy(t, a) ==
  /\ as' = [as EXCEPT ![a] = "dying"]
  /\ pc' = [pc EXCEPT ![t] = "free"]
  /\ who' = [who EXCEPT ![t] = <<a, 1>>]
  /\ caller' = [caller EXCEPT ![t] = "none"]
  /\ count' = [count EXCEPT ![t] = npages[<<a, 1>>]]

(* getppages returned 0.  alloc_kpages passes the failure on; a load ends  *)
(* with ENOMEM and the address space is destroyed at once by as_copy and   *)
(* loadexec, but is left to proc_destroy by runprogram.                    *)
AbandonLoad(t) ==
  LET a == who[t][1] IN
  \/ /\ caller[t] = "runprogram"
     /\ as' = [as EXCEPT ![a] = "partial"]
     /\ Return(t)
  \/ /\ caller[t] # "runprogram"
     /\ StartDestroy(t, a)

(* the ram_stealmem half of getppages                                      *)
StealMem(t) ==
  /\ pc[t] = "steal"
  /\ \/ /\ StealOk(npages[who[t]])
        /\ firstpaddr' = firstpaddr + npages[who[t]]
        /\ pbase' = [pbase EXCEPT ![who[t]] = firstpaddr]
        /\ pc' = [pc EXCEPT ![t] = "record"]
        /\ UNCHANGED <<npages, as, who, caller, count>>
     \/ /\ ~StealOk(npages[who[t]])
        /\ who[t] \in KBlocks
        /\ npages' = [npages EXCEPT ![who[t]] = 0]
        /\ Return(t)
        /\ UNCHANGED <<firstpaddr, pbase, as>>
     \/ /\ ~StealOk(npages[who[t]])
        /\ who[t] \in Regions
        /\ AbandonLoad(t)
        /\ UNCHANGED <<firstpaddr, pbase, npages>>
  /\ UNCHANGED <<freeRamFrames, allocSize, table, bootTop, damage>>

(* Mutant: the size recorded is one page too large.                        *)
SizesAfterLarge(h) ==
  IF allocTableActive /\ pbase[h] \in Frames
  THEN [allocSize EXCEPT ![pbase[h]] = npages[h] + 1]
  ELSE allocSize

(* The allocSize update that ends getppages for holder h.  For an empty    *)
(* region and no RAM left the address is that of the end of RAM, and the   *)
(* entry written is past the end of the table: what it hits is not         *)
(* followed.                                                               *)
SizesAfter(h) ==
  IF allocTableActive /\ pbase[h] \in Frames
  THEN [allocSize EXCEPT ![pbase[h]] = npages[h]]
  ELSE allocSize

PastEnd(h) == IF allocTableActive THEN {pbase[h]} \ Frames ELSE {}

(* The caller goes on with the address: alloc_kpages returns,              *)
(* as_prepare_load goes to the next region.                                *)
RecordSize(t) ==
  /\ pc[t] = "record"
  /\ allocSize' = SizesAfter(who[t])
  /\ damage' = damage \cup PastEnd(who[t])
  /\ \/ /\ who[t] \in KBlocks
        /\ Return(t)
        /\ UNCHANGED as
     \/ /\ who[t] \in Regions /\ who[t][2] < 3
        /\ who' = [who EXCEPT ![t] = <<who[t][1], who[t][2] + 1>>]
        /\ pc' = [pc EXCEPT ![t] = "getfree"]
        /\ UNCHANGED <<as, caller, count>>
     \/ /\ who[t] \in Regions /\ who[t][2] = 3
        /\ as' = [as EXCEPT ![who[t][1]] = "loaded"]
        /\ Return(t)
  /\ UNCHANGED <<firstpaddr, freeRamFrames, table, pbase, npages, bootTop>>

-----------------------------------------------------------------------------
(* Kernel heap pages.                                                      *)

(* Until vm_bootstrap is done there is one thread.                         *)
Alone(t) == table = "boot" => \A u \in Threads \ {t} : pc[u] = "idle"

(* alloc_kpages: the call; getppages does the rest.                        *)
AllocKpages(t) ==
  /\ pc[t] = "idle" /\ Alone(t)
  /\ \E k \in KBlocks, n \in KernelPages :
       /\ npages[k] = 0
       /\ npages' = [npages EXCEPT ![k] = n]
       /\ who' = [who EXCEPT ![t] = k]
       /\ pc' = [pc EXCEPT ![t] = "getfree"]
  /\ UNCHANGED <<ramVars, pbase, as, caller, count, bootTop, damage>>

(* free_kpages of a block its owner holds: allocSize is read without the   *)
(* lock, freeppages comes later.  Before vm_bootstrap nothing happens and  *)
(* the pages are lost.                                                     *)
FreeKpages(t) ==
  /\ pc[t] = "idle" /\ Alone(t)
  /\ \E k \in KBlocks :
       /\ pbase[k] # 0
       /\ \A u \in Threads : pc[u] # "idle" => who[u] # k
       /\ \/ /\ allocTableActive /\ pbase[k] \in Frames      \* KASSERT
             /\ who' = [who EXCEPT ![t] = k]
             /\ count' = [count EXCEPT ![t] = allocSize[pbase[k]]]
             /\ pc' = [pc EXCEPT ![t] = "free"]
             /\ UNCHANGED <<pbase, npages>>
          \/ /\ ~allocTableActive
             /\ pbase' = [pbase EXCEPT ![k] = 0]
             /\ npages' = [npages EXCEPT ![k] = 0]
             /\ UNCHANGED <<who, count, pc>>
  /\ UNCHANGED <<ramVars, as, caller, bootTop, damage>>

-----------------------------------------------------------------------------
(* Address spaces.                                                         *)

(* as_create and, from load_elf, as_define_region; or as_copy of a loaded  *)
(* address space.  as_prepare_load follows.                                *)
StartLoad(t, a, c, n1, n2) ==
  /\ npages' = [npages EXCEPT ![<<a, 1>>] = n1, ![<<a, 2>>] = n2,
                              ![<<a, 3>>] = StackPages]
  /\ as' = [as EXCEPT ![a] = "loading"]
  /\ caller' = [caller EXCEPT ![t] = c]
  /\ who' = [who EXCEPT ![t] = <<a, 1>>]
  /\ pc' = [pc EXCEPT ![t] = "getfree"]
  /\ UNCHANGED <<ramVars, pbase, count, bootTop, damage>>

LoadElf(t) ==
  /\ pc[t] = "idle" /\ table # "boot"
  /\ \E a \in AddrSpaces, c \in {"loadexec", "runprogram"},
        n1 \in RegionPages, n2 \in RegionPages :
       as[a] = "none" /\ StartLoad(t, a, c, n1, n2)

AsCopy(t) ==
  /\ pc[t] = "idle"
  /\ \E a \in AddrSpaces, old \in AddrSpaces :
       /\ as[a] = "none" /\ as[old] = "loaded"
       /\ StartLoad(t, a, "as_copy", npages[<<old, 1>>], npages[<<old, 2>>])

(* load_elf rejects the file before it calls as_prepare_load (bad header,  *)
(* too many regions, a read error): every base is still 0.                 *)
RejectElf(t) ==
  /\ pc[t] = "getfree"
  /\ who[t] \in Regions /\ who[t][2] = 1 /\ caller[t] # "as_copy"
  /\ AbandonLoad(t)
  /\ UNCHANGED <<ramVars, pbase, npages, bootTop, damage>>

(* as_destroy: called by loadexec for the address space it replaces or     *)
(* could not fill, and by proc_destroy.                                    *)
AsDestroy(t) ==
  /\ pc[t] = "idle"
  /\ \E a \in AddrSpaces :
       as[a] \in {"loaded", "partial"} /\ StartDestroy(t, a)
  /\ UNCHANGED <<ramVars, pbase, npages, bootTop, damage>>

(* Mutants: the loop of freeppages runs one frame too far, or stops early. *)
FreedOneMore(t) ==
  IF allocTableActive THEN Span(pbase[who[t]], count[t] + 1) ELSE {}
FreedOneLess(t) ==
  IF allocTableActive THEN Span(pbase[who[t]], count[t] - 1) ELSE {}

(* The frames whose entry freeppages sets.                                 *)
Freed(t) ==
  IF allocTableActive THEN Span(pbase[who[t]], count[t]) ELSE {}

(* freeppages, called by free_kpages or for one region by as_destroy.  The *)
(* fields of the dying object are not read again, so they are cleared.  An *)
(* address past the end of RAM is a panic: there is no next step.          *)
FreePpages(t) ==
  LET h == who[t] IN
  /\ pc[t] = "free"
  /\ allocTableActive => nRamFrames > pbase[h]              \* KASSERT
  /\ freeRamFrames' = freeRamFrames \cup (Freed(t) \cap Frames)
  /\ damage' = damage \cup (IF pbase[h] = 0 THEN Freed(t) ELSE Freed(t) \ Frames)
  /\ pbase' = [pbase EXCEPT ![h] = 0]
  /\ npages' = [npages EXCEPT ![h] = 0]
  /\ \/ /\ h \in Regions /\ h[2] < 3
        /\ who' = [who EXCEPT ![t] = <<h[1], h[2] + 1>>]
        /\ count' = [count EXCEPT ![t] = npages[<<h[1], h[2] + 1>>]]
        /\ UNCHANGED <<pc, caller, as>>
     \/ /\ h \in Regions /\ h[2] = 3
        /\ as' = [as EXCEPT ![h[1]] = "none"]
        /\ Return(t)
     \/ /\ h \in KBlocks
        /\ Return(t)
        /\ UNCHANGED as
  /\ UNCHANGED <<firstpaddr, allocSize, table, bootTop>>

-----------------------------------------------------------------------------
Step(t) ==
  \/ GetFreePages(t) \/ StealMem(t) \/ RecordSize(t)
  \/ AllocKpages(t)  \/ FreeKpages(t)
  \/ LoadElf(t) \/ AsCopy(t) \/ RejectElf(t) \/ AsDestroy(t) \/ FreePpages(t)

Next == VmBootstrap \/ \E t \in Threads : Step(t)

Spec == Init /\ [][Next]_vars

-----------------------------------------------------------------------------
(* Properties.                                                             *)

(* The frames that belong to holder h.                                     *)
Held(h) == IF pbase[h] = 0 THEN {} ELSE Span(pbase[h], npages[h])

Disjoint == \A g, h \in Holders : g # h => Held(g) \cap Held(h) = {}

(* No frame belongs to two holders: two regions of address spaces, two     *)
(* kernel heap blocks, or one of each, however the calls of getppages and  *)
(* freeppages interleave.  This holds as long as freeppages has not been   *)
(* applied to the unset base of a half-built address space, nor a table    *)
(* been written past its end.                                              *)
FramesDisjoint == damage = {} => Disjoint

FreeUnused ==
  \A f \in freeRamFrames : /\ BootFrames <= f /\ f < firstpaddr
                            /\ \A h \in Holders : f \notin Held(h)

(* A frame on the free list belongs to nobody, was handed out by           *)
(* ram_stealmem before, and is no frame of the kernel image: what          *)
(* getfreeppages is going to return next is unused RAM.                    *)
FreeFramesUnused == damage = {} => FreeUnused

(* free_kpages gives back at most the pages of the block it is given: the  *)
(* allocSize entry it reads without the lock is never larger than the      *)
(* block, even when another getppages is between its critical sections.    *)
FreesNoMoreThanHeld ==
  damage = {} => \A t \in Threads :
                pc[t] = "free" => Span(pbase[who[t]], count[t]) \subseteq
                                    Span(pbase[who[t]], npages[who[t]])

(* No frame is lost: once vm_bootstrap has run, every frame handed out     *)
(* since then is held or free again.  (Frames handed out before it have no *)
(* allocSize entry and are lost when they are freed.)  True only when no   *)
(* executable has an empty region.                                         *)
NoFrameLost ==
  (damage = {} /\ allocTableActive) =>
    \A f \in bootTop .. (firstpaddr - 1) :
      f \in freeRamFrames \/ \E h \in Holders : f \in Held(h)

(* ram.c: frame 0 "is not a legal *allocatable* physical address, because  *)
(* it's the page with the exception handlers on it"; the same goes for the *)
(* rest of the kernel image.  The frames below firstfree are never free    *)
(* and never given to anybody.                                             *)
KernelImageNotAllocatable ==
  \A f \in 0 .. (BootFrames - 1) :
    f \notin freeRamFrames /\ \A h \in Holders : f \notin Held(h)

-----------------------------------------------------------------------------
(* The inductive invariant behind the first three properties.              *)

Busy(t) == pc[t] # "idle"

(* The bases and the free frames lie in the RAM handed out so far.         *)
Bounds ==
  /\ BootFrames <= firstpaddr
  /\ \A h \in Holders :
       pbase[h] # 0 => BootFrames <= pbase[h] /\ pbase[h] + npages[h] <= firstpaddr

(* A frame not handed out yet has no size; a block is not empty, and its   *)
(* size entry is not larger than the block.                                *)
Sizes ==
  /\ \A f \in Frames : f >= firstpaddr => allocSize[f] = 0
  /\ \A k \in KBlocks :
       pbase[k] # 0 => npages[k] > 0 /\ allocSize[pbase[k]] <= npages[k]

(* An address space that does not exist holds nothing.                     *)
Unborn ==
  \A a \in AddrSpaces : as[a] = "none" => \A j \in 1 .. 3 : pbase[<<a, j>>] = 0

(* What a busy thread works on.                                            *)
Working(t) ==
  \/ /\ who[t] \in KBlocks
     /\ npages[who[t]] > 0
     /\ pc[t] \in {"getfree", "steal"} => pbase[who[t]] = 0
     /\ pc[t] = "free" => pbase[who[t]] # 0 /\ count[t] <= npages[who[t]]
  \/ /\ who[t] \in Regions
     /\ as[who[t][1]] = IF pc[t] = "free" THEN "dying" ELSE "loading"
     /\ pc[t] = "free" =>
          /\ count[t] = npages[who[t]]
          /\ \A j \in 1 .. 3 : j < who[t][2] => pbase[<<who[t][1], j>>] = 0

(* No two busy threads work on the same block or address space.            *)
Exclusive ==
  \A t, u \in Threads : t # u /\ Busy(t) /\ Busy(u) =>
    /\ who[t] # who[u]
    /\ who[t] \in Regions /\ who[u] \in Regions => who[t][1] # who[u][1]

Sound ==
  /\ Bounds /\ Sizes /\ Unborn
  /\ \A t \in Threads : Busy(t) => Working(t)
  /\ Exclusive /\ Disjoint /\ FreeUnused

(* The invariant the proof of the properties above goes by.                *)
IInv == damage = {} => Sound
=============================================================================
