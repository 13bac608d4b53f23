---------------------------- MODULE DumbvmProofs ----------------------------
(***************************************************************************)
(* Proofs about Dumbvm for any amount of RAM and any number of threads,    *)
(* address spaces and heap blocks.                                         *)
(***************************************************************************)
EXTENDS Dumbvm, TLAPS

USE DEF Frames, ramVars, holderVars, threadVars, allocTableActive

(* What the holders are: heap blocks, vm_bootstrap's tables and regions.   *)
LEMMA HolderFacts ==
  /\ \A h \in KBlocks : h \in Holders
  /\ \A h \in Regions : h \in Holders
  /\ VmTables \in Holders
  /\ \A h \in Holders : h \in KBlocks \/ h = VmTables \/ h \in Regions
BY DEF Holders

(* The regions of an address space.                                        *)
LEMMA RegionFacts ==
  ASSUME NEW a \in AddrSpaces
  PROVE  <<a, 1>> \in Regions /\ <<a, 2>> \in Regions /\ <<a, 3>> \in Regions
BY DEF Regions

(* The next region of an address space is a region.                        *)
LEMMA NextRegion ==
  ASSUME NEW h \in Regions
  PROVE  /\ h[1] \in AddrSpaces /\ h[2] \in 1 .. 3 /\ h = <<h[1], h[2]>>
         /\ h[2] < 3 => <<h[1], h[2] + 1>> \in Regions
BY DEF Regions

-----------------------------------------------------------------------------
(* Types.                                                                  *)

(* A call that returns, or that goes on to as_destroy, keeps the types.    *)
LEMMA ReturnType ==
  ASSUME ThreadTypeOK, NEW t \in Threads, Return(t)
  PROVE  ThreadTypeOK'
BY HolderFacts DEF ThreadTypeOK, Return

(* A call that goes on to as_destroy keeps the types.                      *)
LEMMA DestroyType ==
  ASSUME TypeOK, NEW t \in Threads, NEW a \in AddrSpaces, StartDestroy(t, a)
  PROVE  /\ ThreadTypeOK'
         /\ as' \in [AddrSpaces -> {"none", "loading", "loaded", "partial", "dying"}]
BY HolderFacts, RegionFacts, Zenon DEF TypeOK, HolderTypeOK, ThreadTypeOK, StartDestroy

(* A load that ends with ENOMEM keeps the types.                           *)
LEMMA AbandonType ==
  ASSUME TypeOK, NEW t \in Threads, who[t] \in Regions, AbandonLoad(t)
  PROVE  /\ ThreadTypeOK'
         /\ as' \in [AddrSpaces -> {"none", "loading", "loaded", "partial", "dying"}]
<1>1. who[t][1] \in AddrSpaces
  BY NextRegion, Zenon
<1>2. CASE caller[t] = "runprogram"
  BY <1>1, <1>2, ReturnType, Zenon DEF AbandonLoad, TypeOK, HolderTypeOK
<1>3. CASE caller[t] # "runprogram"
  BY <1>1, <1>3, DestroyType, Zenon DEF AbandonLoad
<1> QED BY <1>2, <1>3

(* ram_bootstrap.                                                          *)
LEMMA TypeInit == Init => TypeOK
BY RamAssumption, HolderFacts DEF Init, TypeOK, RamTypeOK, HolderTypeOK, ThreadTypeOK

(* vm_bootstrap.                                                           *)
LEMMA TypeVmBootstrap == TypeOK /\ VmBootstrap => TypeOK'
<1> SUFFICES ASSUME TypeOK, VmBootstrap PROVE TypeOK'
  OBVIOUS
<1> DEFINE got == IF StealOk(FreeTablePages + SizeTablePages)
                  THEN FreeTablePages + SizeTablePages
                  ELSE IF StealOk(FreeTablePages) THEN FreeTablePages ELSE 0
<1>1. got \in Nat /\ firstpaddr + got \in 0 .. nRamFrames
  BY SizeAssumption, RamAssumption DEF TypeOK, RamTypeOK, StealOk
<1>2. RamTypeOK'
  BY <1>1 DEF VmBootstrap, TypeOK, RamTypeOK
<1>3. HolderTypeOK'
  BY <1>1, HolderFacts, Zenon DEF VmBootstrap, TypeOK, RamTypeOK, HolderTypeOK
<1>4. ThreadTypeOK'
  BY DEF VmBootstrap, TypeOK, ThreadTypeOK
<1> QED BY <1>2, <1>3, <1>4 DEF TypeOK

(* getfreeppages.                                                          *)
LEMMA TypeGetFree == ASSUME TypeOK, NEW t \in Threads, GetFreePages(t) PROVE TypeOK'
<1>1. CASE /\ pc' = [pc EXCEPT ![t] = "steal"]
           /\ UNCHANGED <<freeRamFrames, allocSize, pbase>>
  <2>1. RamTypeOK' /\ HolderTypeOK'
    BY <1>1, Zenon DEF GetFreePages, TypeOK, RamTypeOK, HolderTypeOK
  <2>2. ThreadTypeOK'
    BY <1>1 DEF GetFreePages, TypeOK, ThreadTypeOK
  <2> QED BY <2>1, <2>2 DEF TypeOK
<1>2. ASSUME NEW f \in Fits(npages[who[t]]), GetFreeFound(t, f) PROVE TypeOK'
  <2>1. f \in Frames /\ npages[who[t]] \in Nat
    BY DEF Fits, TypeOK, RamTypeOK, HolderTypeOK, ThreadTypeOK
  <2>2. RamTypeOK'
    BY <1>2, <2>1, Zenon DEF GetFreePages, GetFreeFound, TypeOK, RamTypeOK
  <2>3. HolderTypeOK'
    <3>1. f \in 0 .. nRamFrames
      BY <2>1, RamAssumption
    <3> QED BY <1>2, <3>1, Zenon DEF GetFreePages, GetFreeFound, TypeOK, HolderTypeOK
  <2>4. ThreadTypeOK'
    BY <1>2 DEF GetFreePages, GetFreeFound, TypeOK, ThreadTypeOK
  <2> QED BY <2>2, <2>3, <2>4 DEF TypeOK
<1> QED BY <1>1, <1>2 DEF GetFreePages

(* ram_stealmem, or the failure of getppages.                              *)
LEMMA TypeStealMem == ASSUME TypeOK, NEW t \in Threads, StealMem(t) PROVE TypeOK'
<1>0. npages[who[t]] \in Nat /\ firstpaddr \in 0 .. nRamFrames
  BY DEF TypeOK, RamTypeOK, HolderTypeOK, ThreadTypeOK
<1>1. CASE StealOk(npages[who[t]])
  <2>0. /\ firstpaddr' = firstpaddr + npages[who[t]]
        /\ pbase' = [pbase EXCEPT ![who[t]] = firstpaddr]
        /\ pc' = [pc EXCEPT ![t] = "record"]
        /\ UNCHANGED <<npages, as, who, caller, count>>
    BY <1>1 DEF StealMem
  <2>1. RamTypeOK'
    <3>1. firstpaddr' \in 0 .. nRamFrames
      BY <1>0, <1>1, <2>0, RamAssumption DEF StealOk
    <3>2. UNCHANGED <<freeRamFrames, allocSize, table, bootTop, damage>>
      BY DEF StealMem
    <3> QED BY <3>1, <3>2 DEF TypeOK, RamTypeOK
  <2>2. HolderTypeOK'
    <3>1. pbase' \in [Holders -> 0 .. nRamFrames]
      BY <1>0, <2>0, Zenon DEF TypeOK, HolderTypeOK
    <3>2. UNCHANGED <<npages, as>>
      BY <2>0
    <3> QED BY <3>1, <3>2, Zenon DEF TypeOK, HolderTypeOK
  <2>3. ThreadTypeOK'
    BY <2>0 DEF TypeOK, ThreadTypeOK
  <2> QED BY <2>1, <2>2, <2>3 DEF TypeOK
<1>2. CASE ~StealOk(npages[who[t]]) /\ who[t] \in KBlocks
           /\ npages' = [npages EXCEPT ![who[t]] = 0] /\ Return(t)
           /\ UNCHANGED <<firstpaddr, pbase, as>>
  <2>1. RamTypeOK' /\ HolderTypeOK'
    BY <1>2, Zenon DEF StealMem, TypeOK, RamTypeOK, HolderTypeOK
  <2> QED BY <1>2, <2>1, ReturnType DEF TypeOK
<1>3. CASE ~StealOk(npages[who[t]]) /\ who[t] \in Regions /\ AbandonLoad(t)
           /\ UNCHANGED <<firstpaddr, pbase, npages>>
  BY <1>3, AbandonType, Zenon DEF StealMem, TypeOK, RamTypeOK, HolderTypeOK
<1> QED BY <1>1, <1>2, <1>3, Zenon DEF StealMem

(* The end of getppages.                                                   *)
LEMMA TypeRecordSize == ASSUME TypeOK, NEW t \in Threads, RecordSize(t) PROVE TypeOK'
<1>1. allocSize' \in [Frames -> Nat]
  BY DEF RecordSize, SizesAfter, TypeOK, RamTypeOK, HolderTypeOK, ThreadTypeOK
<1>2. RamTypeOK'
  <2>1. PastEnd(who[t]) \subseteq Nat
    BY RamAssumption DEF PastEnd, TypeOK, HolderTypeOK, ThreadTypeOK
  <2> QED BY <1>1, <2>1, Zenon DEF RecordSize, TypeOK, RamTypeOK
<1>3. HolderTypeOK'
  BY NextRegion, Zenon DEF RecordSize, TypeOK, HolderTypeOK
<1>4. ThreadTypeOK'
  <2>1. CASE Return(t)
    BY <2>1, ReturnType DEF TypeOK
  <2>2. CASE /\ who[t] \in Regions /\ who[t][2] < 3
             /\ who' = [who EXCEPT ![t] = <<who[t][1], who[t][2] + 1>>]
             /\ pc' = [pc EXCEPT ![t] = "getfree"] /\ UNCHANGED <<caller, count>>
    <3>1. <<who[t][1], who[t][2] + 1>> \in Holders
      BY <2>2, NextRegion, HolderFacts
    <3> QED BY <2>2, <3>1 DEF TypeOK, ThreadTypeOK
  <2> QED BY <2>1, <2>2, Zenon DEF RecordSize
<1> QED BY <1>2, <1>3, <1>4 DEF TypeOK

(* alloc_kpages.                                                           *)
LEMMA TypeAllocKpages == ASSUME TypeOK, NEW t \in Threads, AllocKpages(t) PROVE TypeOK'
<1>1. RamTypeOK' /\ HolderTypeOK'
  BY SizeAssumption, Zenon DEF AllocKpages, TypeOK, RamTypeOK, HolderTypeOK
<1>2. ThreadTypeOK'
  BY HolderFacts DEF AllocKpages, TypeOK, ThreadTypeOK
<1> QED BY <1>1, <1>2 DEF TypeOK

(* free_kpages.                                                            *)
LEMMA TypeFreeKpages == ASSUME TypeOK, NEW t \in Threads, FreeKpages(t) PROVE TypeOK'
<1> PICK k \in KBlocks :
       /\ pbase[k] # 0
       /\ \/ /\ allocTableActive /\ pbase[k] \in Frames
             /\ who' = [who EXCEPT ![t] = k]
             /\ count' = [count EXCEPT ![t] = allocSize[pbase[k]]]
             /\ pc' = [pc EXCEPT ![t] = "free"]
             /\ UNCHANGED <<pbase, npages>>
          \/ /\ ~allocTableActive
             /\ pbase' = [pbase EXCEPT ![k] = 0]
             /\ npages' = [npages EXCEPT ![k] = 0]
             /\ UNCHANGED <<who, count, pc>>
  BY DEF FreeKpages
<1>1. RamTypeOK'
  BY DEF FreeKpages, TypeOK, RamTypeOK
<1>2. HolderTypeOK'
  <2>1. 0 \in 0 .. nRamFrames /\ UNCHANGED as
    BY RamAssumption DEF FreeKpages
  <2>2. CASE UNCHANGED <<pbase, npages>>
    BY <2>1, <2>2, Zenon DEF TypeOK, HolderTypeOK
  <2>3. CASE /\ pbase' = [pbase EXCEPT ![k] = 0]
             /\ npages' = [npages EXCEPT ![k] = 0]
    BY <2>1, <2>3, Zenon DEF TypeOK, HolderTypeOK
  <2> QED BY <2>2, <2>3
<1>3. ThreadTypeOK'
  <2>1. allocSize[pbase[k]] \in Nat \/ ~allocTableActive
    BY DEF TypeOK, RamTypeOK
  <2>2. k \in Holders /\ UNCHANGED caller
    BY HolderFacts DEF FreeKpages
  <2> QED BY <2>1, <2>2 DEF TypeOK, ThreadTypeOK
<1> QED BY <1>1, <1>2, <1>3 DEF TypeOK

(* as_create with its regions, or as_copy.                                 *)
LEMMA TypeStartLoad ==
  ASSUME TypeOK, NEW t \in Threads, NEW a \in AddrSpaces, NEW n1 \in Nat, NEW n2 \in Nat,
         NEW c \in {"as_copy", "loadexec", "runprogram"}, StartLoad(t, a, c, n1, n2)
  PROVE  TypeOK'
<1>1. RamTypeOK' /\ HolderTypeOK'
  BY SizeAssumption, Zenon DEF StartLoad, TypeOK, RamTypeOK, HolderTypeOK
<1>2. ThreadTypeOK'
  BY HolderFacts, RegionFacts DEF StartLoad, TypeOK, ThreadTypeOK
<1> QED BY <1>1, <1>2 DEF TypeOK

(* freeppages.                                                             *)
LEMMA TypeFreePpages == ASSUME TypeOK, NEW t \in Threads, FreePpages(t) PROVE TypeOK'
<1>1. RamTypeOK'
  <2>1. pbase[who[t]] \in 0 .. nRamFrames /\ count[t] \in Nat
    BY DEF TypeOK, HolderTypeOK, ThreadTypeOK
  <2>2. Freed(t) \subseteq Nat
    BY <2>1, RamAssumption DEF Freed, Span
  <2> QED BY <2>2, Zenon DEF FreePpages, TypeOK, RamTypeOK
<1>2. HolderTypeOK'
  <2>1. 0 \in 0 .. nRamFrames
    BY RamAssumption
  <2>2. as' \in [AddrSpaces -> {"none", "loading", "loaded", "partial", "dying"}]
    BY NextRegion, Zenon DEF FreePpages, TypeOK, HolderTypeOK
  <2> QED BY <2>1, <2>2, Zenon DEF FreePpages, TypeOK, HolderTypeOK
<1>3. ThreadTypeOK'
  <2>1. CASE Return(t)
    BY <2>1, ReturnType DEF TypeOK
  <2>2. CASE /\ who[t] \in Regions /\ who[t][2] < 3
             /\ who' = [who EXCEPT ![t] = <<who[t][1], who[t][2] + 1>>]
             /\ count' = [count EXCEPT ![t] = npages[<<who[t][1], who[t][2] + 1>>]]
             /\ UNCHANGED <<pc, caller>>
    <3>1. <<who[t][1], who[t][2] + 1>> \in Holders
      BY <2>2, NextRegion, HolderFacts
    <3>2. npages[<<who[t][1], who[t][2] + 1>>] \in Nat
      BY <3>1 DEF TypeOK, HolderTypeOK
    <3> QED BY <2>2, <3>1, <3>2 DEF TypeOK, ThreadTypeOK
  <2> QED BY <2>1, <2>2, Zenon DEF FreePpages
<1> QED BY <1>1, <1>2, <1>3 DEF TypeOK

(* Every step keeps the types.                                             *)
LEMMA TypeStep == TypeOK /\ [Next]_vars => TypeOK'
<1>1. ASSUME TypeOK, NEW t \in Threads, LoadElf(t) PROVE TypeOK'
  BY <1>1, TypeStartLoad, SizeAssumption DEF LoadElf
<1>2. ASSUME TypeOK, NEW t \in Threads, AsCopy(t) PROVE TypeOK'
  BY <1>2, TypeStartLoad, HolderFacts, RegionFacts, Zenon DEF AsCopy, TypeOK, HolderTypeOK
<1>3. ASSUME TypeOK, NEW t \in Threads, RejectElf(t) PROVE TypeOK'
  BY <1>3, AbandonType, Zenon DEF RejectElf, TypeOK, RamTypeOK, HolderTypeOK
<1>4. ASSUME TypeOK, NEW t \in Threads, AsDestroy(t) PROVE TypeOK'
  BY <1>4, DestroyType, Zenon DEF AsDestroy, TypeOK, RamTypeOK, HolderTypeOK
<1>5. ASSUME TypeOK, UNCHANGED vars PROVE TypeOK'
  BY <1>5, Zenon DEF vars, TypeOK, RamTypeOK, HolderTypeOK, ThreadTypeOK
<1> QED
  BY <1>1, <1>2, <1>3, <1>4, <1>5, TypeVmBootstrap, TypeGetFree, TypeStealMem,
     TypeRecordSize, TypeAllocKpages, TypeFreeKpages, TypeFreePpages DEF Next, Step

(* Every variable keeps its type: in particular ram_stealmem never hands   *)
(* out memory past the end of RAM.                                         *)
THEOREM TypeCorrect == Spec => []TypeOK
BY TypeInit, TypeStep, PTL DEF Spec

-----------------------------------------------------------------------------
(* Frames.                                                                 *)

(* What the types say of the numbers in the state.                         *)
LEMMA Typed ==
  ASSUME TypeOK
  PROVE  /\ firstpaddr \in Nat /\ firstpaddr <= nRamFrames
         /\ \A h \in Holders : pbase[h] \in Nat /\ npages[h] \in Nat
         /\ \A t \in Threads : who[t] \in Holders /\ count[t] \in Nat
BY RamAssumption DEF TypeOK, RamTypeOK, HolderTypeOK, ThreadTypeOK

(* Only holder h changes, and what it now holds was nobody else's.         *)
LEMMA DisjointUpdate ==
  ASSUME Disjoint, NEW h \in Holders,
         \A g \in Holders : g # h => Held(g)' = Held(g) /\ Held(h)' \cap Held(g) = {}
  PROVE  Disjoint'
BY DEF Disjoint

(* Nobody gains a frame, and no frame becomes free or unhanded.            *)
LEMMA KeepFrames ==
  ASSUME Disjoint, FreeUnused, firstpaddr \in Nat,
         firstpaddr' \in Nat, firstpaddr <= firstpaddr', freeRamFrames' = freeRamFrames,
         freeRamFrames \subseteq Frames,
         \A g \in Holders : Held(g)' \subseteq Held(g)
  PROVE  Disjoint' /\ FreeUnused'
<1>1. Disjoint'
  BY DEF Disjoint
<1>2. FreeUnused'
  BY RamAssumption DEF FreeUnused
<1> QED BY <1>1, <1>2

(* A holder whose base is not set, or that keeps base and size, holds what *)
(* it held.                                                                *)
LEMMA HeldSame ==
  ASSUME NEW g \in Holders, pbase'[g] = pbase[g], npages'[g] = npages[g] \/ pbase[g] = 0
  PROVE  Held(g)' = Held(g)
BY DEF Held, Span

(* A busy thread whose block or address space nobody touches goes on.      *)
LEMMA KeepWorking ==
  ASSUME NEW u \in Threads, Busy(u) => Working(u),
         pc'[u] = pc[u], who'[u] = who[u], count'[u] = count[u],
         Busy(u) /\ who[u] \in KBlocks =>
           pbase'[who[u]] = pbase[who[u]] /\ npages'[who[u]] = npages[who[u]],
         Busy(u) /\ who[u] \in Regions =>
           /\ as'[who[u][1]] = as[who[u][1]]
           /\ npages'[who[u]] = npages[who[u]]
           /\ \A j \in 1 .. 3 : pbase'[<<who[u][1], j>>] = pbase[<<who[u][1], j>>]
  PROVE  Busy(u)' => Working(u)'
<1> SUFFICES ASSUME Busy(u) PROVE Working(u)'
  BY DEF Busy
<1>1. CASE who[u] \in KBlocks /\ who[u] \notin Regions
  BY <1>1, Zenon DEF Working
<1>2. CASE who[u] \in Regions
  BY <1>2, HolderAssumption, Zenon DEF Working
<1> QED BY <1>1, <1>2, Zenon DEF Working

(* The argument of freeppages is at most the size of the holder.           *)
LEMMA WorkingCount ==
  ASSUME TypeOK, NEW t \in Threads, Working(t), pc[t] = "free"
  PROVE  count[t] <= npages[who[t]]
<1>1. count[t] <= npages[who[t]] \/ count[t] = npages[who[t]]
  BY Zenon DEF Working
<1>2. count[t] \in Nat /\ npages[who[t]] \in Nat
  BY Typed
<1> QED BY <1>1, <1>2

(* ram_bootstrap: nobody holds anything.                                   *)
LEMMA SoundInit == Init => Sound
<1> SUFFICES ASSUME Init PROVE Sound
  OBVIOUS
<1>1. TypeOK
  BY TypeInit
<1>2. Bounds /\ Sizes
  BY RamAssumption, HolderFacts DEF Init, Bounds, Sizes
<1>3. Unborn
  BY HolderFacts, NextRegion DEF Init, Unborn, Regions, Holders
<1>4. Exclusive /\ \A t \in Threads : Busy(t) => Working(t)
  BY DEF Init, Exclusive, Busy
<1>5. Disjoint /\ FreeUnused
  BY DEF Init, Disjoint, FreeUnused, Held
<1> QED BY <1>2, <1>3, <1>4, <1>5 DEF Sound

(* vm_bootstrap's tables are new frames.                                   *)
LEMMA SoundVmBootstrap == ASSUME TypeOK, Sound, VmBootstrap PROVE Sound'
<1> DEFINE got == IF StealOk(FreeTablePages + SizeTablePages)
                  THEN FreeTablePages + SizeTablePages
                  ELSE IF StealOk(FreeTablePages) THEN FreeTablePages ELSE 0
<1>1. /\ got \in Nat
      /\ firstpaddr' = firstpaddr + got
      /\ pbase' = [pbase EXCEPT ![VmTables] = firstpaddr]
      /\ npages' = [npages EXCEPT ![VmTables] = got]
      /\ UNCHANGED <<freeRamFrames, allocSize, as, pc, who, caller, count>>
  BY SizeAssumption DEF VmBootstrap
<1> HIDE DEF got
<1>2. /\ pbase'[VmTables] = firstpaddr /\ npages'[VmTables] = got
      /\ \A h \in Holders : h # VmTables => pbase'[h] = pbase[h] /\ npages'[h] = npages[h]
  BY <1>1, HolderFacts DEF TypeOK, HolderTypeOK
<1>3. \A h \in Holders : h # VmTables => Held(h)' = Held(h)
  BY <1>2, HeldSame
<1>4. Bounds'
  BY <1>1, <1>2, Typed, RamAssumption DEF Sound, Bounds
<1>5. Sizes'
  <2>1. \A k \in KBlocks : k \in Holders /\ k # VmTables
    BY HolderFacts, HolderAssumption
  <2> QED BY <1>1, <1>2, <2>1, Typed, RamAssumption DEF Sound, Sizes
<1>6. \A a \in AddrSpaces : \A j \in 1 .. 3 : pbase'[<<a, j>>] = pbase[<<a, j>>]
  BY <1>2, HolderFacts, HolderAssumption DEF Regions
<1>7. Unborn'
  BY <1>1, <1>6, Zenon DEF Sound, Unborn
<1>8. Exclusive' /\ \A t \in Threads : Busy(t)' => Working(t)'
  BY <1>1 DEF VmBootstrap, Exclusive, Busy
<1>9. Disjoint'
  <2>1. ASSUME NEW g \in Holders, g # VmTables PROVE Held(VmTables)' \cap Held(g) = {}
    BY <1>1, <1>2, <2>1, Typed DEF Sound, Bounds, Held, Span
  <2> QED BY <1>3, <2>1, DisjointUpdate, HolderFacts DEF Sound
<1>10. FreeUnused'
  <2>1. ASSUME NEW f \in freeRamFrames PROVE f \notin Held(VmTables)'
    <3>1. f \in Nat /\ f < firstpaddr /\ firstpaddr \in Nat
      BY Typed, RamAssumption DEF Sound, FreeUnused, TypeOK, RamTypeOK
    <3> QED BY <1>1, <1>2, <3>1 DEF Held, Span
  <2>2. ASSUME NEW f \in freeRamFrames PROVE f < firstpaddr'
    BY <1>1, Typed, RamAssumption DEF Sound, FreeUnused, TypeOK, RamTypeOK
  <2> QED BY <1>1, <1>3, <2>1, <2>2 DEF Sound, FreeUnused
<1> QED BY <1>4, <1>5, <1>7, <1>8, <1>9, <1>10 DEF Sound

(* Thread t moves and the others do not; t returned, or no other busy      *)
(* thread works on what t works on now.                                    *)
LEMMA KeepExclusive ==
  ASSUME Exclusive, NEW t \in Threads,
         \A u \in Threads : u # t => pc'[u] = pc[u] /\ who'[u] = who[u],
         Busy(t)' => \A u \in Threads : u # t /\ Busy(u) =>
           /\ who'[t] # who[u]
           /\ who'[t] \in Regions /\ who[u] \in Regions => who'[t][1] # who[u][1]
  PROVE  Exclusive'
BY DEF Exclusive, Busy

(* The part of a step that gives holder who[t] the frames from b on.       *)
LEMMA Gain ==
  ASSUME TypeOK, Sound, NEW t \in Threads, Busy(t),
         pc[t] # "free", pc'[t] = "record", UNCHANGED <<npages, as, who, count>>,
         \A u \in Threads : u # t => pc'[u] = pc[u],
         NEW b \in Nat, b >= BootFrames,
         pbase' = [pbase EXCEPT ![who[t]] = b],
         b + npages[who[t]] <= firstpaddr', firstpaddr' \in Nat, firstpaddr <= firstpaddr',
         \A g \in Holders : Span(b, npages[who[t]]) \cap Held(g) = {},
         freeRamFrames' \subseteq freeRamFrames,
         freeRamFrames' \cap Span(b, npages[who[t]]) = {}
  PROVE  Bounds' /\ Unborn' /\ Exclusive' /\ Disjoint' /\ FreeUnused'
         /\ \A u \in Threads : Busy(u)' => Working(u)'
<1>1. /\ who[t] \in Holders /\ Working(t)
      /\ pbase'[who[t]] = b /\ \A h \in Holders : h # who[t] => pbase'[h] = pbase[h]
  BY Typed, Zenon DEF Sound, TypeOK, HolderTypeOK
<1>2. Held(who[t])' = Span(b, npages[who[t]])
  BY <1>1, RamAssumption DEF Held, Span
<1>3. \A h \in Holders : h # who[t] => Held(h)' = Held(h)
  BY <1>1, HeldSame
<1>4. Bounds'
  <2>1. BootFrames <= firstpaddr'
    BY Typed, RamAssumption DEF Sound, Bounds
  <2>2. ASSUME NEW h \in Holders, pbase'[h] # 0
        PROVE  BootFrames <= pbase'[h] /\ pbase'[h] + npages[h] <= firstpaddr'
    <3>1. CASE h = who[t]
      BY <1>1, <3>1
    <3>2. CASE h # who[t]
      <4>1. BootFrames <= pbase[h] /\ pbase[h] + npages[h] <= firstpaddr /\ pbase'[h] = pbase[h]
        BY <1>1, <2>2, <3>2 DEF Sound, Bounds
      <4>2. pbase[h] \in Nat /\ npages[h] \in Nat /\ firstpaddr \in Nat
        BY Typed
      <4> QED BY <4>1, <4>2
    <3> QED BY <3>1, <3>2
  <2> QED BY <2>1, <2>2 DEF Bounds
<1>5. Unborn'
  <2>1. ASSUME NEW a \in AddrSpaces, as[a] = "none", NEW j \in 1 .. 3 PROVE <<a, j>> # who[t]
    <3>1. <<a, j>> \in Regions /\ <<a, j>>[1] = a
      BY <2>1 DEF Regions
    <3> QED BY <1>1, <2>1, <3>1, HolderAssumption, Zenon DEF Working
  <2> QED BY <1>1, <2>1, HolderFacts, Zenon DEF Sound, Unborn, Regions
<1>6. Exclusive'
  <2>1. ASSUME NEW u \in Threads, u # t, Busy(u)
        PROVE  /\ who[t] # who[u]
               /\ who[t] \in Regions /\ who[u] \in Regions => who[t][1] # who[u][1]
    BY <2>1 DEF Sound, Exclusive
  <2>2. Exclusive
    BY DEF Sound
  <2> QED BY <2>1, <2>2, KeepExclusive
<1>7. Disjoint'
  BY <1>1, <1>2, <1>3, DisjointUpdate DEF Sound
<1>8. FreeUnused'
  <2>1. ASSUME NEW f \in freeRamFrames' PROVE f < firstpaddr'
    BY Typed, RamAssumption DEF Sound, FreeUnused, TypeOK, RamTypeOK
  <2> QED BY <1>1, <1>2, <1>3, <2>1 DEF Sound, FreeUnused
<1>9. ASSUME NEW u \in Threads PROVE Busy(u)' => Working(u)'
  <2>1. CASE u = t
    BY <1>1, <2>1, Zenon DEF Working, Busy
  <2>2. CASE u # t
    <3>1. Busy(u) /\ who[u] \in KBlocks => pbase'[who[u]] = pbase[who[u]]
      BY <1>1, <2>2, HolderFacts DEF Sound, Exclusive
    <3>2. Busy(u) /\ who[u] \in Regions =>
            \A j \in 1 .. 3 : pbase'[<<who[u][1], j>>] = pbase[<<who[u][1], j>>]
      <4> SUFFICES ASSUME Busy(u), who[u] \in Regions, NEW j \in 1 .. 3
                   PROVE  pbase'[<<who[u][1], j>>] = pbase[<<who[u][1], j>>]
        OBVIOUS
      <4>1. <<who[u][1], j>> \in Regions /\ <<who[u][1], j>>[1] = who[u][1]
        BY NextRegion DEF Regions
      <4>2. who[t] \in Regions => who[t][1] # who[u][1]
        BY <2>2 DEF Sound, Exclusive
      <4>3. <<who[u][1], j>> # who[t]
        BY <4>1, <4>2
      <4> QED BY <1>1, <4>1, <4>3, HolderFacts
    <3> QED BY <2>2, <3>1, <3>2, KeepWorking DEF Sound
  <2> QED BY <2>1, <2>2
<1> QED BY <1>4, <1>5, <1>6, <1>7, <1>8, <1>9

(* getfreeppages gives free frames, which nobody else holds.               *)
LEMMA SoundGetFree ==
  ASSUME TypeOK, Sound, NEW t \in Threads, GetFreePages(t) PROVE Sound'
<1>0. Busy(t) /\ pc[t] = "getfree" /\ Working(t) /\ who[t] \in Holders /\ npages[who[t]] \in Nat
  BY Typed DEF GetFreePages, Busy, Sound
<1>1. CASE /\ pc' = [pc EXCEPT ![t] = "steal"]
           /\ UNCHANGED <<freeRamFrames, allocSize, pbase>>
  <2>0. /\ UNCHANGED <<firstpaddr, npages, as, who, count>> /\ pc'[t] = "steal"
        /\ \A u \in Threads : u # t => pc'[u] = pc[u]
    BY <1>1 DEF GetFreePages, TypeOK, ThreadTypeOK
  <2>1. Bounds' /\ Sizes' /\ Unborn' /\ Disjoint' /\ FreeUnused'
    BY <1>1, <2>0, Zenon DEF Sound, Bounds, Sizes, Unborn, Disjoint, FreeUnused, Held
  <2>2. Exclusive'
    BY <1>0, <2>0, KeepExclusive DEF Sound, Exclusive
  <2>3. ASSUME NEW u \in Threads PROVE Busy(u)' => Working(u)'
    <3>1. CASE u = t
      BY <1>0, <1>1, <2>0, <3>1, Zenon DEF Working
    <3>2. CASE u # t
      BY <1>1, <2>0, <3>2, KeepWorking DEF Sound
    <3> QED BY <3>1, <3>2
  <2> QED BY <2>1, <2>2, <2>3 DEF Sound
<1>2. ASSUME NEW f \in Fits(npages[who[t]]), GetFreeFound(t, f) PROVE Sound'
  <2> DEFINE n == npages[who[t]]
  <2>0. /\ f \in freeRamFrames /\ f \in Nat /\ Span(f, n) \subseteq freeRamFrames
        /\ f >= BootFrames /\ f < firstpaddr
    BY RamAssumption DEF Fits, Sound, FreeUnused, TypeOK, RamTypeOK
  <2>1. f + n <= firstpaddr
    <3>1. CASE n = 0
      BY <2>0, <3>1, Typed
    <3>2. CASE n # 0
      <4>1. f + n - 1 \in Span(f, n)
        BY <1>0, <2>0, <3>2 DEF Span
      <4> QED BY <1>0, <2>0, <4>1, Typed DEF Sound, FreeUnused
    <3> QED BY <3>1, <3>2
  <2>2. /\ UNCHANGED <<firstpaddr, npages, as, who, count>> /\ pc'[t] = "record"
        /\ \A u \in Threads : u # t => pc'[u] = pc[u]
        /\ pbase' = [pbase EXCEPT ![who[t]] = f]
        /\ allocSize' = [allocSize EXCEPT ![f] = n]
        /\ freeRamFrames' = freeRamFrames \ Span(f, n)
    BY <1>2, <2>0, RamAssumption DEF GetFreePages, GetFreeFound, TypeOK, ThreadTypeOK
  <2>3. \A g \in Holders : Span(f, n) \cap Held(g) = {}
    BY <2>0, Zenon DEF Sound, FreeUnused
  <2>4. Bounds' /\ Unborn' /\ Exclusive' /\ Disjoint' /\ FreeUnused'
        /\ \A u \in Threads : Busy(u)' => Working(u)'
    <3>1. /\ f + n <= firstpaddr' /\ firstpaddr' \in Nat /\ firstpaddr <= firstpaddr'
          /\ freeRamFrames' \subseteq freeRamFrames /\ freeRamFrames' \cap Span(f, n) = {}
      <4>1. firstpaddr \in Nat /\ firstpaddr' = firstpaddr
        BY <2>2, Typed
      <4>2. freeRamFrames' = freeRamFrames \ Span(f, n)
        BY <2>2
      <4> HIDE DEF n
      <4> QED BY <2>1, <4>1, <4>2
    <3> HIDE DEF n
    <3> QED BY <1>0, <2>0, <2>2, <2>3, <3>1, Gain, Zenon DEF n
  <2>5. Sizes'
    <3>1. \A g \in Frames : allocSize'[g] = IF g = f THEN n ELSE allocSize[g]
      BY <2>2 DEF TypeOK, RamTypeOK
    <3>2. ASSUME NEW g \in Frames, g >= firstpaddr' PROVE allocSize'[g] = 0
      <4>1. firstpaddr' = firstpaddr /\ firstpaddr \in Nat /\ g \in Nat /\ g # f
        BY <2>0, <2>2, <3>2, Typed, RamAssumption
      <4>2. allocSize[g] = 0
        BY <3>2, <4>1 DEF Sound, Sizes
      <4> HIDE DEF n
      <4> QED BY <3>1, <4>1, <4>2
    <3>3. ASSUME NEW k \in KBlocks, pbase'[k] # 0
          PROVE  npages'[k] > 0 /\ allocSize'[pbase'[k]] <= npages'[k]
      <4>1. CASE k = who[t]
        <5>1. pbase'[k] = f /\ f \in Frames /\ npages[k] > 0
          <6>1. pbase'[k] = f
            BY <1>0, <2>2, <4>1 DEF TypeOK, HolderTypeOK
          <6>2. f \in Frames
            BY <2>0 DEF TypeOK, RamTypeOK
          <6>3. npages[k] > 0
            BY <1>0, <4>1, HolderAssumption, Zenon DEF Working
          <6> QED BY <6>1, <6>2, <6>3
        <5>2. allocSize'[f] = npages[k] /\ npages'[k] = npages[k]
          BY <2>2, <3>1, <4>1, <5>1
        <5>3. npages[k] \in Nat
          BY <1>0, <4>1
        <5> HIDE DEF n
        <5> QED BY <5>1, <5>2, <5>3
      <4>2. CASE k # who[t]
        <5>1. /\ pbase'[k] = pbase[k] /\ k \in Holders /\ npages[k] > 0
              /\ allocSize[pbase[k]] <= npages[k]
          <6>1. k \in Holders
            BY HolderFacts
          <6>2. pbase'[k] = pbase[k]
            BY <2>2, <4>2, <6>1 DEF TypeOK, HolderTypeOK
          <6> QED BY <3>3, <6>1, <6>2 DEF Sound, Sizes
        <5>2. pbase[k] \in Held(k)
          BY <3>3, <5>1, Typed DEF Held, Span
        <5>3. pbase[k] # f
          BY <2>0, <5>1, <5>2 DEF Sound, FreeUnused
        <5>4. pbase[k] \in Frames
          <6>1. pbase[k] + npages[k] <= firstpaddr
            BY <3>3, <5>1 DEF Sound, Bounds
          <6>2. pbase[k] \in Nat /\ npages[k] \in Nat /\ firstpaddr \in 0 .. nRamFrames
            BY <5>1, Typed DEF TypeOK, RamTypeOK
          <6>3. npages[k] > 0 /\ nRamFrames \in Nat
            BY <5>1, RamAssumption
          <6> HIDE DEF n
          <6> QED BY <6>1, <6>2, <6>3
        <5> QED BY <2>2, <3>1, <5>1, <5>3, <5>4
      <4> QED BY <4>1, <4>2
    <3> QED BY <3>2, <3>3 DEF Sizes
  <2> QED BY <2>4, <2>5 DEF Sound
<1> QED BY <1>1, <1>2 DEF GetFreePages

(* What does not depend on the threads, when the frames stay as they are.  *)
LEMMA SameFrames ==
  ASSUME TypeOK, Sound, UNCHANGED <<firstpaddr, freeRamFrames, allocSize, pbase, npages>>
  PROVE  Bounds' /\ Sizes' /\ Disjoint' /\ FreeUnused'
BY DEF Sound, Bounds, Sizes, Disjoint, FreeUnused, Held

(* as_destroy starts on an address space that no other thread works on.    *)
LEMMA SoundStartDestroy ==
  ASSUME TypeOK, Sound, NEW t \in Threads, NEW a \in AddrSpaces, StartDestroy(t, a),
         \A u \in Threads : u # t /\ Busy(u) /\ who[u] \in Regions => who[u][1] # a,
         UNCHANGED <<firstpaddr, freeRamFrames, allocSize, pbase, npages>>
  PROVE  Sound'
<1>1. <<a, 1>> \in Regions /\ <<a, 1>>[1] = a /\ <<a, 1>>[2] = 1
  BY DEF Regions
<1>2. /\ pc'[t] = "free" /\ who'[t] = <<a, 1>> /\ count'[t] = npages[<<a, 1>>]
      /\ \A u \in Threads : u # t => pc'[u] = pc[u] /\ who'[u] = who[u] /\ count'[u] = count[u]
      /\ as'[a] = "dying" /\ \A b \in AddrSpaces : b # a => as'[b] = as[b]
  BY DEF StartDestroy, TypeOK, ThreadTypeOK, HolderTypeOK
<1>3. Unborn'
  <2>1. ASSUME NEW b \in AddrSpaces, as'[b] = "none" PROVE as[b] = "none"
    BY <1>2, <2>1, Zenon
  <2> QED BY <2>1, Zenon DEF Sound, Unborn
<1>4. Exclusive'
  <2>1. ASSUME NEW u \in Threads, u # t, Busy(u)
        PROVE  who'[t] # who[u] /\ (who[u] \in Regions => who'[t][1] # who[u][1])
    <3>1. who'[t] \in Regions /\ who'[t][1] = a
      BY <1>1, <1>2
    <3>2. who[u] \in Regions => who[u][1] # a
      BY <2>1
    <3> QED BY <3>1, <3>2
  <2> QED BY <1>2, <2>1, KeepExclusive DEF Sound
<1>5. ASSUME NEW u \in Threads PROVE Busy(u)' => Working(u)'
  <2>1. CASE u = t
    <3>1. who'[t] \in Regions /\ who'[t][1] = a /\ who'[t][2] = 1
      BY <1>1, <1>2
    <3>2. count'[t] = npages'[who'[t]] /\ pc'[t] = "free" /\ as'[who'[t][1]] = "dying"
      BY <1>2, <3>1
    <3> QED BY <2>1, <3>1, <3>2 DEF Working
  <2>2. CASE u # t
    <3>1. Busy(u) /\ who[u] \in Regions => as'[who[u][1]] = as[who[u][1]]
      BY <1>2, <2>2, NextRegion, Zenon
    <3> QED BY <1>2, <2>2, <3>1, KeepWorking, Zenon DEF Sound
  <2> QED BY <2>1, <2>2
<1> QED BY <1>3, <1>4, <1>5, SameFrames DEF Sound

(* A load in progress ends without success.                                *)
LEMMA SoundAbandonLoad ==
  ASSUME TypeOK, Sound, NEW t \in Threads, Busy(t), who[t] \in Regions, AbandonLoad(t),
         UNCHANGED <<firstpaddr, freeRamFrames, allocSize, pbase, npages>>
  PROVE  Sound'
<1> DEFINE a == who[t][1]
<1>1. a \in AddrSpaces
  BY NextRegion, Zenon
<1>2. \A u \in Threads : u # t /\ Busy(u) /\ who[u] \in Regions => who[u][1] # a
  BY DEF Sound, Exclusive
<1> HIDE DEF a
<1>3. CASE StartDestroy(t, a)
  BY <1>1, <1>2, <1>3, SoundStartDestroy
<1>4. CASE as' = [as EXCEPT ![a] = "partial"] /\ Return(t)
  <2>1. /\ pc'[t] = "idle"
        /\ \A u \in Threads : u # t => pc'[u] = pc[u] /\ who'[u] = who[u] /\ count'[u] = count[u]
        /\ as'[a] = "partial" /\ \A b \in AddrSpaces : b # a => as'[b] = as[b]
    BY <1>1, <1>4 DEF Return, TypeOK, ThreadTypeOK, HolderTypeOK
  <2>2. Unborn'
    <3>1. ASSUME NEW b \in AddrSpaces, as'[b] = "none" PROVE as[b] = "none"
      BY <2>1, <3>1, Zenon
    <3> QED BY <3>1, Zenon DEF Sound, Unborn
  <2>3. Exclusive'
    BY <2>1, KeepExclusive DEF Sound, Busy
  <2>4. ASSUME NEW u \in Threads PROVE Busy(u)' => Working(u)'
    <3>1. CASE u = t
      BY <2>1, <3>1 DEF Busy
    <3>2. CASE u # t
      <4>1. Busy(u) /\ who[u] \in Regions => as'[who[u][1]] = as[who[u][1]]
        BY <1>2, <2>1, <3>2, NextRegion, Zenon
      <4> QED BY <2>1, <3>2, <4>1, KeepWorking, Zenon DEF Sound
    <3> QED BY <3>1, <3>2
  <2> QED BY <2>2, <2>3, <2>4, SameFrames DEF Sound
<1> QED BY <1>3, <1>4, Zenon DEF AbandonLoad, a

(* load_elf rejects a file.                                                *)
LEMMA SoundRejectElf ==
  ASSUME TypeOK, Sound, NEW t \in Threads, RejectElf(t) PROVE Sound'
BY SoundAbandonLoad DEF RejectElf, Busy, ramVars

(* as_destroy begins.                                                      *)
LEMMA SoundAsDestroy ==
  ASSUME TypeOK, Sound, NEW t \in Threads, AsDestroy(t) PROVE Sound'
<1>1. PICK a \in AddrSpaces : as[a] \in {"loaded", "partial"} /\ StartDestroy(t, a)
  BY Zenon DEF AsDestroy
<1>2. ASSUME NEW u \in Threads, Busy(u), who[u] \in Regions PROVE who[u][1] # a
  BY <1>1, <1>2, HolderAssumption, Zenon DEF Sound, Working
<1> QED BY <1>1, <1>2, SoundStartDestroy DEF AsDestroy, ramVars

(* A thread returns; its block, if it lost it, was not set.                *)
LEMMA SoundSteal ==
  ASSUME TypeOK, Sound, NEW t \in Threads, StealMem(t) PROVE Sound'
<1>0. /\ Busy(t) /\ pc[t] = "steal" /\ Working(t) /\ who[t] \in Holders
      /\ npages[who[t]] \in Nat /\ UNCHANGED <<freeRamFrames, allocSize>>
  BY Typed DEF StealMem, Busy, Sound
<1>1. CASE /\ StealOk(npages[who[t]])
           /\ firstpaddr' = firstpaddr + npages[who[t]]
           /\ pbase' = [pbase EXCEPT ![who[t]] = firstpaddr]
           /\ pc' = [pc EXCEPT ![t] = "record"]
           /\ UNCHANGED <<npages, as, who, caller, count>>
  <2> DEFINE n == npages[who[t]]
  <2>0. /\ pc'[t] = "record" /\ \A u \in Threads : u # t => pc'[u] = pc[u]
    BY <1>1 DEF TypeOK, ThreadTypeOK
  <2>1. /\ firstpaddr \in Nat /\ firstpaddr >= BootFrames
        /\ firstpaddr + n <= firstpaddr' /\ firstpaddr' \in Nat /\ firstpaddr <= firstpaddr'
    <3>1. firstpaddr \in Nat /\ n \in Nat /\ firstpaddr' = firstpaddr + n
      BY <1>0, <1>1, Typed
    <3>2. firstpaddr >= BootFrames
      <4>1. BootFrames <= firstpaddr
        BY DEF Sound, Bounds
      <4> HIDE DEF n
      <4> QED BY <3>1, <4>1, RamAssumption
    <3> HIDE DEF n
    <3>3. firstpaddr + n \in Nat /\ firstpaddr <= firstpaddr + n
      BY <3>1
    <3> QED BY <3>1, <3>2, <3>3
  <2>2. ASSUME NEW g \in Holders PROVE Span(firstpaddr, n) \cap Held(g) = {}
    <3>1. pbase[g] # 0 => pbase[g] + npages[g] <= firstpaddr
      BY DEF Sound, Bounds
    <3>2. pbase[g] \in Nat /\ npages[g] \in Nat /\ firstpaddr \in Nat
      BY Typed
    <3> HIDE DEF n
    <3>3. ASSUME NEW f \in Held(g) PROVE f < firstpaddr /\ f \in Int
      <4>1. pbase[g] # 0 /\ f \in pbase[g] .. (pbase[g] + npages[g] - 1)
        BY <3>3 DEF Held, Span
      <4> QED BY <3>1, <3>2, <4>1
    <3>4. \A f \in Span(firstpaddr, n) : f >= firstpaddr
      BY <3>2 DEF Span
    <3> QED BY <3>2, <3>3, <3>4
  <2>3. freeRamFrames' \cap Span(firstpaddr, n) = {}
    <3>1. ASSUME NEW f \in freeRamFrames' PROVE f < firstpaddr /\ f \in Int /\ firstpaddr \in Nat
      <4>1. f \in freeRamFrames
        BY <1>0
      <4>2. f < firstpaddr
        BY <4>1 DEF Sound, FreeUnused
      <4>3. f \in Int
        BY <4>1, RamAssumption DEF TypeOK, RamTypeOK
      <4> QED BY <2>1, <4>2, <4>3
    <3> HIDE DEF n
    <3> QED BY <3>1 DEF Span
  <2>4. Sizes'
    <3>1. ASSUME NEW g \in Frames, g >= firstpaddr' PROVE allocSize'[g] = 0
      <4>1. g \in Nat
        BY RamAssumption
      <4> HIDE DEF n
      <4>2. g >= firstpaddr
        BY <2>1, <3>1, <4>1
      <4> QED BY <1>0, <4>2 DEF Sound, Sizes
    <3>2. ASSUME NEW k \in KBlocks, pbase'[k] # 0
          PROVE  npages'[k] > 0 /\ allocSize'[pbase'[k]] <= npages'[k]
      <4>1. CASE k = who[t]
        <5>1. npages[k] > 0
          BY <1>0, <4>1, HolderAssumption, Zenon DEF Working
        <5>2. pbase'[k] = firstpaddr /\ firstpaddr \in Frames
          <6>1. pbase'[k] = firstpaddr
            BY <1>0, <1>1, <4>1 DEF TypeOK, HolderTypeOK
          <6>2. firstpaddr + npages[k] <= nRamFrames /\ npages[k] \in Nat
            BY <1>0, <1>1, <4>1 DEF StealOk
          <6>3. firstpaddr \in Nat /\ nRamFrames \in Nat
            BY <2>1, RamAssumption
          <6>4. firstpaddr \in Frames
            BY <5>1, <6>2, <6>3
          <6> QED BY <6>1, <6>4
        <5>3. allocSize[firstpaddr] = 0
          <6>1. firstpaddr >= firstpaddr
            BY <2>1
          <6> HIDE DEF n
          <6> QED BY <5>2, <6>1 DEF Sound, Sizes
        <5>4. npages'[k] = npages[k] /\ npages[k] \in Nat /\ allocSize'[pbase'[k]] = 0
          BY <1>0, <1>1, <4>1, <5>2, <5>3
        <5> HIDE DEF n
        <5> QED BY <5>1, <5>4
      <4>2. CASE k # who[t]
        <5>1. pbase'[k] = pbase[k]
          BY <1>1, <4>2, HolderFacts DEF TypeOK, HolderTypeOK
        <5> QED BY <1>0, <1>1, <3>2, <5>1 DEF Sound, Sizes
      <4> QED BY <4>1, <4>2
    <3> QED BY <3>1, <3>2 DEF Sizes
  <2>5. Bounds' /\ Unborn' /\ Exclusive' /\ Disjoint' /\ FreeUnused'
        /\ \A u \in Threads : Busy(u)' => Working(u)'
    BY <1>0, <1>1, <2>0, <2>1, <2>2, <2>3, Gain, Zenon
  <2> QED BY <2>4, <2>5 DEF Sound
<1>2. CASE /\ who[t] \in KBlocks
           /\ npages' = [npages EXCEPT ![who[t]] = 0]
           /\ Return(t)
           /\ UNCHANGED <<firstpaddr, pbase, as>>
  <2>1. /\ pc'[t] = "idle" /\ pbase[who[t]] = 0
        /\ \A u \in Threads : u # t => pc'[u] = pc[u] /\ who'[u] = who[u] /\ count'[u] = count[u]
        /\ npages'[who[t]] = 0
        /\ \A h \in Holders : h # who[t] => npages'[h] = npages[h]
    BY <1>0, <1>2, HolderAssumption, Zenon DEF Return, TypeOK, ThreadTypeOK, HolderTypeOK, Working
  <2>2. \A h \in Holders : Held(h)' = Held(h)
    BY <1>2, <2>1, HeldSame
  <2>3. Bounds' /\ Sizes' /\ Unborn'
    <3>1. Bounds'
      BY <1>2, <2>1, Zenon DEF Sound, Bounds
    <3>2. Sizes'
      BY <1>0, <1>2, <2>1, HolderFacts, Zenon DEF Sound, Sizes
    <3>3. Unborn'
      BY <1>2, Zenon DEF Sound, Unborn
    <3> QED BY <3>1, <3>2, <3>3
  <2>4. Disjoint' /\ FreeUnused'
    BY <1>0, <1>2, <2>2 DEF Sound, Disjoint, FreeUnused
  <2>5. Exclusive'
    BY <2>1, KeepExclusive DEF Sound, Busy
  <2>6. ASSUME NEW u \in Threads PROVE Busy(u)' => Working(u)'
    <3>1. CASE u = t
      BY <2>1, <3>1 DEF Busy
    <3>2. CASE u # t
      <4>1. Busy(u) => npages'[who[u]] = npages[who[u]]
        BY <1>0, <2>1, <3>2, Typed, Zenon DEF Sound, Exclusive
      <4> QED BY <1>2, <2>1, <3>2, <4>1, KeepWorking, Zenon DEF Sound
    <3> QED BY <3>1, <3>2
  <2> QED BY <2>3, <2>4, <2>5, <2>6 DEF Sound
<1>3. CASE /\ who[t] \in Regions /\ AbandonLoad(t)
           /\ UNCHANGED <<firstpaddr, pbase, npages>>
  BY <1>0, <1>3, SoundAbandonLoad
<1> QED BY <1>1, <1>2, <1>3, Zenon DEF StealMem

(* The size that getppages records is the size of the block.               *)
LEMMA SizesRecordSize ==
  ASSUME TypeOK, Sound, NEW h \in Holders, allocSize' = SizesAfter(h),
         UNCHANGED <<firstpaddr, pbase, npages>>
  PROVE  Sizes'
<1>1. CASE allocSize' = allocSize
  BY <1>1 DEF Sound, Sizes
<1>2. CASE pbase[h] \in Frames /\ allocSize' = [allocSize EXCEPT ![pbase[h]] = npages[h]]
  <2>1. \A g \in Frames : allocSize'[g] = IF g = pbase[h] THEN npages[h] ELSE allocSize[g]
    BY <1>2 DEF TypeOK, RamTypeOK
  <2>2. ASSUME NEW g \in Frames, g >= firstpaddr PROVE allocSize'[g] = 0
    <3>1. g = pbase[h] => npages[h] = 0
      BY <2>2, Typed, RamAssumption DEF Sound, Bounds
    <3> QED BY <2>1, <2>2, <3>1 DEF Sound, Sizes
  <2>3. ASSUME NEW k \in KBlocks, pbase[k] # 0
        PROVE  npages[k] > 0 /\ allocSize'[pbase[k]] <= npages[k]
    <3>1. /\ k \in Holders /\ npages[k] > 0 /\ allocSize[pbase[k]] <= npages[k]
          /\ pbase[k] \in Nat /\ npages[k] \in Nat /\ npages[h] \in Nat
      BY <2>3, HolderFacts, Typed DEF Sound, Sizes
    <3>2. pbase[k] \in Frames
      <4>1. pbase[k] + npages[k] <= firstpaddr
        BY <2>3, <3>1 DEF Sound, Bounds
      <4>2. firstpaddr \in 0 .. nRamFrames /\ nRamFrames \in Nat
        BY RamAssumption DEF TypeOK, RamTypeOK
      <4> QED BY <3>1, <4>1, <4>2
    <3>3. pbase[k] = pbase[h] => npages[h] <= npages[k]
      <4> SUFFICES ASSUME pbase[k] = pbase[h], k # h, npages[h] > 0 PROVE FALSE
        BY <3>1
      <4>1. pbase[k] \in Held(k) /\ pbase[k] \in Held(h)
        BY <2>3, <3>1 DEF Held, Span
      <4> QED BY <3>1, <4>1 DEF Sound, Disjoint
    <3> QED BY <2>1, <3>1, <3>2, <3>3
  <2> QED BY <2>2, <2>3 DEF Sizes
<1> QED BY <1>1, <1>2 DEF SizesAfter

(* The end of getppages changes no frame.                                  *)
LEMMA SoundRecordSize ==
  ASSUME TypeOK, Sound, NEW t \in Threads, RecordSize(t) PROVE Sound'
<1>0. /\ Busy(t) /\ pc[t] = "record" /\ Working(t) /\ who[t] \in Holders
      /\ allocSize' = SizesAfter(who[t])
      /\ UNCHANGED <<firstpaddr, freeRamFrames, pbase, npages>>
  BY Typed DEF RecordSize, Busy, Sound
<1>1. Sizes'
  BY <1>0, SizesRecordSize
<1>2. Bounds' /\ Disjoint' /\ FreeUnused'
  BY <1>0 DEF Sound, Bounds, Disjoint, FreeUnused, Held
<1>3. CASE who[t] \in KBlocks /\ Return(t) /\ UNCHANGED as
  <2>1. /\ pc'[t] = "idle"
        /\ \A u \in Threads : u # t => pc'[u] = pc[u] /\ who'[u] = who[u] /\ count'[u] = count[u]
    BY <1>3 DEF Return, TypeOK, ThreadTypeOK
  <2>2. Unborn' /\ Exclusive'
    BY <1>0, <1>3, <2>1, KeepExclusive, Zenon DEF Sound, Busy, Unborn
  <2>3. ASSUME NEW u \in Threads PROVE Busy(u)' => Working(u)'
    <3>1. CASE u = t
      BY <2>1, <3>1 DEF Busy
    <3>2. CASE u # t
      BY <1>0, <1>3, <2>1, <3>2, KeepWorking, Zenon DEF Sound
    <3> QED BY <3>1, <3>2
  <2> QED BY <1>1, <1>2, <2>2, <2>3 DEF Sound
<1>4. CASE /\ who[t] \in Regions /\ who[t][2] < 3
           /\ who' = [who EXCEPT ![t] = <<who[t][1], who[t][2] + 1>>]
           /\ pc' = [pc EXCEPT ![t] = "getfree"]
           /\ UNCHANGED <<as, caller, count>>
  <2> DEFINE next == <<who[t][1], who[t][2] + 1>>
  <2>1. next \in Regions /\ next[1] = who[t][1]
    BY <1>4, NextRegion
  <2>2. /\ pc'[t] = "getfree" /\ who'[t] = next
        /\ \A u \in Threads : u # t => pc'[u] = pc[u] /\ who'[u] = who[u] /\ count'[u] = count[u]
    BY <1>4 DEF TypeOK, ThreadTypeOK
  <2> HIDE DEF next
  <2>3. Unborn'
    BY <1>0, <1>4, Zenon DEF Sound, Unborn
  <2>4. Exclusive'
    <3>1. ASSUME NEW u \in Threads, u # t, Busy(u)
          PROVE  who'[t] # who[u] /\ (who[u] \in Regions => who'[t][1] # who[u][1])
      BY <1>0, <1>4, <2>1, <2>2, <3>1 DEF Sound, Exclusive
    <3> QED BY <2>2, <3>1, KeepExclusive DEF Sound
  <2>5. ASSUME NEW u \in Threads PROVE Busy(u)' => Working(u)'
    <3>1. CASE u = t
      <4>1. as[who[t][1]] = "loading"
        BY <1>0, <1>4, HolderAssumption, Zenon DEF Working
      <4> QED BY <1>4, <2>1, <2>2, <3>1, <4>1, Zenon DEF Working
    <3>2. CASE u # t
      BY <1>0, <1>4, <2>2, <3>2, KeepWorking DEF Sound
    <3> QED BY <3>1, <3>2
  <2> QED BY <1>1, <1>2, <2>3, <2>4, <2>5 DEF Sound
<1>5. CASE /\ who[t] \in Regions
           /\ as' = [as EXCEPT ![who[t][1]] = "loaded"]
           /\ Return(t)
  <2> DEFINE a == who[t][1]
  <2>1. a \in AddrSpaces
    BY <1>5, NextRegion, Zenon
  <2>2. \A u \in Threads : u # t /\ Busy(u) /\ who[u] \in Regions => who[u][1] # a
    BY <1>0, <1>5 DEF Sound, Exclusive
  <2> HIDE DEF a
  <2>3. /\ pc'[t] = "idle"
        /\ \A u \in Threads : u # t => pc'[u] = pc[u] /\ who'[u] = who[u] /\ count'[u] = count[u]
        /\ as'[a] = "loaded" /\ \A b \in AddrSpaces : b # a => as'[b] = as[b]
    BY <1>5, <2>1, Zenon DEF a, Return, TypeOK, ThreadTypeOK, HolderTypeOK
  <2>4. Unborn'
    <3>1. ASSUME NEW b \in AddrSpaces, as'[b] = "none" PROVE as[b] = "none"
      BY <2>3, <3>1, Zenon
    <3> QED BY <1>0, <3>1, Zenon DEF Sound, Unborn
  <2>5. Exclusive'
    BY <2>3, KeepExclusive DEF Sound, Busy
  <2>6. ASSUME NEW u \in Threads PROVE Busy(u)' => Working(u)'
    <3>1. CASE u = t
      BY <2>3, <3>1 DEF Busy
    <3>2. CASE u # t
      <4>1. Busy(u) /\ who[u] \in Regions => as'[who[u][1]] = as[who[u][1]]
        BY <2>2, <2>3, <3>2, NextRegion, Zenon
      <4> QED BY <1>0, <2>3, <3>2, <4>1, KeepWorking, Zenon DEF Sound
    <3> QED BY <3>1, <3>2
  <2> QED BY <1>1, <1>2, <2>4, <2>5, <2>6 DEF Sound
<1> QED BY <1>3, <1>4, <1>5, Zenon DEF RecordSize

(* alloc_kpages begins for a block nobody works on.                        *)
LEMMA SoundAllocKpages ==
  ASSUME TypeOK, Sound, NEW t \in Threads, AllocKpages(t) PROVE Sound'
<1>1. PICK k \in KBlocks, n \in KernelPages :
        /\ npages[k] = 0
        /\ npages' = [npages EXCEPT ![k] = n]
        /\ who' = [who EXCEPT ![t] = k]
        /\ pc' = [pc EXCEPT ![t] = "getfree"]
  BY Zenon DEF AllocKpages
<1>2. /\ n \in Nat /\ n > 0 /\ k \in Holders /\ k \notin Regions /\ pbase[k] = 0
      /\ npages'[k] = n /\ \A h \in Holders : h # k => npages'[h] = npages[h]
  BY <1>1, SizeAssumption, HolderAssumption, HolderFacts
  DEF TypeOK, HolderTypeOK, Sound, Sizes
<1>3. /\ pc'[t] = "getfree" /\ who'[t] = k
      /\ \A u \in Threads : u # t => pc'[u] = pc[u] /\ who'[u] = who[u]
      /\ UNCHANGED <<firstpaddr, freeRamFrames, allocSize, pbase, as, count>>
  BY <1>1 DEF AllocKpages, TypeOK, ThreadTypeOK, ramVars
<1>4. ASSUME NEW u \in Threads, Busy(u) PROVE who[u] # k
  <2>1. Working(u)
    BY <1>4 DEF Sound
  <2>2. npages[k] = 0 /\ k \notin Regions
    BY <1>1, <1>2
  <2>3. who[u] \notin Regions => npages[who[u]] > 0
    BY <2>1, Zenon DEF Working
  <2> QED BY <2>2, <2>3
<1>5. \A h \in Holders : Held(h)' = Held(h)
  BY <1>2, <1>3, HeldSame
<1>6. Bounds' /\ Sizes' /\ Unborn'
  BY <1>2, <1>3, HolderFacts, Zenon DEF Sound, Bounds, Sizes, Unborn
<1>7. Disjoint' /\ FreeUnused'
  BY <1>3, <1>5 DEF Sound, Disjoint, FreeUnused
<1>8. Exclusive'
  BY <1>2, <1>3, <1>4, KeepExclusive, Zenon DEF Sound
<1>9. ASSUME NEW u \in Threads PROVE Busy(u)' => Working(u)'
  <2>1. CASE u = t
    BY <1>2, <1>3, <2>1, Zenon DEF Working
  <2>2. CASE u # t
    <3>1. Busy(u) => npages'[who[u]] = npages[who[u]]
      BY <1>2, <1>4, Typed
    <3> QED BY <1>3, <2>2, <3>1, KeepWorking DEF Sound
  <2> QED BY <2>1, <2>2
<1> QED BY <1>6, <1>7, <1>8, <1>9 DEF Sound

(* A holder loses its frames; free frames, if any, come from them.         *)
LEMMA Lose ==
  ASSUME TypeOK, Sound, NEW h \in Holders,
         pbase' = [pbase EXCEPT ![h] = 0], npages' = [npages EXCEPT ![h] = 0],
         UNCHANGED <<firstpaddr, allocSize>>,
         freeRamFrames' \subseteq freeRamFrames \cup Held(h)
  PROVE  Bounds' /\ Sizes' /\ Disjoint' /\ FreeUnused'
<1>1. /\ pbase'[h] = 0 /\ npages'[h] = 0
      /\ \A g \in Holders : g # h => pbase'[g] = pbase[g] /\ npages'[g] = npages[g]
  BY DEF TypeOK, HolderTypeOK
<1>2. Held(h)' = {} /\ \A g \in Holders : g # h => Held(g)' = Held(g)
  BY <1>1, HeldSame DEF Held
<1>3. Bounds'
  BY <1>1 DEF Sound, Bounds
<1>4. Sizes'
  BY <1>1, HolderFacts DEF Sound, Sizes
<1>5. Disjoint'
  BY <1>2 DEF Sound, Disjoint
<1>6. FreeUnused'
  <2>1. ASSUME NEW f \in Held(h) PROVE BootFrames <= f /\ f < firstpaddr
    <3>1. pbase[h] # 0 /\ f \in Span(pbase[h], npages[h])
      BY DEF Held
    <3> QED BY <3>1, Typed, RamAssumption DEF Sound, Bounds, Span
  <2>2. ASSUME NEW f \in Held(h), NEW g \in Holders PROVE f \notin Held(g)'
    BY <1>2 DEF Sound, Disjoint
  <2>3. ASSUME NEW f \in freeRamFrames, NEW g \in Holders PROVE f \notin Held(g)'
    BY <1>2 DEF Sound, FreeUnused
  <2> QED BY <2>1, <2>2, <2>3 DEF Sound, FreeUnused
<1> QED BY <1>3, <1>4, <1>5, <1>6

(* free_kpages reads a size that is at most that of the block.             *)
LEMMA SoundFreeKpages ==
  ASSUME TypeOK, Sound, NEW t \in Threads, FreeKpages(t) PROVE Sound'
<1>1. PICK k \in KBlocks :
       /\ pbase[k] # 0
       /\ \A u \in Threads : pc[u] # "idle" => who[u] # k
       /\ \/ /\ pbase[k] \in Frames
             /\ who' = [who EXCEPT ![t] = k]
             /\ count' = [count EXCEPT ![t] = allocSize[pbase[k]]]
             /\ pc' = [pc EXCEPT ![t] = "free"]
             /\ UNCHANGED <<pbase, npages>>
          \/ /\ pbase' = [pbase EXCEPT ![k] = 0]
             /\ npages' = [npages EXCEPT ![k] = 0]
             /\ UNCHANGED <<who, count, pc>>
  BY DEF FreeKpages
<1>2. UNCHANGED <<firstpaddr, freeRamFrames, allocSize, as>>
  BY DEF FreeKpages, ramVars
<1>3. k \in Holders /\ k \notin Regions /\ npages[k] > 0 /\ allocSize[pbase[k]] <= npages[k]
  BY <1>1, HolderFacts, HolderAssumption DEF Sound, Sizes
<1>4. CASE /\ who' = [who EXCEPT ![t] = k]
           /\ count' = [count EXCEPT ![t] = allocSize[pbase[k]]]
           /\ pc' = [pc EXCEPT ![t] = "free"]
           /\ UNCHANGED <<pbase, npages>>
  <2>1. /\ pc'[t] = "free" /\ who'[t] = k /\ count'[t] = allocSize[pbase[k]]
        /\ \A u \in Threads : u # t => pc'[u] = pc[u] /\ who'[u] = who[u] /\ count'[u] = count[u]
    BY <1>4 DEF TypeOK, ThreadTypeOK
  <2>2. Bounds' /\ Sizes' /\ Disjoint' /\ FreeUnused' /\ Unborn'
    BY <1>2, <1>4, SameFrames, Zenon DEF Sound, Unborn
  <2>3. Exclusive'
    BY <1>1, <1>3, <2>1, KeepExclusive DEF Sound, Busy
  <2>4. ASSUME NEW u \in Threads PROVE Busy(u)' => Working(u)'
    <3>1. CASE u = t
      BY <1>1, <1>3, <1>4, <2>1, <3>1 DEF Working
    <3>2. CASE u # t
      BY <1>2, <1>4, <2>1, <3>2, KeepWorking, Zenon DEF Sound
    <3> QED BY <3>1, <3>2
  <2> QED BY <2>2, <2>3, <2>4 DEF Sound
<1>5. CASE /\ pbase' = [pbase EXCEPT ![k] = 0]
           /\ npages' = [npages EXCEPT ![k] = 0]
           /\ UNCHANGED <<who, count, pc>>
  <2>1. Bounds' /\ Sizes' /\ Disjoint' /\ FreeUnused'
    BY <1>2, <1>3, <1>5, Lose, Zenon
  <2>2. \A h \in Holders : h # k => pbase'[h] = pbase[h] /\ npages'[h] = npages[h]
    BY <1>5 DEF TypeOK, HolderTypeOK
  <2>3. \A a \in AddrSpaces : \A j \in 1 .. 3 : pbase'[<<a, j>>] = pbase[<<a, j>>]
    BY <1>3, <2>2, HolderFacts DEF Regions
  <2>4. Unborn' /\ Exclusive'
    BY <1>2, <1>5, <2>3, Zenon DEF Sound, Unborn, Exclusive, Busy
  <2>5. ASSUME NEW u \in Threads PROVE Busy(u)' => Working(u)'
    <3>1. Busy(u) => who[u] # k /\ who[u] \in Holders
      BY <1>1, Typed DEF Busy
    <3> QED BY <1>2, <1>5, <2>2, <2>3, <3>1, KeepWorking, NextRegion, Zenon DEF Sound
  <2> QED BY <2>1, <2>4, <2>5 DEF Sound
<1> QED BY <1>1, <1>4, <1>5

(* A load begins with an address space that holds nothing.                 *)
LEMMA SoundStartLoad ==
  ASSUME TypeOK, Sound, NEW t \in Threads, NEW a \in AddrSpaces, as[a] = "none",
         NEW c, NEW n1 \in Nat, NEW n2 \in Nat, StartLoad(t, a, c, n1, n2)
  PROVE  Sound'
<1>1. <<a, 1>> \in Regions /\ <<a, 1>>[1] = a /\ \A j \in 1 .. 3 : pbase[<<a, j>>] = 0
  <2>1. \A j \in 1 .. 3 : pbase[<<a, j>>] = 0
    BY Zenon DEF Sound, Unborn
  <2> QED BY <2>1, RegionFacts
<1>2. /\ pc'[t] = "getfree" /\ who'[t] = <<a, 1>>
      /\ \A u \in Threads : u # t => pc'[u] = pc[u] /\ who'[u] = who[u]
      /\ as'[a] = "loading" /\ \A b \in AddrSpaces : b # a => as'[b] = as[b]
      /\ UNCHANGED <<firstpaddr, freeRamFrames, allocSize, pbase, count>>
  BY DEF StartLoad, TypeOK, ThreadTypeOK, HolderTypeOK, ramVars
<1>3. \A h \in Holders : h \notin {<<a, 1>>, <<a, 2>>, <<a, 3>>} => npages'[h] = npages[h]
  BY DEF StartLoad, TypeOK, HolderTypeOK
<1>4. ASSUME NEW h \in Holders PROVE npages'[h] = npages[h] \/ pbase[h] = 0
  <2>1. pbase[<<a, 1>>] = 0 /\ pbase[<<a, 2>>] = 0 /\ pbase[<<a, 3>>] = 0
    BY <1>1
  <2> QED BY <1>3, <2>1
<1>5. \A h \in Holders : Held(h)' = Held(h)
  BY <1>2, <1>4, HeldSame, Zenon
<1>6. Bounds'
  BY <1>2, <1>4, Zenon DEF Sound, Bounds
<1>7. Sizes'
  BY <1>2, <1>4, HolderFacts, Zenon DEF Sound, Sizes
<1>8. Unborn'
  <2>1. ASSUME NEW b \in AddrSpaces, as'[b] = "none" PROVE as[b] = "none"
    BY <1>2, <2>1, Zenon
  <2> QED BY <1>2, <2>1, Zenon DEF Sound, Unborn
<1>9. Disjoint' /\ FreeUnused'
  BY <1>2, <1>5 DEF Sound, Disjoint, FreeUnused
<1>10. ASSUME NEW u \in Threads, Busy(u), who[u] \in Regions PROVE who[u][1] # a
  BY <1>10, HolderAssumption, Zenon DEF Sound, Working
<1>11. Exclusive'
  <2>1. ASSUME NEW u \in Threads, u # t, Busy(u)
        PROVE  who'[t] # who[u] /\ (who[u] \in Regions => who'[t][1] # who[u][1])
    BY <1>1, <1>2, <1>10, <2>1, Zenon
  <2> QED BY <1>2, <2>1, KeepExclusive, Zenon DEF Sound
<1>12. ASSUME NEW u \in Threads PROVE Busy(u)' => Working(u)'
  <2>1. CASE u = t
    BY <1>1, <1>2, <2>1, Zenon DEF Working
  <2>2. CASE u # t
    <3>1. Busy(u) /\ who[u] \in KBlocks => npages'[who[u]] = npages[who[u]]
      <4>1. who[u] \in KBlocks => who[u] \notin {<<a, 1>>, <<a, 2>>, <<a, 3>>}
        BY RegionFacts, HolderAssumption, Zenon
      <4> QED BY <1>3, <4>1, HolderFacts, Zenon
    <3>2. Busy(u) /\ who[u] \in Regions =>
            as'[who[u][1]] = as[who[u][1]] /\ npages'[who[u]] = npages[who[u]]
      <4> SUFFICES ASSUME Busy(u), who[u] \in Regions
                   PROVE  as'[who[u][1]] = as[who[u][1]] /\ npages'[who[u]] = npages[who[u]]
        BY Zenon
      <4>1. who[u][1] \in AddrSpaces /\ who[u][1] # a
        BY <1>10, NextRegion, Zenon
      <4>2. who[u] \notin {<<a, 1>>, <<a, 2>>, <<a, 3>>}
        BY <4>1
      <4> QED BY <1>2, <1>3, <4>1, <4>2, HolderFacts, Zenon
    <3> QED BY <1>2, <2>2, <3>1, <3>2, KeepWorking, Zenon DEF Sound
  <2> QED BY <2>1, <2>2
<1> QED BY <1>6, <1>7, <1>8, <1>9, <1>11, <1>12 DEF Sound

(* load_elf begins.                                                        *)
LEMMA SoundLoadElf ==
  ASSUME TypeOK, Sound, NEW t \in Threads, LoadElf(t) PROVE Sound'
BY SoundStartLoad, SizeAssumption, Zenon DEF LoadElf

(* as_copy begins.                                                         *)
LEMMA SoundAsCopy ==
  ASSUME TypeOK, Sound, NEW t \in Threads, AsCopy(t) PROVE Sound'
<1>1. PICK a \in AddrSpaces, old \in AddrSpaces :
        /\ as[a] = "none"
        /\ StartLoad(t, a, "as_copy", npages[<<old, 1>>], npages[<<old, 2>>])
  BY Zenon DEF AsCopy
<1>2. npages[<<old, 1>>] \in Nat /\ npages[<<old, 2>>] \in Nat
  BY Typed, RegionFacts, HolderFacts, Zenon
<1> QED BY <1>1, <1>2, SoundStartLoad, Zenon

(* The frames freeppages frees are those of the holder it was called for,  *)
(* unless it is called through an unset base.                              *)
LEMMA FreedHeld ==
  ASSUME TypeOK, Sound, NEW t \in Threads, pc[t] = "free", pbase[who[t]] # 0
  PROVE  Freed(t) \subseteq Held(who[t])
<1>1. count[t] <= npages[who[t]]
  <2>1. Working(t)
    BY DEF Sound, Busy
  <2> QED BY <2>1, WorkingCount
<1> QED BY <1>1, Typed DEF Freed, Held, Span

(* freeppages frees frames that their holder loses in the same step.       *)
LEMMA SoundFreePpages ==
  ASSUME TypeOK, Sound, NEW t \in Threads, FreePpages(t), damage' = {} PROVE Sound'
<1> DEFINE h == who[t]
<1>0. /\ Busy(t) /\ pc[t] = "free" /\ Working(t) /\ h \in Holders
  BY Typed DEF FreePpages, Busy, Sound
<1>1. /\ freeRamFrames' = freeRamFrames \cup (Freed(t) \cap Frames)
      /\ pbase' = [pbase EXCEPT ![h] = 0] /\ npages' = [npages EXCEPT ![h] = 0]
      /\ UNCHANGED <<firstpaddr, allocSize>>
  BY DEF FreePpages
<1>2. freeRamFrames' \subseteq freeRamFrames \cup Held(h)
  <2>1. CASE pbase[h] = 0
    <3>1. Freed(t) = {}
      BY <2>1, Zenon DEF FreePpages
    <3> QED BY <1>1, <3>1, Zenon
  <2>2. CASE pbase[h] # 0
    BY <1>0, <1>1, <2>2, FreedHeld
  <2> QED BY <2>1, <2>2
<1>3. Bounds' /\ Sizes' /\ Disjoint' /\ FreeUnused'
  BY <1>0, <1>1, <1>2, Lose, Zenon
<1>4. /\ pbase'[h] = 0
      /\ \A g \in Holders : g # h => pbase'[g] = pbase[g] /\ npages'[g] = npages[g]
      /\ \A g \in Holders : pbase[g] = 0 => pbase'[g] = 0
  BY <1>0, <1>1, Zenon DEF TypeOK, HolderTypeOK
<1>5. ASSUME NEW u \in Threads, u # t, pc'[u] = pc[u], who'[u] = who[u], count'[u] = count[u],
             Busy(u) /\ who[u] \in Regions => as'[who[u][1]] = as[who[u][1]]
      PROVE  Busy(u)' => Working(u)'
  <2>1. Busy(u) => who[u] \in Holders /\ who[u] # h
    BY <1>0, <1>5, Typed, Zenon DEF Sound, Exclusive
  <2>2. ASSUME Busy(u), who[u] \in Regions, NEW j \in 1 .. 3
        PROVE  pbase'[<<who[u][1], j>>] = pbase[<<who[u][1], j>>]
    <3>1. <<who[u][1], j>> \in Regions /\ <<who[u][1], j>>[1] = who[u][1]
      BY <2>2, NextRegion DEF Regions
    <3>2. <<who[u][1], j>> # h
      BY <1>0, <1>5, <2>2, <3>1 DEF Sound, Exclusive
    <3> QED BY <1>4, <3>1, <3>2, HolderFacts
  <2> QED BY <1>4, <1>5, <2>1, <2>2, KeepWorking, Zenon DEF Sound
<1>6. \A a \in AddrSpaces : \A j \in 1 .. 3 : pbase[<<a, j>>] = 0 => pbase'[<<a, j>>] = 0
  BY <1>4, HolderFacts DEF Regions
<1> HIDE DEF h
<1>7. CASE h \in KBlocks /\ Return(t) /\ UNCHANGED as
  <2>1. /\ pc'[t] = "idle"
        /\ \A u \in Threads : u # t => pc'[u] = pc[u] /\ who'[u] = who[u] /\ count'[u] = count[u]
    BY <1>7 DEF Return, TypeOK, ThreadTypeOK
  <2>2. Unborn' /\ Exclusive'
    BY <1>6, <1>7, <2>1, KeepExclusive, Zenon DEF Sound, Busy, Unborn
  <2>3. \A u \in Threads : Busy(u)' => Working(u)'
    BY <1>5, <1>7, <2>1 DEF Busy
  <2> QED BY <1>3, <2>2, <2>3 DEF Sound
<1>8. CASE /\ h \in Regions /\ h[2] < 3
           /\ who' = [who EXCEPT ![t] = <<h[1], h[2] + 1>>]
           /\ count' = [count EXCEPT ![t] = npages[<<h[1], h[2] + 1>>]]
           /\ UNCHANGED <<pc, caller, as>>
  <2> DEFINE next == <<h[1], h[2] + 1>>
  <2>1. /\ next \in Regions /\ next[1] = h[1] /\ next[2] = h[2] + 1
        /\ h[2] \in 1 .. 3 /\ h = <<h[1], h[2]>> /\ h[1] \in AddrSpaces
    BY <1>8, NextRegion
  <2>2. /\ who'[t] = next /\ count'[t] = npages[next] /\ pc'[t] = "free"
        /\ \A u \in Threads : u # t => pc'[u] = pc[u] /\ who'[u] = who[u] /\ count'[u] = count[u]
    BY <1>0, <1>8 DEF TypeOK, ThreadTypeOK
  <2>3. next # h
    BY <2>1
  <2> HIDE DEF next
  <2>4. Unborn'
    BY <1>6, <1>8, Zenon DEF Sound, Unborn
  <2>5. Exclusive'
    <3>1. ASSUME NEW u \in Threads, u # t, Busy(u)
          PROVE  who'[t] # who[u] /\ (who[u] \in Regions => who'[t][1] # who[u][1])
      <4>1. h # who[u] /\ (who[u] \in Regions => h[1] # who[u][1])
        BY <1>0, <1>8, <3>1 DEF Sound, Exclusive, h
      <4> QED BY <2>1, <2>2, <4>1
    <3> QED BY <2>2, <3>1, KeepExclusive DEF Sound
  <2>6. Working(t)'
    <3>1. as[h[1]] = "dying" /\ \A j \in 1 .. 3 : j < h[2] => pbase[<<h[1], j>>] = 0
      BY <1>0, <1>8, HolderAssumption, Zenon DEF Working, h
    <3>2. ASSUME NEW j \in 1 .. 3, j < h[2] + 1 PROVE pbase'[<<h[1], j>>] = 0
      <4>1. CASE j = h[2]
        BY <1>4, <2>1, <4>1
      <4>2. CASE j < h[2]
        BY <1>6, <2>1, <3>1, <4>2
      <4>3. j = h[2] \/ j < h[2]
        BY <2>1, <3>2
      <4> QED BY <4>1, <4>2, <4>3
    <3>3. npages'[next] = npages[next]
      BY <1>4, <2>1, <2>3, HolderFacts
    <3>4. as'[who'[t][1]] = "dying" /\ count'[t] = npages'[who'[t]] /\ who'[t] \in Regions
      BY <1>8, <2>1, <2>2, <3>1, <3>3, Zenon
    <3>5. \A j \in 1 .. 3 : j < who'[t][2] => pbase'[<<who'[t][1], j>>] = 0
      BY <2>1, <2>2, <3>2
    <3> QED BY <2>2, <3>4, <3>5 DEF Working
  <2>7. \A u \in Threads : Busy(u)' => Working(u)'
    BY <1>5, <1>8, <2>2, <2>6
  <2> QED BY <1>3, <2>4, <2>5, <2>7 DEF Sound
<1>9. CASE /\ h \in Regions /\ h[2] = 3
           /\ as' = [as EXCEPT ![h[1]] = "none"]
           /\ Return(t)
  <2>1. h[1] \in AddrSpaces /\ h = <<h[1], 3>>
    BY <1>9, NextRegion, Zenon
  <2>2. /\ pc'[t] = "idle"
        /\ \A u \in Threads : u # t => pc'[u] = pc[u] /\ who'[u] = who[u] /\ count'[u] = count[u]
        /\ \A b \in AddrSpaces : b # h[1] => as'[b] = as[b]
    BY <1>9, <2>1 DEF Return, TypeOK, ThreadTypeOK, HolderTypeOK
  <2>3. Unborn'
    <3>1. \A j \in 1 .. 3 : j < 3 => pbase[<<h[1], j>>] = 0
      BY <1>0, <1>9, HolderAssumption, Zenon DEF Working, h
    <3>2. \A j \in 1 .. 3 : pbase'[<<h[1], j>>] = 0
      BY <1>4, <1>6, <2>1, <3>1
    <3> QED BY <1>6, <2>2, <3>2, Zenon DEF Sound, Unborn
  <2>4. Exclusive'
    BY <2>2, KeepExclusive DEF Sound, Busy
  <2>5. ASSUME NEW u \in Threads PROVE Busy(u)' => Working(u)'
    <3>1. CASE u = t
      BY <2>2, <3>1 DEF Busy
    <3>2. CASE u # t
      <4>1. Busy(u) /\ who[u] \in Regions => as'[who[u][1]] = as[who[u][1]]
        BY <1>0, <1>9, <2>2, <3>2, NextRegion, Zenon DEF Sound, Exclusive, h
      <4> QED BY <1>5, <2>2, <3>2, <4>1, Zenon
    <3> QED BY <3>1, <3>2
  <2> QED BY <1>3, <2>3, <2>4, <2>5 DEF Sound
<1> QED BY <1>7, <1>8, <1>9, Zenon DEF FreePpages, h

-----------------------------------------------------------------------------
(* The safety theorems.                                                    *)

(* Every step keeps the invariant.                                         *)
LEMMA IInvStep == TypeOK /\ IInv /\ [Next]_vars => IInv'
<1> SUFFICES ASSUME TypeOK, IInv, [Next]_vars, damage' = {} PROVE Sound'
  BY DEF IInv
<1>1. CASE UNCHANGED vars
  <2>1. Sound
    BY <1>1 DEF vars, IInv
  <2>2. Bounds' /\ Sizes' /\ Disjoint' /\ FreeUnused'
    BY <1>1, <2>1, SameFrames DEF vars
  <2>3. Unborn' /\ Exclusive'
    BY <1>1, <2>1, Zenon DEF vars, Sound, Unborn, Exclusive, Busy
  <2>4. \A t \in Threads : Busy(t)' => Working(t)'
    BY <1>1, <2>1, Zenon DEF vars, Sound, Busy, Working
  <2> QED BY <2>2, <2>3, <2>4 DEF Sound
<1>2. ASSUME VmBootstrap PROVE Sound'
  BY <1>2, SoundVmBootstrap DEF IInv, VmBootstrap
<1>3. ASSUME NEW t \in Threads, GetFreePages(t) PROVE Sound'
  BY <1>3, SoundGetFree, Zenon DEF IInv, GetFreePages
<1>4. ASSUME NEW t \in Threads, StealMem(t) PROVE Sound'
  BY <1>4, SoundSteal, Zenon DEF IInv, StealMem
<1>5. ASSUME NEW t \in Threads, RecordSize(t) PROVE Sound'
  <2>1. damage = {}
    BY <1>5, Zenon DEF RecordSize
  <2> QED BY <1>5, <2>1, SoundRecordSize, Zenon DEF IInv
<1>6. ASSUME NEW t \in Threads, AllocKpages(t) PROVE Sound'
  BY <1>6, SoundAllocKpages, Zenon DEF IInv, AllocKpages
<1>7. ASSUME NEW t \in Threads, FreeKpages(t) PROVE Sound'
  BY <1>7, SoundFreeKpages DEF IInv, FreeKpages
<1>8. ASSUME NEW t \in Threads, LoadElf(t) PROVE Sound'
  BY <1>8, SoundLoadElf, Zenon DEF IInv, LoadElf, StartLoad
<1>9. ASSUME NEW t \in Threads, AsCopy(t) PROVE Sound'
  BY <1>9, SoundAsCopy, Zenon DEF IInv, AsCopy, StartLoad
<1>10. ASSUME NEW t \in Threads, RejectElf(t) PROVE Sound'
  BY <1>10, SoundRejectElf DEF IInv, RejectElf
<1>11. ASSUME NEW t \in Threads, AsDestroy(t) PROVE Sound'
  BY <1>11, SoundAsDestroy, Zenon DEF IInv, AsDestroy
<1>12. ASSUME NEW t \in Threads, FreePpages(t) PROVE Sound'
  <2>1. damage = {}
    BY <1>12 DEF FreePpages
  <2> QED BY <1>12, <2>1, SoundFreePpages DEF IInv
<1> QED BY <1>1, <1>2, <1>3, <1>4, <1>5, <1>6, <1>7, <1>8, <1>9, <1>10, <1>11, <1>12
        DEF Next, Step

(* The invariant of the allocator holds in every reachable state, for any  *)
(* amount of memory, any region sizes and any number of threads.           *)
THEOREM InductiveInvariant == Spec => []IInv
<1>1. Init => IInv
  BY SoundInit DEF IInv
<1> QED BY <1>1, IInvStep, TypeCorrect, PTL DEF Spec

(* Whatever the interleaving of getppages and freeppages, no frame has two *)
(* holders (until an unset base is freed or a table is overrun).           *)
THEOREM Frames_Disjoint == Spec => []FramesDisjoint
<1>1. IInv => FramesDisjoint
  BY DEF IInv, Sound, FramesDisjoint
<1> QED BY <1>1, InductiveInvariant, PTL

(* What getfreeppages may return next is RAM that nobody uses.             *)
THEOREM Free_Frames_Unused == Spec => []FreeFramesUnused
<1>1. IInv => FreeFramesUnused
  BY DEF IInv, Sound, FreeFramesUnused
<1> QED BY <1>1, InductiveInvariant, PTL

(* freeppages never frees more pages than the block or region has, though  *)
(* free_kpages reads allocSize without the lock.                           *)
THEOREM Frees_No_More_Than_Held == Spec => []FreesNoMoreThanHeld
<1>1. TypeOK /\ IInv => FreesNoMoreThanHeld
  <2> SUFFICES ASSUME TypeOK, Sound, NEW t \in Threads, pc[t] = "free"
               PROVE  Span(pbase[who[t]], count[t]) \subseteq
                        Span(pbase[who[t]], npages[who[t]])
    BY DEF IInv, FreesNoMoreThanHeld
  <2>1. Working(t)
    BY DEF Sound, Busy
  <2>2. count[t] <= npages[who[t]]
    BY <2>1, WorkingCount
  <2> QED BY <2>2, Typed DEF Span
<1> QED BY <1>1, InductiveInvariant, TypeCorrect, PTL
=============================================================================
