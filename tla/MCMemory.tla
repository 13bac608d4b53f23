------------------------------ MODULE MCMemory ------------------------------
(***************************************************************************)
(* Instances of Dumbvm and Kmalloc.  A behaviour is one of:                *)
(*   frames  one address space, whose regions may be empty, and one heap   *)
(*           block of several pages at a time;                             *)
(*   spaces  an address space without an empty region, and two blocks of   *)
(*           one page or two, so that what one gives back is cut           *)
(*           differently for the next (memory runs out under a second      *)
(*           address space);                                               *)
(*   pair    two address spaces in memory at a time;                       *)
(*   heap    the threads of the kernel heap test.                          *)
(* What the others use keeps its initial value.                            *)
(***************************************************************************)
EXTENDS Dumbvm, FiniteSets, TLC

VARIABLES which, kpages, kheaproots, pageref, sizebases, allbase, kpc, ptrs, frame, panicked

heapVars == <<kpages, kheaproots, pageref, sizebases, allbase, kpc, ptrs, frame, panicked>>
mcVars == <<vars, heapVars, which>>

S == INSTANCE Dumbvm WITH RegionPages <- {1}, SizeTablePages <- 0
P == INSTANCE Dumbvm WITH nRamFrames <- 7, RegionPages <- {1}, KernelPages <- {},
                            SizeTablePages <- 0
K == INSTANCE Kmalloc WITH NumPages <- 3, PAGE_SIZE <- 12, sizes <- <<4, 6>>,
       NUM_PAGEREFPAGES <- 2, NPAGEREFS_PER_PAGE <- 2, Requests <- {5, 12, 13}, pc <- kpc

MCInit ==
  /\ \/ which \in {"frames", "spaces", "heap"} /\ Init
     \/ which = "pair" /\ P!Init
  /\ K!Init

Spare == CHOOSE a \in AddrSpaces : TRUE
OneSpace == as'[Spare] = "none"
OneBlock == Cardinality({b \in KBlocks : npages'[b] > 0}) <= 1

MCNext ==
  /\ \/ which = "frames" /\ Next /\ OneSpace /\ OneBlock /\ UNCHANGED heapVars
     \/ which = "spaces" /\ S!Next /\ UNCHANGED heapVars
     \/ which = "pair" /\ P!Next /\ UNCHANGED heapVars
     \/ which = "heap" /\ K!Next /\ UNCHANGED vars
  /\ UNCHANGED which

MCSpec == MCInit /\ [][MCNext]_mcVars

(* The properties claim nothing of the states after the first damage.       *)
Undamaged == damage = {}

MCSymmetry == Permutations(Threads) \cup Permutations(KBlocks)

(* No frame is lost: when no region is empty, every frame handed out since  *)
(* vm_bootstrap is held or free again.                                      *)
SpacesLoseNoFrame == which \in {"spaces", "pair"} => NoFrameLost

(* Whenever kmalloc_spinlock is free the heap passes checksubpages; no two  *)
(* blocks that kmalloc has given out overlap; a pageref describes one page, *)
(* and one thread prepares it; and when the threads of the test are done,   *)
(* every page but those of pagerefs is given back.                          *)
HeapSound ==
  which = "heap" => /\ K!HeapConsistent /\ K!BlocksDisjoint
                    /\ K!PagerefsExclusive /\ K!AllReturned
=============================================================================
