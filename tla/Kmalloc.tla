------------------------------ MODULE Kmalloc ------------------------------
(***************************************************************************)
(* The kernel heap (kern/vm/kmalloc.c) under the threads of the km2 test   *)
(* (kern/test/kmalloctest.c).  A page is carved into blocks of one size;   *)
(* a pageref describes it; pagerefs live on pages of their own, one per    *)
(* root.  Everything happens under kmalloc_spinlock except the calls of    *)
(* alloc_kpages and free_kpages, for which the lock is dropped: an action  *)
(* below is one critical section or one such call.                         *)
(***************************************************************************)
EXTENDS Integers, FiniteSets, Sequences, SequencesExt, FiniteSetsExt

CONSTANTS
    Threads,             \* the threads of kmallocstress
    NumPages,            \* pages alloc_kpages has to give, numbered from 1
    PAGE_SIZE,           \* bytes of a page
    sizes,               \* block sizes, increasing; each divides PAGE_SIZE
    NUM_PAGEREFPAGES,    \* roots
    NPAGEREFS_PER_PAGE,  \* pagerefs on the page of a root
    Requests             \* sizes the threads ask for

VARIABLES
    kpages,      \* pages alloc_kpages gave out: first page -> how many
    kheaproots,  \* per root: its page (0: none) and the pagerefs in use
    pageref,     \* pagerefs on the lists: page, block type, free list, nfree
    sizebases,   \* per block type, the list of its pagerefs
    allbase,     \* the list of all pagerefs
    pc, ptrs,    \* per thread: where it is, and the blocks it holds, oldest first
    frame,       \* per thread: locals of the kmalloc or kfree in progress
    panicked     \* a KASSERT of kmalloc.c failed

heap == <<kheaproots, pageref, sizebases, allbase>>
vars == <<kpages, heap, pc, ptrs, frame, panicked>>

LARGEST_SUBPAGE_SIZE == sizes[Len(sizes)]
Types == 1..Len(sizes)
Pages == 1..NumPages
Roots == 1..NUM_PAGEREFPAGES
Refs == Roots \X (1..NPAGEREFS_PER_PAGE)
NoRef == <<0, 0>>
Idle == [sz |-> 0, page |-> 0, ref |-> NoRef, va |-> 0]
NumBlocks(type) == PAGE_SIZE \div sizes[type]
PageOf(ptr) == ptr \div PAGE_SIZE

Init ==
    /\ kpages = << >>
    /\ kheaproots = [r \in Roots |-> [page |-> 0, inuse |-> {}]]
    /\ pageref = << >>
    /\ sizebases = [i \in Types |-> << >>] /\ allbase = << >>
    /\ pc = [t \in Threads |-> "exited"]
    /\ ptrs = [t \in Threads |-> << >>]
    /\ frame = [t \in Threads |-> Idle]
    /\ panicked = FALSE

-----------------------------------------------------------------------------
(* alloc_kpages and free_kpages of dumbvm.c: the first run of n free pages *)
(* or 0.                                                                   *)
Taken == UNION {p..(p + kpages[p] - 1) : p \in DOMAIN kpages}
Runs(n) == {p \in Pages : p + n - 1 \in Pages /\ p..(p + n - 1) \cap Taken = {}}
alloc_kpages(n) == IF Runs(n) = {} THEN 0 ELSE Min(Runs(n))
Given(p, n) == [q \in DOMAIN kpages \cup {p} |-> IF q = p THEN n ELSE kpages[q]]
free_kpages(p) == [q \in DOMAIN kpages \ {p} |-> kpages[q]]

-----------------------------------------------------------------------------
(* Mutant: a request one byte too large gets the block.                    *)
blocktypeOffByOne(sz) == Min({i \in Types : sz <= sizes[i] + 1})
blocktype(sz) == Min({i \in Types : sz <= sizes[i]})

(* kmalloc returns ptr to kmallocthread, which keeps it, or NULL (0),      *)
(* after which the thread gives everything back.                           *)
Return(t, ptr) ==
    /\ ptrs' = IF ptr = 0 THEN ptrs ELSE [ptrs EXCEPT ![t] = Append(@, ptr)]
    /\ pc' = [pc EXCEPT ![t] = IF ptr = 0 THEN "done" ELSE "shift"]
    /\ frame' = [frame EXCEPT ![t] = Idle]

(* doalloc: take the head of the free list of pr; refs: the pagerefs.      *)
DoAlloc(t, refs, pr) ==
    /\ pageref' = [refs EXCEPT ![pr].free = Tail(@), ![pr].nfree = @ - 1]
    /\ Return(t, refs[pr].page * PAGE_SIZE + Head(refs[pr].free))

(* Mutant: the blocks of a fresh page are not counted.                     *)
FreshUncounted(page, type) ==
    [page |-> page, type |-> type, nfree |-> 0,
     free |-> [i \in 1..NumBlocks(type) |-> (NumBlocks(type) - i) * sizes[type]]]
(* subpage_kmalloc with a pageref for the fresh page: all blocks free, the *)
(* last one first; onto both lists; doalloc.                               *)
Fresh(page, type) ==
    [page |-> page, type |-> type, nfree |-> NumBlocks(type),
     free |-> [i \in 1..NumBlocks(type) |-> (NumBlocks(type) - i) * sizes[type]]]

SetUpPage(t, pr) ==
    LET type == blocktype(frame[t].sz) IN
    /\ sizebases' = [sizebases EXCEPT ![type] = <<pr>> \o @]
    /\ allbase' = <<pr>> \o allbase
    /\ DoAlloc(t, [q \in DOMAIN pageref \cup {pr} |->
                     IF q = pr THEN Fresh(frame[t].page, type) ELSE pageref[q]], pr)

(* kmalloc: a large request is a run of pages.  A small one takes a block  *)
(* of the first page of its size with one free, or goes for a new page.    *)
kmalloc(t, sz) ==
    /\ pc[t] = "loop"
    /\ IF sz >= LARGEST_SUBPAGE_SIZE
       THEN LET n == (sz + PAGE_SIZE - 1) \div PAGE_SIZE
                p == alloc_kpages(n) IN
            /\ kpages' = IF p = 0 THEN kpages ELSE Given(p, n)
            /\ Return(t, p * PAGE_SIZE)
            /\ UNCHANGED heap
       ELSE LET list == sizebases[blocktype(sz)]
                usable == {i \in 1..Len(list) : pageref[list[i]].nfree > 0} IN
            /\ IF usable # {}
               THEN DoAlloc(t, pageref, list[Min(usable)])
               ELSE /\ pc' = [pc EXCEPT ![t] = "newpage"]
                    /\ frame' = [frame EXCEPT ![t].sz = sz]
                    /\ UNCHANGED <<pageref, ptrs>>
            /\ UNCHANGED <<kpages, kheaproots, sizebases, allbase>>
    /\ UNCHANGED panicked

subpage_getpage(t) ==
    LET p == alloc_kpages(1) IN
    /\ pc[t] = "newpage"
    /\ IF p = 0
       THEN Return(t, 0) /\ UNCHANGED kpages
       ELSE /\ kpages' = Given(p, 1)
            /\ frame' = [frame EXCEPT ![t].page = p]
            /\ pc' = [pc EXCEPT ![t] = "pageref"]
            /\ UNCHANGED ptrs
    /\ UNCHANGED <<heap, panicked>>

(* allocpageref: the first pageref not in use, of the first root that has  *)
(* one; without a page for that root, go and get one, unlocked.            *)
FreeRefs == {pr \in Refs : pr[2] \notin kheaproots[pr[1]].inuse}
FirstRef == CHOOSE pr \in FreeRefs : \A q \in FreeRefs :
                pr[1] < q[1] \/ (pr[1] = q[1] /\ pr[2] <= q[2])

(* Mutant: the pageref is only claimed once its page is there.             *)
ClaimLate(pr) ==
    IF kheaproots[pr[1]].page = 0 THEN kheaproots
    ELSE [kheaproots EXCEPT ![pr[1]].inuse = @ \cup {pr[2]}]
Claim(pr) == [kheaproots EXCEPT ![pr[1]].inuse = @ \cup {pr[2]}]

allocpageref(t) ==
    /\ pc[t] = "pageref"
    /\ IF FreeRefs = {}
       THEN /\ pc' = [pc EXCEPT ![t] = "giveback"]
            /\ UNCHANGED <<heap, ptrs, frame>>
       ELSE LET pr == FirstRef IN
            /\ kheaproots' = Claim(pr)
            /\ IF kheaproots[pr[1]].page # 0
               THEN SetUpPage(t, pr)
               ELSE /\ frame' = [frame EXCEPT ![t].ref = pr]
                    /\ pc' = [pc EXCEPT ![t] = "refpage"]
                    /\ UNCHANGED <<pageref, sizebases, allbase, ptrs>>
    /\ UNCHANGED <<kpages, panicked>>

allocpagerefpage(t) ==
    LET va == alloc_kpages(1) IN
    /\ pc[t] = "refpage"
    /\ kpages' = IF va = 0 THEN kpages ELSE Given(va, 1)
    /\ frame' = [frame EXCEPT ![t].va = va]
    /\ pc' = [pc EXCEPT ![t] = "refset"]
    /\ UNCHANGED <<heap, ptrs, panicked>>

(* Mutant: the page is installed although another thread installed one.    *)
InstallAlways(t, r) == frame[t].va # 0
Install(t, r) == frame[t].va # 0 /\ kheaproots[r].page = 0

(* Locked again: install the page, or find that another thread has done so *)
(* and give ours back.  Without any page allocpageref returns NULL, and    *)
(* the pageref stays marked in use.                                        *)
AllocpagerefpageLocked(t) ==
    LET pr == frame[t].ref IN
    /\ pc[t] = "refset"
    /\ \/ /\ Install(t, pr[1])
          /\ kheaproots' = [kheaproots EXCEPT ![pr[1]].page = frame[t].va]
          /\ SetUpPage(t, pr)
       \/ /\ ~Install(t, pr[1]) /\ frame[t].va # 0
          /\ pc' = [pc EXCEPT ![t] = "oops"]
          /\ UNCHANGED <<heap, ptrs, frame>>
       \/ /\ frame[t].va = 0 /\ kheaproots[pr[1]].page # 0
          /\ SetUpPage(t, pr)
          /\ UNCHANGED kheaproots
       \/ /\ frame[t].va = 0 /\ kheaproots[pr[1]].page = 0
          /\ pc' = [pc EXCEPT ![t] = "giveback"]
          /\ UNCHANGED <<heap, ptrs, frame>>
    /\ UNCHANGED <<kpages, panicked>>

(* "Somebody else allocated it": free ours, unlocked; lock and go on.      *)
Oops(t) ==
    /\ pc[t] = "oops"
    /\ kpages' = free_kpages(frame[t].va)
    /\ pc' = [pc EXCEPT ![t] = "oopslocked"]
    /\ UNCHANGED <<heap, ptrs, frame, panicked>>

OopsLocked(t) ==
    /\ pc[t] = "oopslocked"
    /\ SetUpPage(t, frame[t].ref)
    /\ UNCHANGED <<kpages, kheaproots, panicked>>

(* No pageref: free the page meant for blocks and return NULL.             *)
Giveback(t) ==
    /\ pc[t] = "giveback"
    /\ kpages' = free_kpages(frame[t].page)
    /\ Return(t, 0)
    /\ UNCHANGED <<heap, panicked>>

-----------------------------------------------------------------------------
(* freepageref looks for the root whose page holds pr and asserts, of each *)
(* root without a page on the way, that none of its pagerefs is in use.    *)
FreepagerefAsserts(pr) ==
    \A r \in 1..(pr[1] - 1) : kheaproots[r].page = 0 => kheaproots[r].inuse = {}

(* Mutant: the page leaves the list of its size only.                      *)
RemovedFromSize(pr) == allbase
RemovedFromAll(pr) == SelectSeq(allbase, LAMBDA q : q # pr)

(* Mutant: the page is given back with one block still in use.             *)
EmptiesEarly(pr) == pageref[pr].nfree + 2 = NumBlocks(pageref[pr].type)
Empties(pr) == pageref[pr].nfree + 1 = NumBlocks(pageref[pr].type)

(* subpage_kfree with the lock held, for a block of pr; rest: where the    *)
(* caller goes on.  The last block of a page takes the page off both lists *)
(* and frees its pageref; the page itself is freed unlocked.               *)
subpage_kfree(t, pr, ptr, rest) ==
    LET type == pageref[pr].type
        offset == ptr - pageref[pr].page * PAGE_SIZE
        ok == /\ offset % sizes[type] = 0
              /\ pageref[pr].free = << >> \/ Head(pageref[pr].free) # offset
              /\ pageref[pr].nfree < NumBlocks(type)
        empty == Empties(pr) IN
    IF ~ok \/ (empty /\ ~FreepagerefAsserts(pr))
    THEN /\ panicked' = TRUE
         /\ UNCHANGED <<heap, pc, frame>>
    ELSE /\ panicked' = panicked
         /\ IF empty
            THEN /\ pageref' = [q \in DOMAIN pageref \ {pr} |-> pageref[q]]
                 /\ sizebases' = [sizebases EXCEPT ![type] =
                                    SelectSeq(@, LAMBDA q : q # pr)]
                 /\ allbase' = RemovedFromAll(pr)
                 /\ kheaproots' = [kheaproots EXCEPT ![pr[1]].inuse = @ \ {pr[2]}]
                 /\ frame' = [frame EXCEPT ![t].page = pageref[pr].page]
                 /\ pc' = [pc EXCEPT ![t] = IF rest = "loop" THEN "freepage"
                                            ELSE "lastpage"]
            ELSE /\ pageref' = [pageref EXCEPT ![pr].free = <<offset>> \o @,
                                               ![pr].nfree = @ + 1]
                 /\ pc' = [pc EXCEPT ![t] = rest]
                 /\ UNCHANGED <<kheaproots, sizebases, allbase, frame>>

(* kfree of the oldest block of t: the page on the list that holds it, or  *)
(* else a run of pages.                                                    *)
Holding(ptr) == {i \in 1..Len(allbase) : pageref[allbase[i]].page = PageOf(ptr)}

kfree(t, rest) ==
    LET ptr == Head(ptrs[t]) IN
    /\ IF Holding(ptr) # {}
       THEN /\ subpage_kfree(t, allbase[Min(Holding(ptr))], ptr, rest)
            /\ UNCHANGED kpages
       ELSE /\ IF ptr % PAGE_SIZE = 0
               THEN /\ kpages' = free_kpages(PageOf(ptr))
                    /\ panicked' = panicked
               ELSE panicked' = TRUE /\ UNCHANGED kpages
            /\ pc' = [pc EXCEPT ![t] = rest]
            /\ UNCHANGED <<heap, frame>>
    /\ ptrs' = [ptrs EXCEPT ![t] = Tail(@)]

FreePage(t) ==
    /\ pc[t] \in {"freepage", "lastpage"}
    /\ kpages' = free_kpages(frame[t].page)
    /\ frame' = [frame EXCEPT ![t] = Idle]
    /\ pc' = [pc EXCEPT ![t] = IF @ = "freepage" THEN "loop" ELSE "done"]
    /\ UNCHANGED <<heap, ptrs, panicked>>

-----------------------------------------------------------------------------
(* kmallocthread keeps two blocks and, holding a third, frees the oldest;  *)
(* after its last try (any one: NTRIES is left open) or a NULL it frees    *)
(* what it has.                                                            *)
Shift(t) ==
    /\ pc[t] = "shift"
    /\ \/ /\ Len(ptrs[t]) = 3
          /\ kfree(t, "loop")
       \/ /\ Len(ptrs[t]) < 3
          /\ pc' = [pc EXCEPT ![t] = "loop"]
          /\ UNCHANGED <<kpages, heap, ptrs, frame, panicked>>

LastTry(t) ==
    /\ pc[t] = "loop"
    /\ pc' = [pc EXCEPT ![t] = "done"]
    /\ UNCHANGED <<kpages, heap, ptrs, frame, panicked>>

Done(t) ==
    /\ pc[t] = "done"
    /\ \/ /\ ptrs[t] # << >>
          /\ kfree(t, "done")
       \/ /\ ptrs[t] = << >>
          /\ pc' = [pc EXCEPT ![t] = "exited"]
          /\ UNCHANGED <<kpages, heap, ptrs, frame, panicked>>

(* kmallocstress: the command can be given again once every thread of the  *)
(* last one has done its V.                                                *)
kmallocstress ==
    /\ \A t \in Threads : pc[t] = "exited"
    /\ pc' = [t \in Threads |-> "loop"]
    /\ UNCHANGED <<kpages, heap, ptrs, frame, panicked>>

kmallocthread(t) ==
    \/ \E sz \in Requests : kmalloc(t, sz)
    \/ subpage_getpage(t) \/ allocpageref(t) \/ allocpagerefpage(t)
    \/ AllocpagerefpageLocked(t) \/ Oops(t) \/ OopsLocked(t) \/ Giveback(t)
    \/ Shift(t) \/ LastTry(t) \/ Done(t) \/ FreePage(t)

Next == ~panicked /\ (kmallocstress \/ \E t \in Threads : kmallocthread(t))

Spec == Init /\ [][Next]_vars

-----------------------------------------------------------------------------
TypeOK ==
    /\ DOMAIN kpages \subseteq Pages
    /\ \A r \in Roots : /\ kheaproots[r].page \in 0..NumPages
                        /\ kheaproots[r].inuse \subseteq 1..NPAGEREFS_PER_PAGE
    /\ DOMAIN pageref \subseteq Refs
    /\ \A pr \in DOMAIN pageref :
         /\ pageref[pr].page \in Pages /\ pageref[pr].type \in Types
         /\ pageref[pr].nfree \in 0..PAGE_SIZE
    /\ \A t \in Threads : Len(ptrs[t]) <= 3
    /\ panicked \in BOOLEAN

(* checksubpage and checksubpages, the debugging checks of kmalloc.c: the  *)
(* free list of a page holds whole blocks, none twice, nfree of them, and  *)
(* each page is on the list of its size and on the list of all.            *)
checksubpage(pr) ==
    LET ref == pageref[pr] IN
    /\ pr \in DOMAIN pageref
    /\ ref.nfree = Len(ref.free)
    /\ IsInjective(ref.free)
    /\ \A i \in 1..Len(ref.free) : /\ ref.free[i] \in 0..(PAGE_SIZE - 1)
                                   /\ ref.free[i] % sizes[ref.type] = 0
checksubpages ==
    /\ \A i \in Types : \A j \in 1..Len(sizebases[i]) :
         checksubpage(sizebases[i][j]) /\ pageref[sizebases[i][j]].type = i
    /\ \A j \in 1..Len(allbase) : checksubpage(allbase[j])
    /\ FoldLeft(LAMBDA n, list : n + Len(list), 0, sizebases) = Len(allbase)

(* The heap always passes its own consistency checks when the lock is      *)
(* free, whatever the threads did while it was dropped.                    *)
HeapConsistent == checksubpages

(* The bytes of a live block: of its page, or of its run of pages.         *)
Held == {<<t, i>> \in Threads \X (1..3) : i \in DOMAIN ptrs[t]}
Ptr(h) == ptrs[h[1]][h[2]]
Bytes(ptr) ==
    IF Holding(ptr) # {}
    THEN ptr..(ptr + sizes[pageref[allbase[Min(Holding(ptr))]].type] - 1)
    ELSE IF PageOf(ptr) \in DOMAIN kpages
         THEN ptr..(ptr + kpages[PageOf(ptr)] * PAGE_SIZE - 1)
         ELSE {ptr}

(* No two blocks given out by kmalloc share a byte, none lies on a free    *)
(* list, on a page the heap has given back, or on a page of pagerefs.      *)
BlocksDisjoint ==
    /\ \A g, h \in Held : g # h => Bytes(Ptr(g)) \cap Bytes(Ptr(h)) = {}
    /\ \A h \in Held : \A b \in Bytes(Ptr(h)) :
         /\ PageOf(b) \in Taken
         /\ \A r \in Roots : kheaproots[r].page # PageOf(b)
         /\ \A pr \in DOMAIN pageref : pageref[pr].page = PageOf(b) =>
              b - PageOf(b) * PAGE_SIZE \notin {pageref[pr].free[i] :
                                                i \in 1..Len(pageref[pr].free)}

(* A block is large enough for the request it answers.                     *)
LargeEnough ==
    \A t \in Threads : \A sz \in Requests :
      (kmalloc(t, sz) /\ Len(ptrs'[t]) > Len(ptrs[t])) =>
         LET ptr == ptrs'[t][Len(ptrs'[t])]
             own == {pr \in DOMAIN pageref' : pageref'[pr].page = PageOf(ptr)} IN
         sz <= IF own = {} THEN kpages'[PageOf(ptr)] * PAGE_SIZE
               ELSE sizes[pageref'[CHOOSE pr \in own : TRUE].type]
BigEnough == [][LargeEnough]_vars

(* A pageref describes one page: the pagerefs on the lists are marked in   *)
(* use, on a root that has its page, and no two threads or pages share one *)
(* although the lock is dropped between claiming it and using it.          *)
PagerefsExclusive ==
    LET claimed == {t \in Threads : frame[t].ref # NoRef /\ pc[t] # "giveback"} IN
    /\ \A pr \in DOMAIN pageref : pr[2] \in kheaproots[pr[1]].inuse
                                  /\ kheaproots[pr[1]].page # 0
    /\ \A t \in claimed : frame[t].ref \notin DOMAIN pageref
    /\ \A t, u \in claimed : t # u => frame[t].ref # frame[u].ref
    /\ Cardinality({pageref[pr].page : pr \in DOMAIN pageref}) = Len(allbase)

(* Once the threads have given everything back the only pages the heap     *)
(* keeps are those of its pagerefs, and no block page is left.             *)
AllReturned ==
    (\A t \in Threads : pc[t] = "exited") =>
        /\ allbase = << >>
        /\ DOMAIN kpages = {kheaproots[r].page : r \in Roots} \ {0}

(* "KASSERT(root->numinuse == 0)" of freepageref and the other assertions  *)
(* of kfree hold.                                                          *)
NeverPanics == ~panicked
=============================================================================
