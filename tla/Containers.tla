----------------------------- MODULE Containers -----------------------------
(***************************************************************************)
(* The kernel's containers: the resizable array (kern/lib/array.c,         *)
(* kern/include/array.h), the bitmap (kern/lib/bitmap.c) and the doubly    *)
(* linked thread list (kern/thread/threadlist.c), each as the memory it    *)
(* keeps, used by a client that makes any legal call and by the kernel's   *)
(* own tests (arraytest, bitmaptest, threadlisttest).  The ghost variables *)
(* hold what each container is supposed to stand for: a sequence, a set of *)
(* numbers, and a sequence of threads for each list.                       *)
(***************************************************************************)
EXTENDS Integers, Sequences, FiniteSets, SequencesExt

CONSTANTS Client,        \* who uses the containers
          Val,           \* what the client stores in the array (positive)
          MaxNum,        \* sizes the client asks for
          BITS_PER_WORD, \* CHAR_BIT
          NBits,         \* sizes of bitmaps
          Thread,        \* 1 .. NUMNAMES
          List,          \* thread lists
          TESTSIZE       \* of arraytest

Junk == -1    \* what an uninitialized cell of a fresh block holds
NULL == 0

VARIABLES client, pc,
          arr, seq,     \* the array; what it stands for
          bm, marked,   \* the bitmap; what it stands for
          tl, order,    \* the thread lists; what they stand for
          data,         \* what a test remembers
          failed        \* an assertion failed

vars == <<client, pc, arr, seq, bm, marked, tl, order, data, failed>>

---------------------------------------------------------------------------
(* The array: num entries in use of the max the block v has. *)

array_init == [num |-> 0, max |-> 0, v |-> <<>>]

GrownMax(num) ==
  LET grow[newmax \in Nat] ==
        IF num > newmax THEN grow[IF newmax = 0 THEN 4 ELSE newmax * 2] ELSE newmax
  IN grow

(* Mutant: the entries of the old block are not copied. *)
PreallocateNoCopy(a, num) ==
  IF num > a.max
  THEN [a EXCEPT !.max = GrownMax(num)[a.max],
                 !.v = [i \in 1 .. GrownMax(num)[a.max] |-> Junk]]
  ELSE a

(* A new block with the entries of the old one, when the old is too small. *)
array_preallocate(a, num) ==
  IF num > a.max
  THEN [a EXCEPT !.max = GrownMax(num)[a.max],
                 !.v = [i \in 1 .. GrownMax(num)[a.max] |-> IF i <= a.num THEN a.v[i] ELSE Junk]]
  ELSE a

array_setsize(a, num) == [array_preallocate(a, num) EXCEPT !.num = num]

array_get(a, index) == a.v[index + 1]
array_set(a, index, val) == [a EXCEPT !.v[index + 1] = val]
array_add(a, val) == array_set(array_setsize(a, a.num + 1), a.num, val)

(* Mutant: one entry too few moves down. *)
RemoveMovesFewer(a, index) ==
  [a EXCEPT !.num = @ - 1,
            !.v = [i \in 1 .. a.max |-> IF i > index /\ i < a.num - 1 THEN @[i + 1] ELSE @[i]]]

array_remove(a, index) ==
  [a EXCEPT !.num = @ - 1,
            !.v = [i \in 1 .. a.max |-> IF i > index /\ i < a.num THEN @[i + 1] ELSE @[i]]]

(* What the sequence is after the size was set: entries past the old end   *)
(* are not initialized, and may hold whatever.                             *)
Resized(s, num) == [i \in 1 .. num |-> IF i <= Len(s) THEN s[i] ELSE Junk]

ArrayClient ==
  /\ client = "array"
  /\ \/ \E v \in Val : arr' = array_add(arr, v) /\ seq' = Append(seq, v) /\ arr.num < MaxNum
     \/ arr.num = arr.max /\ UNCHANGED <<arr, seq>>             \* ENOMEM for an array_add
     \/ \E n \in 0 .. MaxNum : arr' = array_setsize(arr, n) /\ seq' = Resized(seq, n)
     \/ \E n \in 0 .. MaxNum : arr' = array_preallocate(arr, n) /\ UNCHANGED seq
     \/ \E i \in 1 .. arr.num, v \in Val :
          arr' = array_set(arr, i - 1, v) /\ seq' = [seq EXCEPT ![i] = v]
     \/ \E i \in 1 .. arr.num : arr' = array_remove(arr, i - 1) /\ seq' = RemoveAt(seq, i)
     \/ arr.num = 0 /\ arr' = array_init /\ UNCHANGED seq        \* cleanup, and a new one
  /\ UNCHANGED <<pc, bm, marked, tl, order, data, failed>>

(* The array is the sequence its client built: every entry that was stored *)
(* is at its place whatever was added, removed, cut or moved to a larger   *)
(* block since, and there is room for all of them.                         *)
ArrayIsSequence == client = "array" =>
  /\ arr.num = Len(seq) /\ arr.num <= arr.max /\ Len(arr.v) = arr.max
  /\ \A i \in 1 .. Len(seq) : seq[i] # Junk => array_get(arr, i - 1) = seq[i]

---------------------------------------------------------------------------
(* The bitmap: nbits bits in words, the bits past the end marked in use. *)

Words(nbits) == (nbits + BITS_PER_WORD - 1) \div BITS_PER_WORD
AllBits == 0 .. BITS_PER_WORD - 1

(* Mutant: the bits past the end are left free. *)
CreateNoOverbits(nbits) == [nbits |-> nbits, v |-> [w \in 1 .. Words(nbits) |-> {}]]

bitmap_create(nbits) ==
  [nbits |-> nbits,
   v |-> [w \in 1 .. Words(nbits) |->
            IF w = Words(nbits) /\ Words(nbits) > nbits \div BITS_PER_WORD
            THEN (nbits - (w - 1) * BITS_PER_WORD) .. BITS_PER_WORD - 1 ELSE {}]]

(* bitmap_translate: the word and the bit in it. *)
Word(bitno) == bitno \div BITS_PER_WORD + 1
Offset(bitno) == bitno % BITS_PER_WORD

bitmap_isset(b, index) == Offset(index) \in b.v[Word(index)]
bitmap_mark(b, index) == [b EXCEPT !.v[Word(index)] = @ \cup {Offset(index)}]
bitmap_unmark(b, index) == [b EXCEPT !.v[Word(index)] = @ \ {Offset(index)}]

Least(S) == CHOOSE x \in S : \A y \in S : x <= y

(* The first bit of the first word that is not full; -1 for ENOSPC. *)
bitmap_alloc(b) ==
  LET free == {w \in DOMAIN b.v : b.v[w] # AllBits}
  IN IF free = {} THEN -1
     ELSE (Least(free) - 1) * BITS_PER_WORD + Least(AllBits \ b.v[Least(free)])

Allocated(index) ==
  IF index = -1 THEN UNCHANGED <<bm, marked>>
  ELSE bm' = bitmap_mark(bm, index) /\ marked' = marked \cup {index}

BitmapClient ==
  /\ client = "bitmap"
  /\ \/ Allocated(bitmap_alloc(bm)) /\ failed' = (failed \/ bitmap_alloc(bm) >= bm.nbits)
     \/ \E i \in (0 .. bm.nbits - 1) \ marked :
          /\ bm' = bitmap_mark(bm, i) /\ marked' = marked \cup {i}
          /\ failed' = (failed \/ bitmap_isset(bm, i))
     \/ \E i \in marked :
          /\ bm' = bitmap_unmark(bm, i) /\ marked' = marked \ {i}
          /\ failed' = (failed \/ ~bitmap_isset(bm, i))
  /\ UNCHANGED <<pc, arr, seq, tl, order, data>>

(* The bitmap is the set of numbers its client took: the bits in use are   *)
(* the marked ones, and an allocation fails only when every number is      *)
(* taken, also when the number of bits is not a whole number of words.     *)
BitmapIsSet == client = "bitmap" =>
  /\ \A i \in 0 .. bm.nbits - 1 : bitmap_isset(bm, i) <=> i \in marked
  /\ (bitmap_alloc(bm) = -1) <=> marked = 0 .. bm.nbits - 1
  /\ bitmap_alloc(bm) < bm.nbits

---------------------------------------------------------------------------
(* The thread lists: nodes linked both ways between a list's head and      *)
(* tail.  A node is a thread, or <<"head", l>> or <<"tail", l>>; the ends  *)
(* point to NULL, which is 0, as do both links of a thread on no list.     *)

Head_(l) == <<"head", l>>
Tail_(l) == <<"tail", l>>
Ends == {Head_(l) : l \in List} \cup {Tail_(l) : l \in List}
Node(t) == <<"node", t>>
Nodes == Ends \cup {Node(t) : t \in Thread}
None == <<"null", 0>>

threadlist_init ==
  [next |-> [n \in Nodes |-> IF n[1] = "head" THEN Tail_(n[2]) ELSE None],
   prev |-> [n \in Nodes |-> IF n[1] = "tail" THEN Head_(n[2]) ELSE None],
   count |-> [l \in List |-> 0]]

(* Mutant: the node that was first keeps pointing back to the head. *)
InsertHalf(s, onlist, addee) ==
  [s EXCEPT !.prev = [@ EXCEPT ![addee] = onlist],
            !.next = [@ EXCEPT ![addee] = s.next[onlist], ![onlist] = addee]]

threadlist_insertafternode(s, onlist, addee) ==
  [s EXCEPT !.prev = [@ EXCEPT ![addee] = onlist, ![s.next[onlist]] = addee],
            !.next = [@ EXCEPT ![addee] = s.next[onlist], ![onlist] = addee]]

threadlist_insertbeforenode(s, addee, onlist) ==
  [s EXCEPT !.prev = [@ EXCEPT ![addee] = s.prev[onlist], ![onlist] = addee],
            !.next = [@ EXCEPT ![addee] = onlist, ![s.prev[onlist]] = addee]]

threadlist_removenode(s, n) ==
  [s EXCEPT !.next = [@ EXCEPT ![s.prev[n]] = s.next[n], ![n] = None],
            !.prev = [@ EXCEPT ![s.next[n]] = s.prev[n], ![n] = None]]

Counted(s, l, by) == [s EXCEPT !.count[l] = @ + by]

threadlist_addhead(s, l, t) == Counted(threadlist_insertafternode(s, Head_(l), Node(t)), l, 1)
threadlist_addtail(s, l, t) == Counted(threadlist_insertbeforenode(s, Node(t), Tail_(l)), l, 1)
threadlist_insertafter(s, l, onlist, t) ==
  Counted(threadlist_insertafternode(s, Node(onlist), Node(t)), l, 1)
threadlist_insertbefore(s, l, t, onlist) ==
  Counted(threadlist_insertbeforenode(s, Node(t), Node(onlist)), l, 1)
threadlist_remove(s, l, t) == Counted(threadlist_removenode(s, Node(t)), l, -1)

(* The first or last node of the list is removed, unless it is an end. *)
threadlist_remhead(s, l) ==
  LET n == s.next[Head_(l)] IN
  IF s.next[n] = None THEN s ELSE Counted(threadlist_removenode(s, n), l, -1)

threadlist_remtail(s, l) ==
  LET n == s.prev[Tail_(l)] IN
  IF s.prev[n] = None THEN s ELSE Counted(threadlist_removenode(s, n), l, -1)

(* THREADLIST_FORALL and THREADLIST_FORALL_REV: follow the links from one  *)
(* end to the other (no further than there are threads).                   *)
Forall(s, l) ==
  LET walk[k \in 0 .. Cardinality(Thread)] ==
        [n \in Nodes |-> IF k = 0 \/ s.next[n] = None THEN <<>>
                         ELSE <<n[2]>> \o walk[k - 1][s.next[n]]]
  IN walk[Cardinality(Thread)][s.next[Head_(l)]]

ForallRev(s, l) ==
  LET walk[k \in 0 .. Cardinality(Thread)] ==
        [n \in Nodes |-> IF k = 0 \/ s.prev[n] = None THEN <<>>
                         ELSE <<n[2]>> \o walk[k - 1][s.prev[n]]]
  IN walk[Cardinality(Thread)][s.prev[Tail_(l)]]

OffLists == Thread \ UNION {ToSet(order[l]) : l \in List}

ListClient ==
  /\ client = "threadlist"
  /\ \E l \in List :
       \/ \E t \in OffLists :
            \/ tl' = threadlist_addhead(tl, l, t) /\ order' = [order EXCEPT ![l] = <<t>> \o @]
            \/ tl' = threadlist_addtail(tl, l, t) /\ order' = [order EXCEPT ![l] = Append(@, t)]
            \/ \E i \in DOMAIN order[l] :
                 \/ /\ tl' = threadlist_insertafter(tl, l, order[l][i], t)
                    /\ order' = [order EXCEPT ![l] = InsertAt(@, i + 1, t)]
                 \/ /\ tl' = threadlist_insertbefore(tl, l, t, order[l][i])
                    /\ order' = [order EXCEPT ![l] = InsertAt(@, i, t)]
       \/ tl' = threadlist_remhead(tl, l) /\ order' = [order EXCEPT ![l] = IF @ = <<>> THEN @ ELSE Tail(@)]
       \/ tl' = threadlist_remtail(tl, l) /\ order' = [order EXCEPT ![l] = IF @ = <<>> THEN @ ELSE Front(@)]
       \/ \E i \in DOMAIN order[l] :
            tl' = threadlist_remove(tl, l, order[l][i]) /\ order' = [order EXCEPT ![l] = RemoveAt(@, i)]
  /\ UNCHANGED <<pc, arr, seq, bm, marked, data, failed>>

(* Each thread list is the sequence its users built, in both directions    *)
(* and by count, and a thread that was taken off has no links left, so it  *)
(* can be put on another list or destroyed.                                *)
ListsAreSequences == client = "threadlist" =>
  /\ \A l \in List : /\ Forall(tl, l) = order[l] /\ ForallRev(tl, l) = Reverse(order[l])
                     /\ tl.count[l] = Len(order[l])
  /\ \A t \in OffLists : tl.next[Node(t)] = None /\ tl.prev[Node(t)] = None

---------------------------------------------------------------------------
(* The tests, a step for each of their loops; what they assert is what     *)
(* failed records.                                                         *)

Assert_(p) == failed' = (failed \/ ~p)

Step(k) == pc = k /\ pc' = k + 1

(* What array_get returns, checked first to be there. *)
Has(a, i, x) == i < a.num /\ i < Len(a.v) /\ array_get(a, i) = x
Put(a) == arr' = a
Half == TESTSIZE \div 2

(* testa: entry i points to the number i (here i + 1, 0 being a null       *)
(* pointer); each step is what the array becomes and what is asserted      *)
(* before.                                                                 *)
All(n) == [i \in 1 .. n |-> i]
Holds(lo, hi, f(_)) == \A i \in lo .. hi : Has(arr, i, f(i))

testa ==
  \/ Step(0) /\ Put(FoldLeft(array_add, arr, All(TESTSIZE))) /\ Assert_(arr.num = 0)
  \/ Step(1) /\ Put(arr) /\ Assert_(arr.num = TESTSIZE /\ Holds(0, TESTSIZE - 1, LAMBDA i : i + 1))
  \/ /\ Step(2) /\ Assert_(arr.num = TESTSIZE)
     /\ Put(FoldLeft(LAMBDA a, i : array_set(a, i - 1, TESTSIZE - i + 1), arr, All(TESTSIZE)))
  \/ Step(3) /\ Put(array_setsize(arr, Half)) /\ Assert_(Holds(0, TESTSIZE - 1, LAMBDA i : TESTSIZE - i))
  \/ Step(4) /\ Put(array_remove(arr, 1)) /\ Assert_(Holds(0, Half - 1, LAMBDA i : TESTSIZE - i))
  \/ /\ Step(5) /\ Put(array_setsize(arr, 2))
     /\ Assert_(Has(arr, 0, TESTSIZE) /\ Holds(1, Half - 2, LAMBDA i : TESTSIZE - i - 1))
  \/ /\ Step(6) /\ Put(array_setsize(array_set(arr, 1, NULL), 2))
     /\ Assert_(Has(arr, 0, TESTSIZE) /\ Has(arr, 1, TESTSIZE - 2))
  \/ /\ Step(7) /\ Put(array_setsize(arr, TESTSIZE * 10))
     /\ Assert_(Has(arr, 0, TESTSIZE) /\ Has(arr, 1, NULL))
  \/ /\ Step(8) /\ Put(array_setsize(arr, 0))
     /\ Assert_(Has(arr, 0, TESTSIZE) /\ Has(arr, 1, NULL))

(* arraytest2 fills a new array, sets its entries, takes one out and       *)
(* doubles the size.                                                       *)
arraytest2 ==
  \/ Step(10) /\ Put(FoldLeft(LAMBDA a, i : array_add(a, 1), arr, All(TESTSIZE))) /\ Assert_(TRUE)
  \/ /\ Step(11) /\ Assert_(arr.num = TESTSIZE /\ Holds(0, TESTSIZE - 1, LAMBDA i : 1))
     /\ Put(FoldLeft(LAMBDA a, i : array_set(a, i - 1, i),
                     array_setsize(array_setsize(arr, 0), TESTSIZE), All(TESTSIZE)))
  \/ Step(12) /\ Put(array_remove(arr, 1)) /\ Assert_(Holds(0, TESTSIZE - 1, LAMBDA i : i + 1))
  \/ /\ Step(13) /\ Put(array_setsize(arr, TESTSIZE * 2))
     /\ Assert_(arr.num = TESTSIZE - 1 /\ Has(arr, 0, 1) /\ Holds(1, TESTSIZE - 2, LAMBDA i : i + 2))
  \/ /\ Step(14) /\ Put(array_setsize(arr, 0))
     /\ Assert_(Has(arr, 0, 1) /\ Holds(1, TESTSIZE - 2, LAMBDA i : i + 2))

(* arraytest runs testa twice over the same array, and destroys it empty. *)
arraytest ==
  /\ client = "arraytest" /\ UNCHANGED <<seq, bm, marked, tl, order>>
  /\ \/ (testa \/ arraytest2) /\ UNCHANGED data
     \/ /\ pc = 9 /\ Assert_(arr.num = 0) /\ data' = <<1>>
        /\ \/ data = <<>> /\ pc' = 0 /\ Put(arr)
           \/ data = <<1>> /\ pc' = 10 /\ Put(array_init)

(* bitmaptest: a random set marked, then its complement instead, then      *)
(* allocated to the last.                 *)
bitmaptest ==
  /\ client = "bitmaptest"
  /\ LET n == bm.nbits
         drawn == {i \in 0 .. n - 1 : i + 1 <= Len(data) /\ data[i + 1] = 1}
         all == [i \in 1 .. n |-> i - 1] IN
     \/ /\ Step(0) /\ Assert_(\A i \in 0 .. n - 1 : ~bitmap_isset(bm, i))
        /\ data' \in [1 .. n -> {0, 1}]
        /\ bm' = FoldLeft(LAMBDA b, i : IF data'[i + 1] = 1 THEN bitmap_mark(b, i) ELSE b, bm, all)
     \/ /\ Step(1) /\ Assert_(\A i \in 0 .. n - 1 : bitmap_isset(bm, i) <=> i \in drawn)
        /\ bm' = FoldLeft(LAMBDA b, i : IF i \in drawn THEN bitmap_unmark(b, i) ELSE bitmap_mark(b, i), bm, all)
        /\ UNCHANGED data
     \/ /\ Step(2) /\ Assert_(\A i \in 0 .. n - 1 : bitmap_isset(bm, i) <=> i \notin drawn)
        /\ UNCHANGED <<bm, data>>
     \/ /\ pc = 3 /\ bitmap_alloc(bm) # -1 /\ UNCHANGED pc
        /\ LET x == bitmap_alloc(bm) IN
             /\ Assert_(x < n /\ x \in drawn) /\ bm' = bitmap_mark(bm, x)
             /\ data' = [i \in DOMAIN data |-> IF i = x + 1 THEN 0 ELSE data[i]]
     \/ /\ pc = 3 /\ bitmap_alloc(bm) = -1 /\ pc' = 4
        /\ Assert_(drawn = {} /\ \A i \in 0 .. n - 1 : bitmap_isset(bm, i)) /\ UNCHANGED <<bm, data>>
  /\ UNCHANGED <<arr, seq, marked, tl, order>>

(* threadlisttest a to f, one after the other: a call, the thread it is    *)
(* about (added, or expected back), the thread on the list it is put next  *)
(* to, and the order check_order is then asked for.                        *)
ListTests ==
  LET Call(op, t, on, chk) == [op |-> op, t |-> t, on |-> on, chk |-> chk]
      n == Cardinality(Thread)
  IN <<Call("addhead", 1, 0, "both"), Call("remhead", 1, 0, "any"),
       Call("addtail", 1, 0, "both"), Call("remtail", 1, 0, "any"),
       Call("addhead", 1, 0, "any"), Call("addhead", 2, 0, "down"),
       Call("remhead", 2, 0, "any"), Call("remhead", 1, 0, "any"),
       Call("addtail", 1, 0, "any"), Call("addtail", 2, 0, "up"),
       Call("remtail", 2, 0, "any"), Call("remtail", 1, 0, "any"),
       Call("addhead", 1, 0, "any"), Call("addtail", 2, 0, "up"),
       Call("remhead", 1, 0, "any"), Call("remtail", 2, 0, "any"),
       Call("addhead", 1, 0, "any"), Call("addtail", 2, 0, "up"),
       Call("remtail", 2, 0, "any"), Call("remtail", 1, 0, "any"),
       Call("addhead", 2, 0, "any"), Call("addtail", 4, 0, "up"),
       Call("after", 5, 4, "up"), Call("before", 1, 2, "up"), Call("after", 3, 2, "up")>>
     \o [i \in 1 .. 5 |-> Call("remhead", i, 0, "any")]
     \o [i \in 1 .. n |-> Call("addtail", i, 0, "any")]
     \o <<Call("forall", 0, 0, "any")>> \o [i \in 1 .. n |-> Call("remhead", i, 0, "any")]

Called(s, l, c) ==
  CASE c.op = "addhead" -> threadlist_addhead(s, l, c.t)
    [] c.op = "addtail" -> threadlist_addtail(s, l, c.t)
    [] c.op = "after"   -> threadlist_insertafter(s, l, c.on, c.t)
    [] c.op = "before"  -> threadlist_insertbefore(s, l, c.t, c.on)
    [] c.op = "remhead" -> threadlist_remhead(s, l)
    [] c.op = "remtail" -> threadlist_remtail(s, l)
    [] OTHER            -> s

check_order(s, l, chk) ==
  LET names == Forall(s, l) IN
  \A i \in 1 .. Len(names) - 1 : /\ chk \in {"up", "both"} => names[i] < names[i + 1]
                                 /\ chk \in {"down", "both"} => names[i] > names[i + 1]

threadlisttest ==
  /\ client = "threadlisttest" /\ pc < Len(ListTests) /\ pc' = pc + 1
  /\ LET c == ListTests[pc + 1]
         l == CHOOSE x \in List : TRUE
         count == tl.count[l] + (CASE c.op \in {"remhead", "remtail"} -> -1 [] c.op = "forall" -> 0 [] OTHER -> 1)
     IN /\ tl' = Called(tl, l, c)
        /\ Assert_(/\ tl'.count[l] = count /\ check_order(tl', l, c.chk)
                   /\ c.op = "remhead" => tl.next[Head_(l)] = Node(c.t)
                   /\ c.op = "remtail" => tl.prev[Tail_(l)] = Node(c.t)
                   /\ c.op = "forall" => /\ Forall(tl, l) = [i \in 1 .. Cardinality(Thread) |-> i]
                                         /\ ForallRev(tl, l) = Reverse(Forall(tl, l)))
  /\ UNCHANGED <<arr, seq, bm, marked, order, data>>

(* The kernel's own tests of its containers find nothing to complain of,   *)
(* nor does an assertion of the containers fail under any legal call.      *)
AssertionsHold == ~failed

---------------------------------------------------------------------------
Init == /\ client \in Client /\ pc = 0 /\ failed = FALSE /\ data = <<>>
        /\ arr = array_init /\ seq = <<>>
        /\ \E n \in NBits : /\ bm = bitmap_create(n)
                         /\ (n = Least(NBits) \/ client \in {"bitmap", "bitmaptest"})
        /\ marked = {}
        /\ tl = threadlist_init /\ order = [l \in List |-> <<>>]

Next == /\ UNCHANGED client
        /\ \/ ArrayClient \/ BitmapClient \/ ListClient
           \/ arraytest \/ bitmaptest \/ threadlisttest

Spec == Init /\ [][Next]_vars
=============================================================================
