------------------------------ MODULE UserCopy ------------------------------
(***************************************************************************)
(* Copies between the kernel and user memory (kern/vm/copyinout.c) and the *)
(* scatter/gather moves built on them (kern/lib/uio.c), as functions.      *)
(*                                                                         *)
(* Addresses are Width bits; user space is the lower half.  A byte of user *)
(* memory that is not mapped faults, and the copy returns EFAULT.          *)
(***************************************************************************)
EXTENDS Integers, Sequences, SequencesExt

CONSTANTS Width,
          Mappings,   \* the sets of mapped user addresses tried
          MaxLen,
          Iovecs      \* the sequences of iovec lengths tried

VARIABLE input        \* the arguments of one call

Space == 2 ^ Width
USERSPACETOP == Space \div 2
Bytes(a, n) == {(a + i) % Space : i \in 0 .. n - 1}

(***************************************************************************)
(* copycheck: an error, or how much of the block is below the kernel.      *)
(***************************************************************************)
(* Mutant: a block that wraps around is not noticed. *)
CheckNoWrap(bot, len) ==
  LET top == (bot + len - 1) % Space
  IN  IF bot >= USERSPACETOP THEN [err |-> "EFAULT", stoplen |-> len]
      ELSE [err |-> "OK", stoplen |-> IF top >= USERSPACETOP THEN USERSPACETOP - bot ELSE len]

copycheck(bot, len) ==
  LET top == (bot + len - 1) % Space
  IN  IF top < bot \/ bot >= USERSPACETOP THEN [err |-> "EFAULT", stoplen |-> len]
      ELSE [err |-> "OK", stoplen |-> IF top >= USERSPACETOP THEN USERSPACETOP - bot ELSE len]

(* copyin and copyout: a single block, which may not be cut. *)
copyin(bot, len, mapped) ==
  IF copycheck(bot, len).err # "OK" \/ copycheck(bot, len).stoplen # len THEN "EFAULT"
  ELSE IF Bytes(bot, len) \subseteq mapped THEN "OK" ELSE "EFAULT"

(* copystr from address a, where end is the address of the terminating 0:  *)
(* i bytes have been copied.                                               *)
RECURSIVE copystr(_, _, _, _, _, _)
copystr(a, end, maxlen, stoplen, mapped, i) ==
  IF ~(i < maxlen /\ i < stoplen)
  THEN [err |-> IF stoplen < maxlen THEN "EFAULT" ELSE "ENAMETOOLONG", got |-> 0]
  ELSE IF a + i \notin mapped THEN [err |-> "EFAULT", got |-> 0]
  ELSE IF a + i = end THEN [err |-> "OK", got |-> i + 1]
  ELSE copystr(a, end, maxlen, stoplen, mapped, i + 1)

(* Mutant: running into the kernel's addresses is not told from running out of room. *)
InstrNoStop(a, end, len, mapped) ==
  IF copycheck(a, len).err # "OK" THEN [err |-> "EFAULT", got |-> 0]
  ELSE copystr(a, end, copycheck(a, len).stoplen, len, mapped, 0)

copyinstr(a, end, len, mapped) ==
  IF copycheck(a, len).err # "OK" THEN [err |-> "EFAULT", got |-> 0]
  ELSE copystr(a, end, len, copycheck(a, len).stoplen, mapped, 0)

(***************************************************************************)
(* uiomove.  A uio is the lengths left in its iovecs, the number of the    *)
(* first of them, how much is left and the offset; bad is the iovec in     *)
(* user memory that faults, 0 if none does.  moved collects which byte of  *)
(* the buffers each byte of the block went to.                             *)
(***************************************************************************)
Least(a, b) == IF a < b THEN a ELSE b

(* Mutant: the block does not limit what is moved from one iovec. *)
AmountAll(n, len) == len

Amount(n, len) == IF len > n THEN n ELSE len

RECURSIVE uiomove(_, _, _, _)
uiomove(n, uio, bad, moved) ==
  IF ~(n > 0 /\ uio.resid > 0) THEN [err |-> "OK", uio |-> uio, moved |-> moved]
  ELSE IF Amount(n, uio.lens[uio.iov]) = 0
  THEN IF uio.iov = Len(uio.lens) THEN [err |-> "panic", uio |-> uio, moved |-> moved]
       ELSE uiomove(n, [uio EXCEPT !.iov = @ + 1], bad, moved)
  ELSE IF uio.iov = bad THEN [err |-> "EFAULT", uio |-> uio, moved |-> moved]
  ELSE LET size == Amount(n, uio.lens[uio.iov])
       IN  uiomove(n - size,
                   [uio EXCEPT !.lens[uio.iov] = @ - size, !.resid = @ - size, !.offset = @ + size],
                   bad,
                   moved \o [k \in 1 .. size |-> <<uio.iov, uio.used[uio.iov] - uio.lens[uio.iov] + k>>])

(* uiomovezeros: pieces of at most sixteen bytes, here Chunk. *)
Chunk == 2
RECURSIVE uiomovezeros(_, _, _, _)
uiomovezeros(n, uio, bad, moved) ==
  IF n = 0 THEN [err |-> "OK", uio |-> uio, moved |-> moved]
  ELSE LET r == uiomove(Least(n, Chunk), uio, bad, moved)
       IN  IF r.err # "OK" THEN r ELSE uiomovezeros(n - Least(n, Chunk), r.uio, bad, r.moved)

Total(lens) == FoldSeq(LAMBDA x, acc : x + acc, 0, lens)
Uio(lens, resid) == [lens |-> lens, used |-> lens, iov |-> 1, resid |-> resid, offset |-> 0]

(* The calls: a block, a string, or a move.  As callers set them up,       *)
(* uio_resid is what the buffers hold, or it is less (load_segment) and no *)
(* more than it is asked for.                                              *)
Init ==
  \/ input \in [kind : {"block"}, bot : 0 .. Space - 1, len : 0 .. Space - 1, mapped : Mappings]
  \/ input \in [kind : {"string"}, bot : 0 .. Space - 1, len : 0 .. MaxLen,
                mapped : Mappings, end : 0 .. USERSPACETOP]
  \/ \E lens \in Iovecs, n \in 0 .. MaxLen : input \in
       [kind : {"move"}, lens : {lens}, n : {n}, bad : 0 .. Len(lens), zeros : BOOLEAN,
        resid : {r \in 0 .. Total(lens) : r = Total(lens) \/ n <= r}]
Next == UNCHANGED input
Spec == Init /\ [][Next]_input

(***************************************************************************)
(* Properties.                                                             *)
(***************************************************************************)
(* A copy is made exactly when every byte of the block is mapped user      *)
(* memory, also for blocks that wrap around the end of the address space;  *)
(* an empty block is always refused.                                       *)
CopiesOnlyUserMemory ==
  input.kind = "block" =>
    (copyin(input.bot, input.len, input.mapped) = "OK")
      = (input.len > 0 /\ Bytes(input.bot, input.len) \subseteq (input.mapped \cap 0 .. USERSPACETOP - 1))

(* A string is copied exactly when all of it, with its end, is mapped user *)
(* memory and fits; it is called too long only when everything that would  *)
(* fit could be read.                                                      *)
StringsWhole ==
  input.kind = "string" =>
    LET r == copyinstr(input.bot, input.end, input.len, input.mapped)
        fits == input.end >= input.bot /\ input.end - input.bot < input.len
        readable(n) == Bytes(input.bot, n) \subseteq (input.mapped \cap 0 .. USERSPACETOP - 1)
    IN  /\ (r.err = "OK") = (fits /\ readable(input.end - input.bot + 1))
        /\ r.err = "OK" => r.got = input.end - input.bot + 1
        /\ r.err = "ENAMETOOLONG" => ~fits /\ readable(input.len)

(* The bytes moved fill the buffers in order, none twice and none left out *)
(* and what uio_resid, uio_offset and the iovecs say agrees with it, also  *)
(* when a later buffer faults; the buffers never run out.                  *)
MovesInOrder ==
  input.kind = "move" =>
    LET r == IF input.zeros THEN uiomovezeros(input.n, Uio(input.lens, input.resid), input.bad, <<>>)
             ELSE uiomove(input.n, Uio(input.lens, input.resid), input.bad, <<>>)
        all == FlattenSeq([i \in DOMAIN input.lens |-> [k \in 1 .. input.lens[i] |-> <<i, k>>]])
        done == Len(r.moved)
    IN  /\ r.moved = SubSeq(all, 1, done)
        /\ r.uio.resid = input.resid - done /\ r.uio.offset = done
        /\ Total(r.uio.lens) = Total(input.lens) - done
        /\ r.err # "panic"
        /\ r.err = "OK" => done = Least(input.n, input.resid)
=============================================================================
