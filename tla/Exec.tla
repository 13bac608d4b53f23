-------------------------------- MODULE Exec --------------------------------
(***************************************************************************)
(* execv (sys_execv in proc_syscalls.c, exec.c and loadelf.c) by several   *)
(* processes: the path and the arguments come into the kernel, in a page   *)
(* or, one process at a time, in a buffer of ARG_MAX; the program is       *)
(* loaded into a new address space; the arguments go onto its stack.       *)
(*                                                                         *)
(* An argument is its length with the terminating 0, or Bad for a pointer  *)
(* outside the process; a program is what load_elf makes of it.            *)
(***************************************************************************)
EXTENDS Integers, Sequences, FiniteSets, SequencesExt

CONSTANTS Proc,
          EXEC_BIGBUF_THROTTLE, PAGE_SIZE, ARG_MAX,
          Word,        \* sizeof(userptr_t)
          StackSize,   \* DUMBVM_STACKPAGES * PAGE_SIZE
          Argvs,       \* the argument vectors tried
          Images,      \* "good", "one", "three" (segments), "type", "short", "unreadable",
                       \* "missing", "badpath" (the name is outside the process)
          MaxNoMem, MaxCalls

VARIABLES execthrottle,
          pc, argv, image,
          buf,         \* [Proc -> the argument buffer, an argbuf_t]
          held,        \* [Proc -> what it has from kmalloc and vfs_open]
          p_addrspace, \* [Proc -> the address space, a number]
          active,      \* [Proc -> the one as_activate was last called for]
          spaces,      \* the address spaces there are
          old, name,   \* [Proc -> oldas of loadexec], [Proc -> t_name]
          result,      \* [Proc -> what the last execv returned, or "none"]
          stack,       \* [Proc -> the start of the argv array and the bytes written]
          nomem, calls, panicked

vars == <<execthrottle, pc, argv, image, buf, held, p_addrspace, active, spaces, old, name,
          result, stack, nomem, calls, panicked>>

Bad == 0
Top == 0                  \* USERSTACK; the stack is below it
EmptyBuf == [max |-> 0, len |-> 0, nargs |-> 0, tooksem |-> FALSE, args |-> <<>>]
NoStack == [argc |-> 0, uargv |-> 0, bytes |-> << >>]

Init ==
  /\ execthrottle = EXEC_BIGBUF_THROTTLE
  /\ pc = [p \in Proc |-> "user"] /\ argv = [p \in Proc |-> <<>>]
  /\ image = [p \in Proc |-> "none"] /\ buf = [p \in Proc |-> EmptyBuf]
  /\ held = [p \in Proc |-> {}] /\ p_addrspace = [p \in Proc |-> p]
  /\ active = p_addrspace /\ spaces = Proc /\ old = [p \in Proc |-> 0]
  /\ name = [p \in Proc |-> 0] /\ result = [p \in Proc |-> "none"]
  /\ stack = [p \in Proc |-> NoStack]
  /\ nomem = 0 /\ calls = 0 /\ panicked = FALSE

space == <<p_addrspace, active, spaces, old, name>>
call == <<argv, image, calls, result>>

Goto(p, l) == pc' = [pc EXCEPT ![p] = l]
Hold(p, x) == held' = [held EXCEPT ![p] = @ \cup {x}]
NoMem == nomem < MaxNoMem /\ nomem' = nomem + 1

(* Mutant: argbuf_cleanup leaves the semaphore as it is. *)
CleanupNoV(p) == UNCHANGED execthrottle
argbuf_cleanup(p) == execthrottle' = execthrottle + (IF buf[p].tooksem THEN 1 ELSE 0)

(* The callee has given back what is in "freed"; then sys_execv does the   *)
(* argbuf_cleanup and kfree(kpath), and the error is in the user's hands.  *)
Fail(p, err, freed) ==
  /\ argbuf_cleanup(p) /\ buf' = [buf EXCEPT ![p] = EmptyBuf]
  /\ held' = [held EXCEPT ![p] = @ \ (freed \cup {"kpath", "data"})]
  /\ result' = [result EXCEPT ![p] = err] /\ Goto(p, "user")
  /\ UNCHANGED <<argv, image, calls, stack, panicked>>

(***************************************************************************)
(* The path and the arguments come in.                                     *)
(***************************************************************************)
sys_execv(p) ==
  /\ pc[p] = "user" /\ calls < MaxCalls /\ calls' = calls + 1
  /\ \E a \in Argvs, i \in Images : argv' = [argv EXCEPT ![p] = a] /\ image' = [image EXCEPT ![p] = i]
  /\ \/ NoMem /\ result' = [result EXCEPT ![p] = "ENOMEM"] /\ UNCHANGED <<held, pc>>
     \/ Hold(p, "kpath") /\ Goto(p, "path") /\ UNCHANGED <<nomem, result>>
  /\ UNCHANGED <<execthrottle, buf, space, stack, panicked>>

CopyinPath(p) ==
  /\ pc[p] = "path" /\ UNCHANGED <<execthrottle, buf, argv, image, calls, space, stack, nomem, panicked>>
  /\ \/ /\ image[p] = "badpath" /\ result' = [result EXCEPT ![p] = "EFAULT"]
        /\ held' = [held EXCEPT ![p] = @ \ {"kpath"}] /\ Goto(p, "user")
     \/ image[p] # "badpath" /\ Goto(p, "small") /\ UNCHANGED <<held, result>>

RECURSIVE Total(_, _)
Total(a, n) == IF n = 0 THEN 0 ELSE a[n] + Total(a, n - 1)

(* argbuf_copyin: the strings one after the other.  copyinstr says EFAULT  *)
(* for a bad pointer; for no room it says ENAMETOOLONG, which becomes      *)
(* E2BIG, except that with no room at all copycheck says EFAULT.           *)
CopyinError(a, max) ==
  LET wrong == {n \in DOMAIN a : a[n] = Bad \/ Total(a, n) > max}
      n == CHOOSE n \in wrong : \A m \in wrong : n <= m
  IN  IF wrong = {} THEN "OK"
      ELSE IF a[n] = Bad \/ Total(a, n - 1) = max THEN "EFAULT" ELSE "E2BIG"
Filled(a, max, took) == [max |-> max, len |-> Total(a, Len(a)), nargs |-> Len(a),
                         tooksem |-> took, args |-> a]

(* argbuf_fromuser, in a page; if that is too small it is given back and   *)
(* the semaphore waited for.                                               *)
argbuf_fromuser(p) ==
  /\ pc[p] = "small" /\ UNCHANGED space
  /\ \/ NoMem /\ Fail(p, "ENOMEM", {})
     \/ /\ UNCHANGED nomem
        /\ \/ CopyinError(argv[p], PAGE_SIZE) = "EFAULT" /\ Fail(p, "EFAULT", {})
           \/ /\ CopyinError(argv[p], PAGE_SIZE) = "E2BIG" /\ Goto(p, "throttle")
              /\ UNCHANGED <<execthrottle, call, buf, held, stack, panicked>>
           \/ /\ CopyinError(argv[p], PAGE_SIZE) = "OK" /\ Goto(p, "load")
              /\ buf' = [buf EXCEPT ![p] = Filled(argv[p], PAGE_SIZE, FALSE)] /\ Hold(p, "data")
              /\ UNCHANGED <<execthrottle, call, stack, panicked>>

Throttle(p) ==
  /\ pc[p] = "throttle" /\ execthrottle > 0 /\ execthrottle' = execthrottle - 1
  /\ buf' = [buf EXCEPT ![p].tooksem = TRUE] /\ Goto(p, "big")
  /\ UNCHANGED <<call, held, space, stack, nomem, panicked>>

FromUserBig(p) ==
  /\ pc[p] = "big" /\ UNCHANGED space
  /\ \/ NoMem /\ Fail(p, "ENOMEM", {})
     \/ /\ UNCHANGED nomem
        /\ \/ /\ CopyinError(argv[p], ARG_MAX) # "OK"
              /\ Fail(p, CopyinError(argv[p], ARG_MAX), {})
           \/ /\ CopyinError(argv[p], ARG_MAX) = "OK" /\ Goto(p, "load")
              /\ buf' = [buf EXCEPT ![p] = Filled(argv[p], ARG_MAX, TRUE)] /\ Hold(p, "data")
              /\ UNCHANGED <<execthrottle, call, stack, panicked>>

(***************************************************************************)
(* loadexec.                                                               *)
(***************************************************************************)
Unused == CHOOSE s \in 1 .. 2 * Cardinality(Proc) + 1 : s \notin spaces

(* A copy of the name, the file, and a new address space, which becomes    *)
(* the current one; each failure gives back what was got before it.        *)
kstrdup(p) ==
  /\ pc[p] = "load" /\ UNCHANGED space
  /\ \/ NoMem /\ Fail(p, "ENOMEM", {})
     \/ /\ Hold(p, "newname") /\ Goto(p, "open")
        /\ UNCHANGED <<execthrottle, call, buf, stack, nomem, panicked>>

vfs_open(p) ==
  /\ pc[p] = "open" /\ UNCHANGED space
  /\ \/ NoMem /\ Fail(p, "ENOMEM", {"newname"})
     \/ image[p] = "missing" /\ Fail(p, "ENOENT", {"newname"}) /\ UNCHANGED nomem
     \/ /\ image[p] # "missing" /\ Hold(p, "vn") /\ Goto(p, "as")
        /\ UNCHANGED <<execthrottle, call, buf, stack, nomem, panicked>>

as_create(p) ==
  /\ pc[p] = "as"
  /\ \/ NoMem /\ Fail(p, "ENOMEM", {"vn", "newname"}) /\ UNCHANGED space
     \/ /\ spaces' = spaces \cup {Unused} /\ old' = [old EXCEPT ![p] = p_addrspace[p]]
        /\ p_addrspace' = [p_addrspace EXCEPT ![p] = Unused]
        /\ active' = [active EXCEPT ![p] = Unused] /\ Goto(p, "elf")
        /\ UNCHANGED <<execthrottle, call, buf, held, name, stack, nomem, panicked>>

(* load_elf: the headers (as_define_region refuses a third segment), then  *)
(* as_prepare_load, then the segments.                                     *)
LoadError(i) == CASE i = "three" -> "ENOSYS" [] i \in {"type", "short"} -> "ENOEXEC"
                  [] i = "unreadable" -> "EIO" [] OTHER -> "OK"

(* Mutant: the old address space is not put back. *)
RestoreNot(p) ==
  /\ p_addrspace' = p_addrspace /\ active' = active /\ spaces' = spaces
  /\ old' = [old EXCEPT ![p] = 0]
Restore(p) ==
  /\ p_addrspace' = [p_addrspace EXCEPT ![p] = old[p]]
  /\ active' = [active EXCEPT ![p] = old[p]]
  /\ spaces' = spaces \ {p_addrspace[p]} /\ old' = [old EXCEPT ![p] = 0]

LoadFails(p, err) == Fail(p, err, {"vn", "newname"}) /\ Restore(p) /\ UNCHANGED name

(* One segment is as good as two for load_elf; but the first byte of it    *)
(* that is copied in faults, and vm_fault asserts that there are two.      *)
load_elf(p) ==
  /\ pc[p] = "elf"
  /\ \/ NoMem /\ LoadFails(p, "ENOMEM")
     \/ /\ LoadError(image[p]) # "OK" /\ LoadFails(p, LoadError(image[p])) /\ UNCHANGED nomem
     \/ /\ image[p] = "one" /\ panicked' = TRUE
        /\ UNCHANGED <<execthrottle, pc, call, buf, held, space, stack, nomem>>
     \/ /\ LoadError(image[p]) = "OK" /\ image[p] # "one"
        /\ spaces' = spaces \ {old[p]} /\ old' = [old EXCEPT ![p] = 0]
        /\ name' = [name EXCEPT ![p] = 1 - @]
        /\ held' = [held EXCEPT ![p] = @ \ {"newname", "vn", "kpath"}]
        /\ Goto(p, "copyout")
        /\ UNCHANGED <<execthrottle, call, buf, p_addrspace, active, stack, nomem, panicked>>

(***************************************************************************)
(* argbuf_copyout: the strings below the top of the stack, the array of    *)
(* pointers below them.  The strings fit in the stack, but nobody has      *)
(* counted the pointers: what does not fit is a panic.                     *)
(***************************************************************************)
(* Mutant: the strings are not aligned. *)
AlignNot(a) == a
AlignDown(a) == a - (a % Word)
StringBase(b) == AlignDown(Top - b.len)
ArgvBase(b) == StringBase(b) - (b.nargs + 1) * Word

(* What is written, in order: for each argument its pointer, then its      *)
(* bytes, and the null pointer at the end.                                 *)
Writes(b) ==
  LET at(i) == StringBase(b) + Total(b.args, i - 1)
      slot(i) == ArgvBase(b) + (i - 1) * Word
      Ptr(i, v) == [k \in 1 .. Word |-> <<slot(i) + k - 1, <<"ptr", v, k>>>>]
      Str(i) == [k \in 1 .. b.args[i] |-> <<at(i) + k - 1, <<"chr", i, k>>>>]
  IN  FlattenSeq([i \in 1 .. b.nargs |-> Ptr(i, at(i)) \o Str(i)]) \o Ptr(b.nargs + 1, 0)
Memory(ws) == [a \in {ws[i][1] : i \in DOMAIN ws} |->
  ws[CHOOSE i \in DOMAIN ws : ws[i][1] = a /\ \A j \in DOMAIN ws : ws[j][1] = a => j <= i][2]]

argbuf_copyout(p) ==
  /\ pc[p] = "copyout"
  /\ IF Top - ArgvBase(buf[p]) > StackSize
     THEN panicked' = TRUE /\ UNCHANGED <<execthrottle, pc, call, buf, held, stack>>
     ELSE /\ stack' = [stack EXCEPT ![p] = [argc |-> buf[p].nargs, uargv |-> ArgvBase(buf[p]),
                                            bytes |-> Memory(Writes(buf[p]))]]
          /\ argbuf_cleanup(p) /\ buf' = [buf EXCEPT ![p] = EmptyBuf]
          /\ held' = [held EXCEPT ![p] = @ \ {"data"}]
          /\ result' = [result EXCEPT ![p] = "started"] /\ Goto(p, "user")
          /\ UNCHANGED <<argv, image, calls, panicked>>
  /\ UNCHANGED <<space, nomem>>

loadexec(p) == kstrdup(p) \/ vfs_open(p) \/ as_create(p) \/ load_elf(p)

Step(p) == \/ CopyinPath(p) \/ argbuf_fromuser(p) \/ Throttle(p) \/ FromUserBig(p)
           \/ loadexec(p) \/ argbuf_copyout(p)
Next == ~panicked /\ \E p \in Proc : sys_execv(p) \/ Step(p)

Spec == Init /\ [][Next]_vars

(***************************************************************************)
(* Properties.                                                             *)
(***************************************************************************)
(* The semaphore is given back on every path, once, and the big buffers    *)
(* are never more than EXEC_BIGBUF_THROTTLE.                               *)
ThrottleKept ==
  /\ execthrottle + Cardinality({p \in Proc : buf[p].tooksem}) = EXEC_BIGBUF_THROTTLE
  /\ \A p \in Proc : buf[p].max > PAGE_SIZE => buf[p].tooksem

(* A process in user mode has nothing left from an execv, and every        *)
(* address space belongs to one process: those in use, and those an execv  *)
(* under way will go back to.  The kernel panics only over a program of    *)
(* one segment, or over arguments that with their pointers are larger than *)
(* the stack.                                                              *)
NothingLeftBehind ==
  /\ \A p \in Proc : pc[p] = "user" => held[p] = {} /\ buf[p] = EmptyBuf /\ old[p] = 0
  /\ spaces = ({p_addrspace[p] : p \in Proc} \cup {old[p] : p \in Proc}) \ {0}
  /\ \A p, q \in Proc : p # q => p_addrspace[p] \notin {p_addrspace[q], old[q]}
  /\ panicked => \E p \in Proc :
       \/ pc[p] = "elf" /\ image[p] = "one"
       \/ pc[p] = "copyout" /\ Total(argv[p], Len(argv[p])) + (Len(argv[p]) + 1) * Word > StackSize - Word

(* An execv that fails leaves the process with the program it had, in the  *)
(* address space that is active; one that succeeds replaces both.          *)
FailureKept(p) ==
  pc[p] # "user" /\ pc'[p] = "user" =>
    /\ active'[p] = p_addrspace'[p]
    /\ result'[p] # "started" =>
         /\ p_addrspace'[p] = (IF old[p] = 0 THEN p_addrspace[p] ELSE old[p])
         /\ name'[p] = name[p]
FailureKeepsProgram == [][\A p \in Proc : FailureKept(p)]_vars

(* The new program finds at argv[i] the i-th argument, whole, and a null   *)
(* pointer after the last, at a word boundary.                             *)
PointerAt(s, i) == s.bytes[s.uargv + (i - 1) * Word][2]
ArgumentsArrive ==
  \A p \in Proc : pc[p] = "user" /\ result[p] = "started" =>
    LET s == stack[p] IN
      /\ s.argc = Len(argv[p]) /\ s.uargv % Word = 0
      /\ \A i \in 1 .. s.argc + 1, k \in 1 .. Word :
           s.bytes[s.uargv + (i - 1) * Word + k - 1][1] = "ptr"
      /\ PointerAt(s, s.argc + 1) = 0
      /\ \A i \in 1 .. s.argc : \A k \in 1 .. argv[p][i] :
           s.bytes[PointerAt(s, i) + k - 1] = <<"chr", i, k>>

(* man/syscall/execv.html: EFAULT is for a bad pointer. *)
FaultMeansBadPointer ==
  \A p \in Proc : result[p] = "EFAULT" =>
    image[p] = "badpath" \/ \E i \in DOMAIN argv[p] : argv[p][i] = Bad

(* An execv ends, in an error or in the new program, although the buffer   *)
(* may have to be waited for.                                              *)
Calling(p) == pc[p] # "user" /\ ~panicked
Returned(p) == pc[p] = "user" \/ panicked
ExecsEnd == \A p \in Proc : Calling(p) ~> Returned(p)
=============================================================================
