------------------------------ MODULE OpenFile ------------------------------
(***************************************************************************)
(* Open files: systemFileTable and the system calls open, read, write,     *)
(* close, dup2 and lseek of syscall/file_syscalls.c, with the vnode        *)
(* references they take and drop (vfs/vfspath.c, vfs/vnode.c).             *)
(*                                                                         *)
(* A process has one thread.  sys_fork gives the child a file table of its *)
(* own, with new handles of the console, so a struct openfile belongs to   *)
(* one process unless two calls of open take the same slot.  A struct      *)
(* openfile is a slot of systemFileTable or the console handle of a        *)
(* process, which std_init makes and which is named by the process; it     *)
(* stands for the three standard handles, and its fd is 0.  Every file may *)
(* be read and written: the access mode is left out.                       *)
(***************************************************************************)
EXTENDS Integers, FiniteSets, FiniteSetsExt

CONSTANTS
  Procs, Vnodes, Console, None,
  SYSTEM_OPEN_MAX,   \* slots of systemFileTable
  OPEN_MAX,          \* entries of a fileTable
  Sizes,             \* bytes moved by a read or write, and sizes of files
  Positions,         \* arguments of lseek
  MaxOffset,         \* bound on the positions that are considered
  INT_MAX,           \* the largest int
  Failures           \* what may fail: vop, copyout, stat, lock_create

Slots == 0 .. SYSTEM_OPEN_MAX - 1
Files == Slots \cup Procs
Fds == 0 .. OPEN_MAX - 1
STDERR_FILENO == 0

ASSUME OpenFileAssumption ==
  /\ SYSTEM_OPEN_MAX \in Nat \ {0} /\ OPEN_MAX \in Nat \ {0}
  /\ Procs \cap Slots = {}
  /\ None \notin Files \cup Vnodes \cup {Console} /\ Console \notin Vnodes
  /\ Sizes \subseteq Nat /\ Positions \subseteq Int
  /\ MaxOffset \in Nat /\ INT_MAX \in Nat
  /\ Failures \subseteq {"vop", "copyout", "stat", "lock_create"}

VARIABLES
  vn, offset, countRef,  \* the fields of a struct openfile
  lock,              \* its lock: "absent", "free", or the process that holds it
  fileTable,         \* [Procs -> [Fds -> Files or None]]
  vn_refcount,       \* references to a vnode
  pc,                \* [Procs -> control point]
  of, v, fd, old_fd  \* locals of a system call; fd is the new_fd of dup2

fileVars == <<vn, offset, countRef, lock>>
locals == <<of, v, fd, old_fd>>
vars == <<fileVars, fileTable, vn_refcount, pc, locals>>

(* The shape of the state.                                                 *)
TypeOK ==
  /\ vn \in [Files -> Vnodes \cup {Console, None}]
  /\ offset \in [Files -> Int]
  /\ countRef \in [Files -> Nat]
  /\ lock \in [Files -> {"absent", "free"} \cup Procs]
  /\ fileTable \in [Procs -> [Fds -> Files \cup {None}]]
  /\ vn_refcount \in [Vnodes \cup {Console} -> Nat]
  /\ pc \in [Procs -> {"user", "scan", "claim", "install", "read", "write", "seek", "close",
                       "displace", "dup2", "share", "gone", "panic", "fault"}]
  /\ of \in [Procs -> Files \cup {None}]
  /\ v \in [Procs -> Vnodes \cup {None}]
  /\ fd \in [Procs -> Fds]
  /\ old_fd \in [Procs -> Fds]

(* std_init has run for every process.                                     *)
Init ==
  /\ vn = [o \in Files |-> IF o \in Procs THEN Console ELSE None]
  /\ offset = [o \in Files |-> 0]
  /\ countRef = [o \in Files |-> IF o \in Procs THEN 1 ELSE 0]
  /\ lock = [o \in Files |-> IF o \in Procs THEN "free" ELSE "absent"]
  /\ fileTable = [p \in Procs |-> [f \in Fds |-> IF f = 0 THEN p ELSE None]]
  /\ vn_refcount = [w \in Vnodes \cup {Console} |-> IF w = Console THEN Cardinality(Procs) ELSE 0]
  /\ pc = [p \in Procs |-> "user"]
  /\ of = [p \in Procs |-> None]
  /\ v = [p \in Procs |-> None]
  /\ fd = [p \in Procs |-> 0]
  /\ old_fd = [p \in Procs |-> 0]

Goto(p, point) == pc' = [pc EXCEPT ![p] = point]

(* The call returns; its locals are gone.                                  *)
Return(p) ==
  /\ Goto(p, "user")
  /\ of' = [of EXCEPT ![p] = None]
  /\ v' = [v EXCEPT ![p] = None]
  /\ fd' = [fd EXCEPT ![p] = 0]
  /\ old_fd' = [old_fd EXCEPT ![p] = 0]

(* vfs_close of the vnode w.                                               *)
vfs_close(w) == vn_refcount' = [vn_refcount EXCEPT ![w] = @ - 1]

-----------------------------------------------------------------------------
(* sys_open.                                                               *)

vfs_open(p) ==
  /\ pc[p] = "user"
  /\ \E w \in Vnodes :
       /\ v' = [v EXCEPT ![p] = w]
       /\ vn_refcount' = [vn_refcount EXCEPT ![w] = @ + 1]
  /\ Goto(p, "scan")
  /\ UNCHANGED <<fileVars, fileTable, of, fd, old_fd>>

(* Mutant: any slot is taken.                                              *)
FreeSlotsAny == Slots

FreeSlots == {i \in Slots : vn[i] = None}

(* The loop over systemFileTable up to the test that succeeds; ENFILE.     *)
OpenScan(p) ==
  /\ pc[p] = "scan"
  /\ \/ /\ FreeSlots # {}
        /\ of' = [of EXCEPT ![p] = Min(FreeSlots)]
        /\ Goto(p, "claim")
        /\ UNCHANGED <<vn_refcount, v, fd, old_fd>>
     \/ /\ FreeSlots = {}
        /\ vfs_close(v[p])
        /\ Return(p)
  /\ UNCHANGED <<fileVars, fileTable>>

(* The slot is taken; nothing excludes a second process.                   *)
OpenClaim(p) ==
  /\ pc[p] = "claim"
  /\ vn' = [vn EXCEPT ![of[p]] = v[p]]
  /\ offset' = [offset EXCEPT ![of[p]] = 0]
  /\ Goto(p, "install")
  /\ UNCHANGED <<countRef, lock, fileTable, vn_refcount, locals>>

FreeFds(p) == {f \in Fds : f > STDERR_FILENO /\ fileTable[p][f] = None}

(* The file table of the process.  EMFILE, an error of VOP_STAT and one of *)
(* lock_create drop the vnode, and leave the slot with its vnode pointer.  *)
(* (vfs_open has rejected a wrong access mode.)                            *)
OpenInstall(p) ==
  /\ pc[p] = "install"
  /\ \/ /\ FreeFds(p) # {}
        /\ fileTable' = [fileTable EXCEPT ![p][Min(FreeFds(p))] = of[p]]
        /\ \E size \in Sizes \cup {0} : offset' = [offset EXCEPT ![of[p]] = size]
        /\ lock' = [lock EXCEPT ![of[p]] = "free"]
        /\ countRef' = [countRef EXCEPT ![of[p]] = 1]
        /\ UNCHANGED vn_refcount
     \/ /\ FreeFds(p) = {} \/ "stat" \in Failures
        /\ vfs_close(v[p])
        /\ UNCHANGED <<fileTable, offset, lock, countRef>>
     \/ /\ FreeFds(p) # {} /\ "lock_create" \in Failures
        /\ \E size \in Sizes \cup {0} : offset' = [offset EXCEPT ![of[p]] = size]
        /\ lock' = [lock EXCEPT ![of[p]] = "absent"]
        /\ vfs_close(v[p])
        /\ UNCHANGED <<fileTable, countRef>>
  /\ Return(p)
  /\ UNCHANGED vn

-----------------------------------------------------------------------------
(* lock_acquire(of->lock) at the start of the other calls: it asserts that *)
(* the thread does not hold the lock, and waits if another one does; a     *)
(* lock that is destroyed is used after it is freed.                       *)

Acquire(p, o, f, point) ==
  /\ of' = [of EXCEPT ![p] = o]
  /\ fd' = [fd EXCEPT ![p] = f]
  /\ \/ /\ lock[o] = "free"
        /\ lock' = [lock EXCEPT ![o] = p]
        /\ Goto(p, point)
     \/ /\ lock[o] \in {p, "absent"}
        /\ Goto(p, IF lock[o] = p THEN "panic" ELSE "fault")
        /\ UNCHANGED lock

(* The calls check fd against the table; read and write want a vnode, and  *)
(* lseek asks it, through a pointer that is not checked, whether it seeks. *)
Begin(p, files, point) ==
  /\ pc[p] = "user"
  /\ \E f \in Fds :
       /\ fileTable[p][f] \in files
       /\ Acquire(p, fileTable[p][f], f, point)
  /\ UNCHANGED <<vn, offset, countRef, fileTable, vn_refcount, v, old_fd>>

WithVnode == {o \in Files : vn[o] # None}

sys_read(p)  == Begin(p, WithVnode, "read")
sys_close(p) == Begin(p, Files, "close")
sys_lseek(p) ==
  /\ pc[p] = "user"
  /\ \E f \in Fds :
       LET o == fileTable[p][f] IN
       /\ o # None /\ vn[o] # Console
       /\ IF vn[o] = None THEN Goto(p, "fault") /\ UNCHANGED <<lock, of, fd>>
          ELSE Acquire(p, o, f, "seek")
  /\ UNCHANGED <<vn, offset, countRef, fileTable, vn_refcount, v, old_fd>>

(* sys_write lets fd = OPEN_MAX pass and reads beyond the table.           *)
WriteFds == 0 .. OPEN_MAX

sys_write(p) ==
  \/ Begin(p, WithVnode, "write")
  \/ /\ pc[p] = "user" /\ WriteFds \ Fds # {}
     /\ Goto(p, "fault")
     /\ UNCHANGED <<fileVars, fileTable, vn_refcount, locals>>

-----------------------------------------------------------------------------
(* The calls once they have the lock.                                      *)

Unlock(o) == lock' = [lock EXCEPT ![o] = "free"]

(* read and write move the offset by what they transferred.  On an error   *)
(* of VOP_READ or VOP_WRITE, and after a read whose copyout fails, they    *)
(* return without releasing the lock.                                      *)
Transfer(p) ==
  LET o == of[p] IN
  /\ pc[p] \in {"read", "write"}
  /\ \/ \E size \in Sizes :
          /\ offset[o] + size <= MaxOffset
          /\ offset' = [offset EXCEPT ![o] = @ + size]
          /\ Unlock(o) \/ (pc[p] = "read" /\ "copyout" \in Failures /\ UNCHANGED lock)
     \/ "vop" \in Failures /\ UNCHANGED <<offset, lock>>
  /\ Return(p)
  /\ UNCHANGED <<vn, countRef, fileTable, vn_refcount>>

(* A value of type off_t stored in an int.                                 *)
Int32(n) == ((n + INT_MAX + 1) % (2 * (INT_MAX + 1))) - (INT_MAX + 1)

(* Mutant: a position before the start of the file is accepted.            *)
SeekAny(base, pos) == TRUE

(* The test of SEEK_SET, SEEK_CUR and SEEK_END on pos.                     *)
SeekValid(base, pos) == ~ (pos < 0 /\ -pos > base)

(* lseek from the start, the offset or the end of the file; EINVAL, also   *)
(* for an unknown whence, and an error of VOP_STAT change nothing.         *)
Seek(p) ==
  LET o == of[p] IN
  /\ pc[p] = "seek"
  /\ \/ \E pos \in Positions, base \in Sizes \cup {0, offset[o]} :
          /\ base + pos <= MaxOffset
          /\ SeekValid(base, pos)
          /\ offset' = [offset EXCEPT ![o] = Int32(base + pos)]
     \/ UNCHANGED offset
  /\ Unlock(o)
  /\ Return(p)
  /\ UNCHANGED <<vn, countRef, fileTable, vn_refcount>>

(* Mutant: the last close keeps the reference to the vnode.                *)
DropLastNot(o) == UNCHANGED vn_refcount

(* Mutant: every close drops the vnode.                                    *)
DropEach(o) == vfs_close(vn[o])

(* vfs_close for the last reference to an open file.                       *)
DropLast(o) ==
  IF countRef[o] = 1 THEN vfs_close(vn[o]) ELSE UNCHANGED vn_refcount

(* Mutant: every close destroys the lock.                                  *)
LockAfterEach(o) == "absent"

LockAfter(o) == IF countRef[o] = 1 THEN "absent" ELSE "free"

(* The last close destroys the lock, and leaves the vnode pointer, which   *)
(* is what marks the slot as used.                                         *)
Close(p) ==
  LET o == of[p] IN
  /\ pc[p] = "close"
  /\ countRef' = [countRef EXCEPT ![o] = @ - 1]
  /\ fileTable' = [fileTable EXCEPT ![p][fd[p]] = None]
  /\ DropLast(o)
  /\ lock' = [lock EXCEPT ![o] = LockAfter(o)]
  /\ Return(p)
  /\ UNCHANGED <<vn, offset>>

-----------------------------------------------------------------------------
(* sys_dup2.                                                               *)

(* The checks, and lock_acquire on the file new_fd names, if any.          *)
sys_dup2(p) ==
  /\ pc[p] = "user"
  /\ \E old, new \in Fds :
       /\ fileTable[p][old] # None /\ old # new
       /\ old_fd' = [old_fd EXCEPT ![p] = old]
       /\ \/ /\ fileTable[p][new] # None
             /\ Acquire(p, fileTable[p][new], new, "displace")
          \/ /\ fileTable[p][new] = None
             /\ fd' = [fd EXCEPT ![p] = new]
             /\ Goto(p, "dup2")
             /\ UNCHANGED <<lock, of>>
  /\ UNCHANGED <<vn, offset, countRef, fileTable, vn_refcount, v>>

(* The file that new_fd named is closed; here the last close frees the     *)
(* slot and keeps the lock.                                                *)
Displace(p) ==
  LET o == of[p] IN
  /\ pc[p] = "displace"
  /\ fileTable' = [fileTable EXCEPT ![p][fd[p]] = None]
  /\ countRef' = [countRef EXCEPT ![o] = @ - 1]
  /\ vn' = [vn EXCEPT ![o] = IF countRef[o] = 1 THEN None ELSE @]
  /\ DropLast(o)
  /\ Unlock(o)
  /\ Goto(p, "dup2")
  /\ UNCHANGED <<offset, locals>>

Dup2Lock(p) ==
  /\ pc[p] = "dup2"
  /\ Acquire(p, fileTable[p][old_fd[p]], fd[p], "share")
  /\ UNCHANGED <<vn, offset, countRef, fileTable, vn_refcount, v, old_fd>>

(* Mutant: the new reference is not counted.                               *)
CountAsBefore(o) == countRef[o]

CountAnother(o) == countRef[o] + 1

Share(p) ==
  LET o == of[p] IN
  /\ pc[p] = "share"
  /\ countRef' = [countRef EXCEPT ![o] = CountAnother(o)]
  /\ Unlock(o)
  /\ fileTable' = [fileTable EXCEPT ![p][fd[p]] = o]
  /\ Return(p)
  /\ UNCHANGED <<vn, offset, vn_refcount>>

-----------------------------------------------------------------------------
(* sys__exit and proc_destroy do not close the files of the process.       *)
Exit(p) ==
  /\ pc[p] = "user"
  /\ Goto(p, "gone")
  /\ UNCHANGED <<fileVars, fileTable, vn_refcount, locals>>

Next == \E p \in Procs :
  \/ vfs_open(p) \/ OpenScan(p) \/ OpenClaim(p) \/ OpenInstall(p)
  \/ sys_read(p) \/ sys_write(p) \/ Transfer(p)
  \/ sys_lseek(p) \/ Seek(p)
  \/ sys_close(p) \/ Close(p)
  \/ sys_dup2(p) \/ Displace(p) \/ Dup2Lock(p) \/ Share(p)
  \/ Exit(p)

Spec == Init /\ [][Next]_vars

-----------------------------------------------------------------------------
(* Properties.                                                             *)

(* The handles that name o.                                                *)
Handles(o) == {h \in Procs \X Fds : fileTable[h[1]][h[2]] = o}

(* The reference count of an open file is the number of handles that name  *)
(* it, so that the last close, and no other, drops its vnode.              *)
CountsHandles == \A o \in Files : countRef[o] = Cardinality(Handles(o))

(* Every vnode is referenced once for each open file that holds it and     *)
(* each call of open that is under way, whatever errors came between.      *)
CountsVnodes ==
  \A w \in Vnodes \cup {Console} :
    vn_refcount[w] = Cardinality({o \in Files : vn[o] = w /\ countRef[o] > 0})
                     + Cardinality({p \in Procs : v[p] = w})

(* Both counts are exact: the last close of a file, and no other, drops    *)
(* its vnode, and the vnode goes when nobody has it.                       *)
CountsExact == CountsHandles /\ CountsVnodes

(* A handle names an open file: it has a vnode and a lock, and no other    *)
(* file of the table is taken for it.                                      *)
HandlesAreOpen ==
  \A p \in Procs, f \in Fds :
    fileTable[p][f] # None =>
      LET o == fileTable[p][f] IN vn[o] # None /\ lock[o] # "absent"

(* A handle keeps naming the file that open gave it until the process      *)
(* closes it or puts another there with dup2: no other call changes the    *)
(* vnode behind it.  (Not so when two processes race for a slot in open.)  *)
HandlesKeepTheirFile ==
  [][\A p \in Procs, f \in Fds :
       fileTable[p][f] # None /\ fileTable'[p][f] = fileTable[p][f]
         => vn'[fileTable[p][f]] = vn[fileTable[p][f]]]_vars

(* lseek(2): seek positions less than zero are invalid.                    *)
OffsetsNotNegative == \A o \in Files : offset[o] >= 0

(* lseek(2): each distinct open of a file has an independent seek pointer, *)
(* so two processes never share an open file.                              *)
IndependentOpens ==
  \A o \in Files : \A g, h \in Handles(o) : g[1] = h[1]

(* open(2): ENFILE means that the system file table is full.  A slot that  *)
(* is in use is named by a handle, or its open is under way.               *)
EnfileOnlyWhenFull ==
  FreeSlots = {} =>
    \A i \in Slots : Handles(i) # {} \/ \E p \in Procs : of[p] = i

(* lock_acquire asserts that the thread does not hold the lock.            *)
AcquireAssertion == \A p \in Procs : pc[p] # "panic"

(* write(2): EBADF for an fd that is not a valid file handle.              *)
WritesThroughHandles == \A p \in Procs : pc[p] # "fault"
=============================================================================
