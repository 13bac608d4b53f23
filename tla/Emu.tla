-------------------------------- MODULE Emu --------------------------------
(***************************************************************************)
(* The emulator pass-through file system (kern/dev/lamebus/emu.c): a       *)
(* device with one set of registers, used under e_lock and answering by an *)
(* interrupt that does V(e_sem); and the vnodes kept for the handles the   *)
(* device gives out, counted by references (kern/vfs/vnode.c).             *)
(*                                                                         *)
(* VOP_LOOKUP is called by vfs_lookup under vfs_biglock; VOP_CREAT is      *)
(* called by vfs_open without it.  A vnode is known by its handle; it is   *)
(* in ef_vnodes when its count is positive.  What the device does is not   *)
(* in the repository: plan.fresh says whether it gives out a new handle    *)
(* for every open, or the same one for a file that is open already;        *)
(* plan.creat, whether files are opened by VOP_CREAT too.                  *)
(***************************************************************************)
EXTENDS Naturals, FiniteSets

CONSTANTS Thread, Handle, Dirs,   \* Dirs: the handles that are directories
          Plans,                  \* sets of [fresh, creat : BOOLEAN]
          Retries,                \* how often emu_close tries again (10)
          MaxFaults, MaxNoMem,    \* media errors and failed allocations
          MaxOps                  \* operations per thread

VARIABLES plan, pc, job,  \* per thread: where it is, [op, h, lookup]
          ref,            \* per thread: the vnode it holds a reference to, or 0
          retries,        \* per thread: in emu_close
          stuck,          \* per thread: loadvnode left it with vfs_biglock
          vn_refcount,    \* per handle; 0 = no such vnode
          unreclaimed,    \* per handle: references left by a failed reclaim
          big,            \* vfs_biglock: [owner, depth]
          e_lock, e_sem, e_result,
          reg,            \* the device: [by, op, h, st, res]
          opened,         \* the handles that are open in the device
          ops,            \* per thread: operations begun
          faults, nomem, panicked

vars == <<plan, ops, pc, job, ref, retries, stuck, vn_refcount, unreclaimed, big,
          e_lock, e_sem, e_result, reg, opened, faults, nomem, panicked>>
device == <<e_sem, e_result, reg, opened, faults>>
vnodes == <<ref, vn_refcount, unreclaimed>>

NoRequest == [by |-> 0, op |-> "none", h |-> 0, st |-> "idle", res |-> "none"]
NoJob == [op |-> "none", h |-> 0, lookup |-> FALSE]

Init ==
  /\ plan \in Plans
  /\ pc = [t \in Thread |-> "user"] /\ job = [t \in Thread |-> NoJob]
  /\ ref = [t \in Thread |-> 0] /\ retries = [t \in Thread |-> 0]
  /\ stuck = [t \in Thread |-> FALSE]
  /\ vn_refcount = [h \in Handle |-> 0] /\ unreclaimed = [h \in Handle |-> 0]
  /\ big = [owner |-> 0, depth |-> 0] /\ e_lock = 0 /\ e_sem = 0 /\ e_result = "none"
  /\ reg = NoRequest
  /\ ops = [t \in Thread |-> 0]
  /\ opened = {} /\ faults = 0 /\ nomem = 0 /\ panicked = FALSE

Goto(t, l) == pc' = [pc EXCEPT ![t] = l]

Begin(t) == ops[t] < MaxOps /\ ops' = [ops EXCEPT ![t] = @ + 1]

ReleaseBig(n) == big' = IF big.depth = n THEN [owner |-> 0, depth |-> 0]
                        ELSE [big EXCEPT !.depth = @ - n]
Held(t) == IF job[t].lookup THEN 1 ELSE 0

(***************************************************************************)
(* The operations tables: what each operation on a vnode comes to, a       *)
(* request to the device or an answer without one.                         *)
(***************************************************************************)
Requests == {"read", "write", "readdir", "getsize", "trunc"}

emufs_fileops ==
  [read |-> "read", write |-> "write", stat |-> "getsize", truncate |-> "trunc",
   getdirentry |-> "ENOTDIR", namefile |-> "ENOTDIR", fsync |-> "OK",
   mmap |-> "ENOSYS", ioctl |-> "EINVAL", remove |-> "ENOTDIR"]

emufs_dirops ==
  [read |-> "EISDIR", write |-> "EISDIR", stat |-> "getsize", truncate |-> "ENOTDIR",
   getdirentry |-> "readdir", namefile |-> "ENOSYS", fsync |-> "EISDIR",
   mmap |-> "EISDIR", ioctl |-> "EINVAL", remove |-> "ENOSYS"]

VopTable(h) == IF h \in Dirs THEN emufs_dirops ELSE emufs_fileops

(* Operations the device is not asked for change nothing and are left out. *)
Vop(t) ==
  /\ pc[t] = "user" /\ Begin(t) /\ ref[t] # 0
  /\ \E o \in DOMAIN VopTable(ref[t]) :
       /\ VopTable(ref[t])[o] \in Requests
       /\ job' = [job EXCEPT ![t] = [op |-> VopTable(ref[t])[o], h |-> ref[t], lookup |-> FALSE]]
  /\ Goto(t, "lock")
  /\ UNCHANGED <<plan, retries, stuck, vnodes, big, e_lock, device, nomem, panicked>>

(* vfs_lookup takes vfs_biglock and calls emufs_lookup; vfs_open calls     *)
(* emufs_creat.  Both go to emu_open and emufs_loadvnode.                  *)
emufs_lookup(t) ==
  /\ pc[t] = "user" /\ Begin(t) /\ ref[t] = 0 /\ big.owner \in {0, t}
  /\ big' = [owner |-> t, depth |-> big.depth + 1]
  /\ job' = [job EXCEPT ![t] = [op |-> "open", h |-> 0, lookup |-> TRUE]] /\ Goto(t, "lock")
  /\ UNCHANGED <<plan, retries, stuck, vnodes, e_lock, device, nomem, panicked>>

emufs_creat(t) ==
  /\ pc[t] = "user" /\ Begin(t) /\ ref[t] = 0 /\ plan.creat
  /\ job' = [job EXCEPT ![t] = [op |-> "open", h |-> 0, lookup |-> FALSE]] /\ Goto(t, "lock")
  /\ UNCHANGED <<plan, retries, stuck, vnodes, big, e_lock, device, nomem, panicked>>

(* The last reference is not given up but passed on to VOP_RECLAIM. *)
vnode_decref(t) ==
  /\ pc[t] = "user" /\ Begin(t) /\ ref[t] # 0
  /\ IF vn_refcount[ref[t]] > 1
     THEN /\ vn_refcount' = [vn_refcount EXCEPT ![ref[t]] = @ - 1]
          /\ ref' = [ref EXCEPT ![t] = 0] /\ UNCHANGED <<job, pc>>
     ELSE /\ job' = [job EXCEPT ![t] = [op |-> "close", h |-> ref[t], lookup |-> FALSE]]
          /\ Goto(t, "big") /\ UNCHANGED <<vn_refcount, ref>>
  /\ retries' = [retries EXCEPT ![t] = 0]
  /\ UNCHANGED <<plan, stuck, unreclaimed, big, e_lock, device, nomem, panicked>>

(* emufs_loadvnode and emufs_reclaim begin with vfs_biglock_acquire. *)
TakeBig(t) ==
  /\ pc[t] = "big" /\ big.owner \in {0, t}
  /\ big' = [owner |-> t, depth |-> big.depth + 1] /\ Goto(t, "lock")
  /\ UNCHANGED <<plan, ops, job, retries, stuck, vnodes, e_lock, device, nomem, panicked>>

(* Every request to the device begins with lock_acquire(e_lock). *)
TakeLock(t) ==
  /\ pc[t] = "lock" /\ job[t].op \notin {"load", "close"} /\ e_lock = 0
  /\ e_lock' = t /\ Goto(t, "issue")
  /\ UNCHANGED <<plan, ops, job, retries, stuck, vnodes, big, device, nomem, panicked>>

(* With the locks held: somebody may have found the vnode since vnode_decref *)
(* looked at its count.                                                    *)
emufs_reclaim(t) ==
  /\ pc[t] = "lock" /\ job[t].op = "close" /\ e_lock = 0
  /\ IF vn_refcount[job[t].h] > 1
     THEN /\ vn_refcount' = [vn_refcount EXCEPT ![job[t].h] = @ - 1]
          /\ ref' = [ref EXCEPT ![t] = 0] /\ job' = [job EXCEPT ![t] = NoJob]
          /\ ReleaseBig(1) /\ Goto(t, "user") /\ UNCHANGED e_lock
     ELSE /\ e_lock' = t /\ Goto(t, "issue") /\ UNCHANGED <<job, big, ref, vn_refcount>>
  /\ UNCHANGED <<plan, ops, retries, stuck, unreclaimed, device, nomem, panicked>>

(* emufs_loadvnode: the vnode of this handle is found, or made; when       *)
(* kmalloc fails vfs_biglock is not released, when vnodearray_add fails it *)
(* is, and either way the caller closes the handle.                        *)
emufs_loadvnode(t) ==
  /\ pc[t] = "lock" /\ job[t].op = "load" /\ e_lock = 0
  /\ \/ /\ vn_refcount' = [vn_refcount EXCEPT ![job[t].h] = @ + 1]
        /\ ref' = [ref EXCEPT ![t] = job[t].h]
        /\ ReleaseBig(1 + Held(t)) /\ Goto(t, "user") /\ job' = [job EXCEPT ![t] = NoJob]
        /\ UNCHANGED <<stuck, nomem, retries>>
     \/ /\ vn_refcount[job[t].h] = 0 /\ nomem < MaxNoMem /\ nomem' = nomem + 1
        /\ \/ ReleaseBig(1) /\ UNCHANGED stuck
           \/ stuck' = [stuck EXCEPT ![t] = TRUE] /\ UNCHANGED big
        /\ job' = [job EXCEPT ![t].op = "undo"] /\ retries' = [retries EXCEPT ![t] = 0]
        /\ UNCHANGED <<vn_refcount, ref, pc>>
  /\ UNCHANGED <<plan, ops, unreclaimed, e_lock, device, panicked>>

(* The registers are written, the operation register last. *)
Issue(t) ==
  /\ pc[t] = "issue"
  /\ reg' = [by |-> t, op |-> job[t].op, h |-> job[t].h, st |-> "working", res |-> "none"]
  /\ Goto(t, "wait")
  /\ UNCHANGED <<plan, ops, job, retries, stuck, vnodes, big, e_lock, e_sem, e_result,
                 opened, faults, nomem, panicked>>

(* The device, then its interrupt. *)
Complete ==
  /\ reg.st = "working"
  /\ \/ /\ reg.op = "open"
        /\ \E h \in IF ~plan.fresh /\ opened # {} THEN opened ELSE Handle \ opened :
             opened' = opened \cup {h}
             /\ reg' = [reg EXCEPT !.st = "done", !.res = "OK", !.h = h]
        /\ UNCHANGED faults
     \/ /\ reg.op = "open" /\ opened = Handle
        /\ reg' = [reg EXCEPT !.st = "done", !.res = "ENFILE"] /\ UNCHANGED <<opened, faults>>
     \/ /\ reg.op # "open"
        /\ reg' = [reg EXCEPT !.st = "done",
                     !.res = IF reg.h \in opened THEN "OK" ELSE "BADHANDLE"]
        /\ opened' = (IF reg.op \in {"close", "undo"} THEN opened \ {reg.h} ELSE opened)
        /\ UNCHANGED faults
     \/ /\ faults < MaxFaults /\ faults' = faults + 1
        /\ reg' = [reg EXCEPT !.st = "done", !.res = "EIO"] /\ UNCHANGED opened
  /\ UNCHANGED <<plan, ops, pc, job, retries, stuck, vnodes, big, e_lock, e_sem, e_result,
                 nomem, panicked>>

emu_irq ==
  /\ reg.st = "done" /\ e_result' = reg.res /\ reg' = [reg EXCEPT !.st = "idle"]
  /\ e_sem' = e_sem + 1
  /\ UNCHANGED <<plan, ops, pc, job, retries, stuck, vnodes, big, e_lock, opened, faults,
                 nomem, panicked>>

(* emu_waitdone and what follows it: a bad handle is a panic; an opened    *)
(* handle goes to emufs_loadvnode; a close is tried again after EIO; and   *)
(* the vnode of a closed handle is removed.                                *)
Leave(t, n) == ReleaseBig(n) /\ Goto(t, "user") /\ job' = [job EXCEPT ![t] = NoJob]

emu_waitdone(t) ==
  /\ pc[t] = "wait" /\ e_sem > 0 /\ e_sem' = e_sem - 1 /\ reg' = NoRequest
  /\ panicked' = (e_result = "BADHANDLE")
  /\ \/ /\ job[t].op = "open" /\ e_result = "OK" /\ e_lock' = 0 /\ Goto(t, "big")
        /\ job' = [job EXCEPT ![t].op = "load", ![t].h = reg.h]
        /\ UNCHANGED <<big, retries, vnodes>>
     \/ /\ job[t].op \in Requests \/ (job[t].op = "open" /\ e_result # "OK")
        /\ e_lock' = 0 /\ Leave(t, Held(t)) /\ UNCHANGED <<retries, vnodes>>
     \/ /\ job[t].op \in {"close", "undo"} /\ e_result = "EIO" /\ retries[t] < Retries
        /\ retries' = [retries EXCEPT ![t] = @ + 1] /\ Goto(t, "issue")
        /\ UNCHANGED <<job, big, e_lock, vnodes>>
     \/ /\ job[t].op = "undo" /\ ~(e_result = "EIO" /\ retries[t] < Retries)
        /\ e_lock' = 0 /\ Leave(t, Held(t)) /\ UNCHANGED <<retries, vnodes>>
     \/ /\ job[t].op = "close" /\ ~(e_result = "EIO" /\ retries[t] < Retries)
        /\ ref' = [ref EXCEPT ![t] = 0]
        /\ IF e_result = "OK"
           THEN vn_refcount' = [vn_refcount EXCEPT ![job[t].h] = 0] /\ UNCHANGED unreclaimed
           ELSE unreclaimed' = [unreclaimed EXCEPT ![job[t].h] = @ + 1] /\ UNCHANGED vn_refcount
        /\ e_lock' = 0 /\ Leave(t, 1) /\ UNCHANGED retries
  /\ UNCHANGED <<plan, ops, stuck, e_result, opened, faults, nomem>>

Step(t) == \/ TakeBig(t) \/ TakeLock(t) \/ emufs_reclaim(t) \/ emufs_loadvnode(t)
           \/ Issue(t) \/ emu_waitdone(t)

Next == /\ ~panicked
        /\ \/ \E t \in Thread : \/ Vop(t) \/ emufs_lookup(t) \/ emufs_creat(t)
                                \/ vnode_decref(t) \/ Step(t)
           \/ Complete \/ emu_irq

(* Runnable threads run, and the device answers. *)
Spec == /\ Init /\ [][Next]_vars
        /\ \A t \in Thread : WF_vars(Step(t))
        /\ WF_vars(Complete) /\ WF_vars(emu_irq)

(***************************************************************************)
(* Properties.                                                             *)
(***************************************************************************)
(* A vnode's count is the number of references there are, those a failed   *)
(* reclaim left behind included; and the vnodes in the table are of        *)
(* handles that are open in the device, so no operation meets the panic of *)
(* translate_err.  The second is not so of a device that shares handles,   *)
(* when files are opened by VOP_CREAT: without vfs_biglock another thread  *)
(* may close the handle between emu_open and emufs_loadvnode.              *)
VnodesAreOpen ==
  /\ \A h \in Handle :
       vn_refcount[h] = Cardinality({t \in Thread : ref[t] = h}) + unreclaimed[h]
  /\ plan.fresh \/ ~plan.creat =>
       /\ ~panicked
       /\ \A h \in Handle : vn_refcount[h] > 0 =>
            h \in opened \/ \E t \in Thread : job[t] = [op |-> "close", h |-> h, lookup |-> FALSE]

(* The answer a thread wakes up for is the answer to its own request, and  *)
(* only the thread with e_lock has one out.                                *)
AnswersMatch ==
  /\ e_sem + (IF reg.st = "idle" THEN 0 ELSE 1) =
       Cardinality({t \in Thread : pc[t] = "wait"})
  /\ \A t \in Thread : pc[t] \in {"issue", "wait"} => e_lock = t
  /\ \A t \in Thread : pc[t] = "wait" => reg.by = t

(* The device is never asked to read or write a directory as a file, or to *)
(* list a file.                                                            *)
DirectoriesApart ==
  reg.h \in opened =>
    /\ reg.op \in {"read", "write", "trunc"} => reg.h \notin Dirs
    /\ reg.op = "readdir" => reg.h \in Dirs

(* Back in its caller a thread holds neither lock, except that             *)
(* emufs_loadvnode keeps vfs_biglock when kmalloc fails.                   *)
LocksGivenBack ==
  \A t \in Thread : pc[t] = "user" => e_lock # t /\ (big.owner = t => stuck[t])

(* Unless that happened, every operation returns: the two locks are always *)
(* taken in the same order.                                                *)
Asked(t) == pc[t] # "user"
Answered(t) == pc[t] = "user" \/ \E u \in Thread : stuck[u]
OperationsReturn == \A t \in Thread : Asked(t) ~> Answered(t)
=============================================================================
