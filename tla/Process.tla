------------------------------ MODULE Process -------------------------------
(***************************************************************************)
(* The life of a process: the process table and the family tree of         *)
(* proc/proc.c, fork, _exit and waitpid of syscall/proc_syscalls.c, and    *)
(* the menu thread that starts programs and waits for them (main/menu.c).  *)
(*                                                                         *)
(* A process has one thread, which is named by the process; the menu       *)
(* thread belongs to KProc.  A name stands for one life of a struct proc:  *)
(* after proc_destroy the struct is "freed" for good, and a thread that    *)
(* still uses it stops in "fault".  Pids are used again.                   *)
(*                                                                         *)
(* Threads are preempted between any two steps.  p_locklock and p_cv obey  *)
(* the atomic monitor of Monitor.tla, which synch.c implements.            *)
(***************************************************************************)
EXTENDS Integers

CONSTANTS
  Procs,             \* the processes that may be created
  KProc,             \* kproc, whose pid is 0 and whose thread is the menu
  NoProc,            \* the null pointer
  MAX_PROC,
  Forkers,           \* the processes whose programs call fork
  Options,           \* how programs call waitpid: plain, WNOHANG, nostatus
  Failures           \* the allocations that may fail

AllProcs == Procs \cup {KProc}
Pids == 1 .. MAX_PROC

ASSUME ProcessAssumption ==
  /\ KProc \notin Procs /\ NoProc \notin AllProcs
  /\ MAX_PROC \in Nat \ {0}
  /\ Forkers \subseteq Procs
  /\ Options \subseteq {"plain", "WNOHANG", "nostatus"}
  /\ Failures \subseteq {"proc_create", "cv_create", "std_init", "as_copy", "thread_fork", "runprogram"}

VARIABLES
  table,             \* processTable.proc[1..MAX_PROC]
  last_pid,          \* processTable.last_pid
  stage,             \* [AllProcs -> "unused", "live" or "freed"]
  p_pid, father_pid, child_list, p_numthreads, p_status,
  lk_owner,          \* [AllProcs -> thread that holds its p_locklock]
  cv_waiters,        \* [AllProcs -> threads in cv_wait on its p_cv]
  pc,                \* [AllProcs -> control point of its thread]
  new,               \* newproc of sys_fork or common_prog
  idx,               \* the index i of sys_fork, the pid of sys_waitpid
  target,            \* the process waitpid or proc_destroy works on
  got                \* the process the last call, a waitpid, reported

tableVars == <<table, last_pid>>
treeVars  == <<stage, p_pid, father_pid, child_list>>
runVars   == <<p_numthreads, p_status>>
monVars   == <<lk_owner, cv_waiters>>
locals    == <<new, idx, target, got>>
vars == <<tableVars, treeVars, runVars, monVars, pc, locals>>

Points == {"none", "menu", "start", "user",
           "create", "copy", "add_newp", "thread_fork",
           "exit", "exit_lock", "exit_signal", "exit_unlock", "done",
           "search", "check", "wait_lock", "wait", "asleep", "wait_relock",
           "wait_unlock", "destroy", "unlink", "panic", "fault"}

(* The shape of the state.                                                 *)
TypeOK ==
  /\ table \in [Pids -> Procs \cup {NoProc}]
  /\ last_pid \in 0 .. MAX_PROC
  /\ stage \in [AllProcs -> {"unused", "live", "freed"}]
  /\ p_pid \in [AllProcs -> 0 .. MAX_PROC]
  /\ father_pid \in [AllProcs -> -1 .. MAX_PROC]
  /\ child_list \in [AllProcs -> SUBSET Pids]
  /\ p_numthreads \in [AllProcs -> 0 .. 1]
  /\ p_status \in [AllProcs -> {"initial", "exited"}]
  /\ lk_owner \in [AllProcs -> AllProcs \cup {NoProc}]
  /\ cv_waiters \in [AllProcs -> SUBSET AllProcs]
  /\ pc \in [AllProcs -> Points]
  /\ new \in [AllProcs -> Procs \cup {NoProc}]
  /\ idx \in [AllProcs -> 0 .. MAX_PROC]
  /\ target \in [AllProcs -> Procs \cup {NoProc}]
  /\ got \in [AllProcs -> Procs \cup {NoProc}]

(* proc_bootstrap; the menu thread is the only one.  proc_create does not  *)
(* call proc_init for kproc: its p_pid and child_list are what kmalloc     *)
(* returned, which at boot is RAM that nothing has written, so zero.       *)
Init ==
  /\ table = [i \in Pids |-> NoProc]
  /\ last_pid = 0
  /\ stage = [p \in AllProcs |-> IF p = KProc THEN "live" ELSE "unused"]
  /\ p_pid = [p \in AllProcs |-> 0]
  /\ father_pid = [p \in AllProcs |-> -1]
  /\ child_list = [p \in AllProcs |-> {}]
  /\ p_numthreads = [p \in AllProcs |-> IF p = KProc THEN 1 ELSE 0]
  /\ p_status = [p \in AllProcs |-> "initial"]
  /\ lk_owner = [p \in AllProcs |-> NoProc]
  /\ cv_waiters = [p \in AllProcs |-> {}]
  /\ pc = [p \in AllProcs |-> IF p = KProc THEN "menu" ELSE "none"]
  /\ new = [p \in AllProcs |-> NoProc]
  /\ idx = [p \in AllProcs |-> 0]
  /\ target = [p \in AllProcs |-> NoProc]
  /\ got = [p \in AllProcs |-> NoProc]

Goto(p, point) == pc' = [pc EXCEPT ![p] = point]

(* Where a system call, or a menu command, returns to.                     *)
Home(p) == IF p = KProc THEN "menu" ELSE "user"

(* Its local variables are gone then.                                      *)
Return(p) ==
  /\ Goto(p, Home(p))
  /\ new' = [new EXCEPT ![p] = NoProc]
  /\ idx' = [idx EXCEPT ![p] = 0]
  /\ target' = [target EXCEPT ![p] = NoProc]

-----------------------------------------------------------------------------
(* The process table.                                                      *)

(* Mutant: the search takes the next entry, used or not.                   *)
CandidatesAny == Pids \ {last_pid}

(* The search of get_valid_pid and proc_init: from last_pid + 1 on, around *)
(* the end of the table, up to but not including last_pid.  FirstFree is   *)
(* the entry it stops at, if there is one.                                 *)
Distance(i) == (i - last_pid - 1) % MAX_PROC
Candidates == {i \in Pids \ {last_pid} : table[i] = NoProc}
FirstFree == {i \in Candidates : \A j \in Candidates : Distance(i) <= Distance(j)}

(* proc_search_pid: the entry if it has this pid, which a freed struct no  *)
(* longer has (kfree overwrites it); a null entry is dereferenced.         *)
Finds(pid, q) ==
  pid \in Pids /\ table[pid] = q /\ q \in Procs /\ stage[q] = "live" /\ p_pid[q] = pid
Crashes(pid)  == pid \in Pids /\ table[pid] = NoProc

(* proc_init, under processTable.lk.                                       *)
Enter(n) ==
  \E i \in FirstFree :
    /\ table' = [table EXCEPT ![i] = n]
    /\ p_pid' = [p_pid EXCEPT ![n] = i]
    /\ last_pid' = i

(* proc_create_runprogram for thread p.  With no entry left proc_init      *)
(* fails, as kmalloc may before it.  When p_cv or p_locklock cannot be     *)
(* created, proc_create frees the struct and leaves its entry in the       *)
(* table; when std_init fails, the process stays in the table and nobody   *)
(* knows it.                                                               *)
proc_create_runprogram(p) ==
  \/ /\ Candidates = {} \/ "proc_create" \in Failures
     /\ Return(p)
     /\ UNCHANGED <<tableVars, treeVars>>
  \/ /\ \E n \in Procs :
          /\ stage[n] = "unused"
          /\ Enter(n)
          /\ \/ /\ stage' = [stage EXCEPT ![n] = "live"]
                /\ new' = [new EXCEPT ![p] = n]
                /\ Goto(p, "copy")
                /\ UNCHANGED <<idx, target>>
             \/ /\ "cv_create" \in Failures
                /\ stage' = [stage EXCEPT ![n] = "freed"]
                /\ Return(p)
             \/ /\ "std_init" \in Failures
                /\ stage' = [stage EXCEPT ![n] = "live"]
                /\ Return(p)
     /\ UNCHANGED <<father_pid, child_list>>

(* add_new_child and father_pid.                                           *)
Adopt(p, n) ==
  /\ child_list' = [child_list EXCEPT ![p] = @ \cup {p_pid[n]}]
  /\ father_pid' = [father_pid EXCEPT ![n] = p_pid[p]]

-----------------------------------------------------------------------------
(* The menu: common_prog and cmd_progthread.                               *)

(* proc_create_runprogram of common_prog.                                  *)
common_prog ==
  /\ pc[KProc] = "menu"
  /\ proc_create_runprogram(KProc)
  /\ got' = [got EXCEPT ![KProc] = NoProc]
  /\ UNCHANGED <<runVars, monVars>>

(* cmd_progthread: runprogram enters the program, or fails and the thread  *)
(* leaves through thread_exit, which detaches it from its process.         *)
cmd_progthread(p) ==
  /\ pc[p] = "start"
  /\ \/ /\ Goto(p, "user")
        /\ UNCHANGED p_numthreads
     \/ /\ "runprogram" \in Failures
        /\ p_numthreads' = [p_numthreads EXCEPT ![p] = 0]
        /\ Goto(p, "done")
  /\ UNCHANGED <<tableVars, treeVars, p_status, monVars, locals>>

-----------------------------------------------------------------------------
(* sys_fork.                                                               *)

(* get_valid_pid reads the table without its lock; ENPROC when it finds    *)
(* nothing.                                                                *)
get_valid_pid(p) ==
  /\ pc[p] = "user" /\ p \in Forkers
  /\ \E i \in FirstFree : idx' = [idx EXCEPT ![p] = i]
  /\ got' = [got EXCEPT ![p] = NoProc]
  /\ Goto(p, "create")
  /\ UNCHANGED <<tableVars, treeVars, runVars, monVars, new, target>>

ENPROC(p) ==
  /\ pc[p] = "user" /\ p \in Forkers
  /\ Candidates = {}
  /\ UNCHANGED vars

ForkCreate(p) ==
  /\ pc[p] = "create"
  /\ proc_create_runprogram(p)
  /\ UNCHANGED <<runVars, monVars, got>>

(* as_copy, the trapframe, and add_new_child and father_pid, which         *)
(* common_prog has too.  A failure destroys the new process.               *)
Copy(p) ==
  /\ pc[p] = "copy"
  /\ \/ /\ Adopt(p, new[p])
        /\ Goto(p, IF p = KProc THEN "thread_fork" ELSE "add_newp")
        /\ UNCHANGED target
     \/ /\ "as_copy" \in Failures
        /\ target' = [target EXCEPT ![p] = new[p]]
        /\ Goto(p, "destroy")
        /\ UNCHANGED <<father_pid, child_list>>
  /\ UNCHANGED <<tableVars, stage, p_pid, runVars, monVars, new, idx, got>>

add_newp(p) ==
  /\ pc[p] = "add_newp"
  /\ table' = [table EXCEPT ![idx[p]] = new[p]]
  /\ last_pid' = idx[p]
  /\ Goto(p, "thread_fork")
  /\ UNCHANGED <<treeVars, runVars, monVars, locals>>

(* thread_fork.  The child of a fork starts in its program, the menu's     *)
(* program in cmd_progthread, and the menu waits for it.                   *)
thread_fork(p) ==
  /\ pc[p] = "thread_fork"
  /\ \/ /\ p_numthreads' = [p_numthreads EXCEPT ![new[p]] = 1]
        /\ pc' = [pc EXCEPT ![p] = IF p = KProc THEN "search" ELSE "user",
                            ![new[p]] = IF p = KProc THEN "start" ELSE "user"]
        /\ idx' = [idx EXCEPT ![p] = IF p = KProc THEN p_pid[new[p]] ELSE 0]
        /\ new' = [new EXCEPT ![p] = NoProc]
        /\ UNCHANGED target
     \/ /\ "thread_fork" \in Failures
        /\ target' = [target EXCEPT ![p] = new[p]]
        /\ Goto(p, "destroy")
        /\ UNCHANGED <<p_numthreads, new, idx>>
  /\ UNCHANGED <<tableVars, treeVars, p_status, monVars, got>>

-----------------------------------------------------------------------------
(* sys__exit, also the end of kill_curthread.                              *)

sys__exit(p) ==
  /\ pc[p] = "user"
  /\ p_status' = [p_status EXCEPT ![p] = "exited"]
  /\ got' = [got EXCEPT ![p] = NoProc]
  /\ Goto(p, "exit")
  /\ UNCHANGED <<tableVars, treeVars, p_numthreads, monVars, new, idx, target>>

proc_remthread(p) ==
  /\ pc[p] = "exit"
  /\ p_numthreads' = [p_numthreads EXCEPT ![p] = 0]
  /\ Goto(p, "exit_lock")
  /\ UNCHANGED <<tableVars, treeVars, p_status, monVars, locals>>

ExitLock(p) ==
  /\ pc[p] = "exit_lock" /\ stage[p] = "live"
  /\ lk_owner[p] = NoProc
  /\ lk_owner' = [lk_owner EXCEPT ![p] = p]
  /\ Goto(p, "exit_signal")
  /\ UNCHANGED <<tableVars, treeVars, runVars, cv_waiters, locals>>

ExitSignal(p) ==
  /\ pc[p] = "exit_signal" /\ stage[p] = "live"
  /\ \/ /\ cv_waiters[p] = {}
        /\ Goto(p, "exit_unlock")
        /\ UNCHANGED cv_waiters
     \/ \E w \in cv_waiters[p] :
          /\ cv_waiters' = [cv_waiters EXCEPT ![p] = @ \ {w}]
          /\ pc' = [pc EXCEPT ![p] = "exit_unlock", ![w] = "wait_relock"]
  /\ UNCHANGED <<tableVars, treeVars, runVars, lk_owner, locals>>

(* lock_release, and thread_exit, which has nothing left to detach.        *)
ExitUnlock(p) ==
  /\ pc[p] = "exit_unlock" /\ stage[p] = "live"
  /\ lk_owner' = [lk_owner EXCEPT ![p] = NoProc]
  /\ Goto(p, "done")
  /\ UNCHANGED <<tableVars, treeVars, runVars, cv_waiters, locals>>

-----------------------------------------------------------------------------
(* sys_waitpid.                                                            *)

(* The child of p with this pid, if there is one.                          *)
ChildWith(p, pid) ==
  {q \in Procs : stage[q] = "live" /\ p_pid[q] = pid /\ father_pid[q] = p_pid[p]}

(* Mutant: any process may be waited for.                                  *)
MayWaitForAny(p, pid) == pid # p_pid[p]

(* The checks on pid: not the caller's, and is_child.                      *)
MayWaitFor(p, pid) == pid # p_pid[p] /\ pid \in child_list[p]

(* A call that returns an error leaves nothing behind.                     *)
WaitRefused(p) ==
  /\ pc[p] = "user"
  /\ \E pid \in Pids : ~ MayWaitFor(p, pid)
  /\ got' = [got EXCEPT ![p] = NoProc]
  /\ UNCHANGED <<tableVars, treeVars, runVars, monVars, pc, new, idx, target>>

(* With a null status the call reports pid at once, before is_child.       *)
WaitNoStatus(p) ==
  /\ pc[p] = "user" /\ "nostatus" \in Options
  /\ \E pid \in Pids \ {p_pid[p]} : \E q \in ChildWith(p, pid) : got' = [got EXCEPT ![p] = q]
  /\ UNCHANGED <<tableVars, treeVars, runVars, monVars, pc, new, idx, target>>

(* With WNOHANG it reports pid and status 0 without a look at the child.   *)
WaitNohang(p) ==
  /\ pc[p] = "user" /\ "WNOHANG" \in Options
  /\ \E pid \in Pids :
       /\ MayWaitFor(p, pid)
       /\ \E q \in ChildWith(p, pid) : got' = [got EXCEPT ![p] = q]
  /\ UNCHANGED <<tableVars, treeVars, runVars, monVars, pc, new, idx, target>>

sys_waitpid(p) ==
  /\ pc[p] = "user" /\ "plain" \in Options
  /\ \E pid \in Pids :
       /\ MayWaitFor(p, pid)
       /\ idx' = [idx EXCEPT ![p] = pid]
  /\ got' = [got EXCEPT ![p] = NoProc]
  /\ Goto(p, "search")
  /\ UNCHANGED <<tableVars, treeVars, runVars, monVars, new, target>>

(* proc_search_pid: the process, ESRCH for an entry with another pid, and  *)
(* a read through a null pointer for an empty entry.                       *)
WaitSearch(p) ==
  /\ pc[p] = "search"
  /\ \/ \E q \in Procs :
          /\ Finds(idx[p], q)
          /\ target' = [target EXCEPT ![p] = q]
          /\ Goto(p, "check")
          /\ UNCHANGED <<new, idx>>
     \/ /\ \A q \in Procs : ~ Finds(idx[p], q)
        /\ IF Crashes(idx[p])
           THEN Goto(p, "panic") /\ UNCHANGED <<new, idx, target>>
           ELSE Return(p)
  /\ UNCHANGED <<tableVars, treeVars, runVars, monVars, got>>

(* Mutant: the thread count is read the wrong way round.                   *)
HasThreadsNot(q) == p_numthreads[q] = 0

HasThreads(q) == p_numthreads[q] # 0

(* p_numthreads is read without p_lock and without p_locklock.             *)
WaitCheck(p) ==
  LET q == target[p] IN
  /\ pc[p] = "check" /\ stage[q] = "live"
  /\ \/ /\ ~ HasThreads(q)
        /\ got' = [got EXCEPT ![p] = q]
        /\ Goto(p, "destroy")
     \/ /\ HasThreads(q)
        /\ Goto(p, "wait_lock")
        /\ UNCHANGED got
  /\ UNCHANGED <<tableVars, treeVars, runVars, monVars, new, idx, target>>

(* lock_acquire before cv_wait, and inside cv_wait when it is woken.       *)
WaitLock(p) ==
  LET q == target[p] IN
  /\ pc[p] \in {"wait_lock", "wait_relock"} /\ stage[q] = "live"
  /\ lk_owner[q] = NoProc
  /\ lk_owner' = [lk_owner EXCEPT ![q] = p]
  /\ Goto(p, IF pc[p] = "wait_lock" THEN "wait" ELSE "wait_unlock")
  /\ UNCHANGED <<tableVars, treeVars, runVars, cv_waiters, locals>>

(* cv_wait up to its sleep.                                                *)
WaitSleep(p) ==
  LET q == target[p] IN
  /\ pc[p] = "wait" /\ stage[q] = "live"
  /\ lk_owner' = [lk_owner EXCEPT ![q] = NoProc]
  /\ cv_waiters' = [cv_waiters EXCEPT ![q] = @ \cup {p}]
  /\ Goto(p, "asleep")
  /\ UNCHANGED <<tableVars, treeVars, runVars, locals>>

(* lock_release, and the status and pid are read.                          *)
WaitUnlock(p) ==
  LET q == target[p] IN
  /\ pc[p] = "wait_unlock" /\ stage[q] = "live"
  /\ lk_owner' = [lk_owner EXCEPT ![q] = NoProc]
  /\ got' = [got EXCEPT ![p] = q]
  /\ Goto(p, "destroy")
  /\ UNCHANGED <<tableVars, treeVars, runVars, cv_waiters, new, idx, target>>

-----------------------------------------------------------------------------
(* proc_destroy.                                                           *)

(* Mutant: the entry of the process stays in the table.                    *)
FreeEntryNot(q) == table

(* The entry of the process, which is freed under processTable.lk.         *)
FreeEntry(q) == [table EXCEPT ![p_pid[q]] = NoProc]

(* proc_destroy to the middle of proc_deinit: the assertions on threads    *)
(* and on the sleepers of p_cv, the entry, and p_cv and p_locklock.        *)
proc_destroy(p) ==
  LET q == target[p] IN
  /\ pc[p] = "destroy" /\ stage[q] = "live"
  /\ IF p_numthreads[q] = 0 /\ cv_waiters[q] = {}
     THEN /\ table' = FreeEntry(q)
          /\ stage' = [stage EXCEPT ![q] = "freed"]
          /\ Goto(p, "unlink")
     ELSE /\ Goto(p, "panic")
          /\ UNCHANGED <<table, stage>>
  /\ UNCHANGED <<last_pid, p_pid, father_pid, child_list, runVars, monVars, locals>>

(* delete_child_list: the children it finds, all of them or it fails.      *)
Found(pids) == {c \in Procs : \E pid \in pids : Finds(pid, c)}
AllFound(pids) == \A pid \in pids : \E c \in Procs : Finds(pid, c)

(* The father of q that the rest of proc_deinit looks up.                  *)
Father(q) ==
  {f \in AllProcs : \/ father_pid[q] = p_pid[KProc] /\ f = KProc
                    \/ f \in Procs /\ Finds(father_pid[q], f)}

(* Mutant: the children keep the pid of the father that is gone.           *)
OrphansKeepFather(q) == father_pid

(* What delete_child_list does to the children, and kfree to q.            *)
Orphans(q) ==
  [c \in AllProcs |-> IF c \in Found(child_list[q]) \cup {q} THEN -1 ELSE father_pid[c]]

(* The rest of proc_deinit, and kfree.  proc_destroy panics if a child or  *)
(* the father is not found, or the father does not list the process.       *)
proc_deinit(p) ==
  LET q == target[p] IN
  /\ pc[p] = "unlink"
  /\ \/ /\ AllFound(child_list[q])
        /\ father_pid' = Orphans(q)
        /\ \/ /\ father_pid[q] = -1
              /\ child_list' = [child_list EXCEPT ![q] = {}]
           \/ \E f \in Father(q) :
                /\ p_pid[q] \in child_list[f]
                /\ child_list' = [child_list EXCEPT ![q] = {}, ![f] = @ \ {p_pid[q]}]
        /\ p_pid' = [p_pid EXCEPT ![q] = 0]
        /\ p_status' = [p_status EXCEPT ![q] = "initial"]
        /\ Return(p)
     \/ /\ \/ ~ AllFound(child_list[q])
           \/ father_pid[q] # -1 /\ \A f \in Father(q) : p_pid[q] \notin child_list[f]
        /\ Goto(p, "panic")
        /\ UNCHANGED <<p_pid, p_status, father_pid, child_list, new, idx, target>>
  /\ UNCHANGED <<tableVars, stage, p_numthreads, monVars, got>>

(* A thread that goes on with a freed struct, lock or cv.                  *)
UsesFreed(p) ==
  \/ pc[p] \in {"exit_lock", "exit_signal", "exit_unlock"} /\ stage[p] = "freed"
  \/ /\ pc[p] \in {"check", "wait_lock", "wait", "wait_relock", "wait_unlock", "destroy"}
     /\ stage[target[p]] = "freed"

Fault(p) ==
  /\ UsesFreed(p)
  /\ Goto(p, "fault")
  /\ UNCHANGED <<tableVars, treeVars, runVars, monVars, locals>>

-----------------------------------------------------------------------------
(* The steps a thread takes in the kernel once it is there, and what its   *)
(* program may ask for.                                                    *)
Kernel(p) ==
  \/ cmd_progthread(p)
  \/ ForkCreate(p) \/ Copy(p) \/ add_newp(p) \/ thread_fork(p)
  \/ proc_remthread(p) \/ ExitLock(p) \/ ExitSignal(p) \/ ExitUnlock(p)
  \/ WaitSearch(p) \/ WaitCheck(p) \/ WaitLock(p) \/ WaitSleep(p) \/ WaitUnlock(p)
  \/ proc_destroy(p) \/ proc_deinit(p) \/ Fault(p)

Program(p) ==
  \/ get_valid_pid(p) \/ ENPROC(p)
  \/ sys__exit(p)
  \/ WaitRefused(p) \/ WaitNoStatus(p) \/ WaitNohang(p) \/ sys_waitpid(p)

Panicked == \E p \in AllProcs : pc[p] = "panic"

(* A panic stops the machine.                                              *)
Next ==
  /\ ~ Panicked
  /\ \/ common_prog
     \/ \E p \in AllProcs : Kernel(p) \/ Program(p)

Spec == Init /\ [][Next]_vars

(* The scheduler runs every runnable thread again and again.               *)
FairSpec == Spec /\ \A p \in AllProcs : WF_vars(~ Panicked /\ Kernel(p))

-----------------------------------------------------------------------------
(* Properties.                                                             *)

(* The thread of q has left its process: its exit status is final.         *)
Exited(q) ==
  pc[q] \in {"exit_lock", "exit_signal", "exit_unlock", "done", "fault"}

(* The struct of q is in use, which it is until proc_deinit ends.          *)
Present(q) ==
  \/ stage[q] = "live"
  \/ \E p \in AllProcs : pc[p] \in {"unlink", "panic"} /\ target[p] = q

(* fork(2) gives the child a unique process id: two processes whose        *)
(* structs are alive never have the same pid, although sys_fork looks for  *)
(* a pid outside the lock and add_newp overwrites the table.               *)
UniquePids ==
  \A p, q \in Procs : stage[p] = "live" /\ stage[q] = "live" /\ p # q => p_pid[p] # p_pid[q]

(* The child lists and the father pids describe one tree: what a process   *)
(* lists is a process with this father, a father lists its child, and      *)
(* add_new_child never meets a pid that is in the list already.            *)
FamilyTree ==
  /\ \A p \in AllProcs : Present(p) =>
       \A pid \in child_list[p] :
         \E q \in Procs : Present(q) /\ p_pid[q] = pid /\ father_pid[q] = p_pid[p]
  /\ \A q \in Procs : Present(q) /\ father_pid[q] # -1 =>
       \E f \in AllProcs :
         Present(f) /\ p_pid[f] = father_pid[q] /\ p_pid[q] \in child_list[f]
  /\ \A p \in AllProcs : pc[p] = "copy" => p_pid[new[p]] \notin child_list[p]

(* A waitpid that reports a child has seen its thread leave the process,   *)
(* so that p_status is the value the child passed to _exit.                *)
ReturnsOnlyExited ==
  \A p \in AllProcs : got[p] # NoProc => Exited(got[p])

(* At most one thread waits for a process or destroys it, and proc_destroy *)
(* is never reached for a process that is destroyed already.               *)
ReapedByOne ==
  LET Reaping == {p \in AllProcs : pc[p] \in
                    {"check", "wait_lock", "wait", "asleep", "wait_relock", "wait_unlock",
                     "destroy", "unlink"}}
  IN /\ \A p, q \in Reaping : p # q => target[p] # target[q]
     /\ \A p \in Reaping : pc[p] # "unlink" => stage[target[p]] = "live"

(* Whatever fails, a process that is alive is found under its pid, and the *)
(* only other entries are those of structs that proc_create has freed for  *)
(* want of a cv or lock.                                                   *)
TableKeepsLive ==
  /\ \A q \in Procs : stage[q] = "live" => table[p_pid[q]] = q
  /\ \A i \in Pids : table[i] # NoProc =>
       \/ Finds(i, table[i])
       \/ stage[table[i]] = "freed" /\ pc[table[i]] = "none" /\ p_pid[table[i]] = i

(* The panics of proc_destroy, its assertions and the null entry that      *)
(* proc_search_pid would dereference are never reached.                    *)
NeverPanics == ~ Panicked

(* A process that has slept in waitpid since before its child took         *)
(* p_locklock to exit is woken, reaps the child and returns.               *)
SleeperReturns ==
  \A p \in AllProcs :
    pc[p] = "asleep" /\ pc[target[p]] = "exit_lock" ~> pc[p] = Home(p)

(* waitpid(2): "If that process has exited already, waitpid returns        *)
(* immediately".  A thread that waits for a process that has left does not *)
(* sleep for ever.                                                         *)
WaitpidReturns ==
  \A p \in AllProcs :
    pc[p] = "asleep" /\ pc[target[p]] = "done" ~> pc[p] # "asleep"

(* proc_destroy: "we must have the only reference to this structure".      *)
OnlyReference == \A p \in AllProcs : ~ UsesFreed(p)

(* waitpid(2): ESRCH means that the pid named a nonexistent process.  A    *)
(* child that waitpid looks up is found.                                   *)
ChildIsFound ==
  \A p \in AllProcs : pc[p] = "search" => \E q \in Procs : Finds(idx[p], q)

(* fork(2): ENPROC means that there are already too many processes on the  *)
(* system.  get_valid_pid fails only when the table is full.               *)
EnprocOnlyWhenFull == Candidates = {} => \A i \in Pids : table[i] # NoProc
=============================================================================
