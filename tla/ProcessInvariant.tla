-------------------------- MODULE ProcessInvariant --------------------------
(***************************************************************************)
(* The inductive invariant of Process, what follows from it, that the      *)
(* types are kept, and that the steps which leave the table and the tree   *)
(* alone keep it.  Everything is for any number of processes, any table    *)
(* size, any set of failing allocations and any mix of forking programs.   *)
(***************************************************************************)
EXTENDS Process, TLAPS

(* Who may be at work: the processes of users, and kproc for the menu.      *)
LEMMA Everyone ==
  Procs \subseteq AllProcs /\ KProc \in AllProcs /\ NoProc \notin AllProcs
  BY ProcessAssumption DEF AllProcs

USE Everyone, SMTT(30) DEF tableVars, treeVars, runVars, monVars, locals, vars, Goto

(* Where a thread works on target: sys_waitpid after proc_search_pid, and  *)
(* proc_destroy.                                                           *)
Reaps == {"check", "wait_lock", "wait", "asleep", "wait_relock", "wait_unlock",
          "destroy", "unlink"}

(* Some thread waits for q or destroys it.                                 *)
Targeted(q) == \E p \in AllProcs : target[p] = q

(* The struct of q is alive, or proc_deinit is about to leave it.          *)
Held(q) == stage[q] = "live" \/ Targeted(q)

-----------------------------------------------------------------------------
(* The inductive invariant.                                                *)

(* kproc and its menu thread: it never runs a program and never leaves.    *)
RootInv ==
  /\ stage[KProc] = "live" /\ p_pid[KProc] = 0 /\ father_pid[KProc] = -1
  /\ pc[KProc] \in {"menu", "copy", "thread_fork", "search", "panic"} \cup Reaps

(* A process has its thread from thread_fork to proc_remthread, and its    *)
(* struct is alive as long.                                                *)
ThreadInv ==
  \A p \in AllProcs :
    /\ p_numthreads[p] = 1 <=> pc[p] # "none" /\ ~ Exited(p)
    /\ p_numthreads[p] = 1 => stage[p] = "live"
    /\ stage[p] = "unused" => pc[p] = "none" /\ father_pid[p] = -1
    /\ pc[p] = "none" => child_list[p] = {}

(* The entry of a live process is not free, though add_newp may have put   *)
(* another process there, so no two of them have one pid.                  *)
PidInv ==
  /\ \A q \in Procs : stage[q] = "live" => p_pid[q] \in Pids /\ table[p_pid[q]] # NoProc
  /\ UniquePids

(* What a thread waits for or destroys is its child, or the process it is  *)
(* creating and has not adopted.                                           *)
TargetInv ==
  \A p \in AllProcs :
    /\ pc[p] \in Reaps => target[p] # NoProc
    /\ target[p] # NoProc =>
         /\ pc[p] \in Reaps \cup {"panic"}
         /\ stage[target[p]] # "unused"
         /\ pc[p] = "unlink" => stage[target[p]] = "freed"
         /\ stage[target[p]] = "freed" => pc[p] \in {"unlink", "panic"}
         /\ \/ father_pid[target[p]] = -1 /\ new[p] = target[p]
            \/ father_pid[target[p]] = p_pid[p] /\ p_pid[target[p]] \in child_list[p]
    /\ pc[p] = "search" => idx[p] \in child_list[p]

(* The process a thread is creating has no thread yet, and nobody else is  *)
(* creating it.                                                            *)
NewInv ==
  /\ \A p \in AllProcs :
       /\ pc[p] \in {"copy", "add_newp", "thread_fork"} => new[p] # NoProc
       /\ new[p] # NoProc =>
            /\ pc[p] \in {"copy", "add_newp", "thread_fork", "destroy", "unlink", "panic"}
            /\ target[p] \in {NoProc, new[p]}
            /\ pc[new[p]] = "none" /\ stage[new[p]] # "unused"
            /\ stage[new[p]] = "freed" => target[p] = new[p]
            /\ pc[p] = "copy" => father_pid[new[p]] = -1
            /\ pc[p] \in {"add_newp", "thread_fork"} =>
                 father_pid[new[p]] = p_pid[p] /\ p_pid[new[p]] \in child_list[p]
  /\ \A p, r \in AllProcs : new[p] # NoProc /\ new[p] = new[r] => p = r
  /\ \A q \in Procs : Held(q) /\ pc[q] = "none" /\ father_pid[q] # -1 =>
       \E r \in AllProcs : new[r] = q

(* The family tree, with the processes whose proc_deinit is not over: a    *)
(* child list names children that are there, and a father has its children *)
(* in its list.                                                            *)
ChildrenInv ==
  \A f \in AllProcs : Held(f) => \A x \in child_list[f] :
    \E c \in Procs : /\ p_pid[c] = x /\ father_pid[c] = p_pid[f]
                     /\ stage[c] = "live" \/ target[f] = c
FathersInv ==
  \A c \in Procs : Held(c) /\ father_pid[c] # -1 =>
    \E f \in AllProcs : Held(f) /\ p_pid[f] = father_pid[c] /\ p_pid[c] \in child_list[f]

(* A pid may be given again before that, so a dying process may share its  *)
(* pid with a live one: their children are not confused, and it is not the *)
(* brother of one.                                                         *)
ListsInv ==
  \A f, g \in AllProcs : Held(f) /\ Held(g) /\ f # g /\ p_pid[f] = p_pid[g] =>
    child_list[f] \cap child_list[g] = {}
ReuseInv ==
  \A p \in AllProcs, c \in Procs :
    /\ target[p] # NoProc /\ stage[target[p]] = "freed"
    /\ father_pid[target[p]] = p_pid[p]
    /\ stage[c] = "live" /\ p_pid[c] = p_pid[target[p]]
    => father_pid[c] # p_pid[p]
TreeInv == ChildrenInv /\ FathersInv /\ ListsInv /\ ReuseInv

(* Who sleeps on p_cv waits for its process, and who was woken was woken   *)
(* by it.                                                                  *)
SleepInv ==
  /\ \A q \in AllProcs : \A w \in cv_waiters[q] : pc[w] = "asleep" /\ target[w] = q
  /\ \A p \in AllProcs : pc[p] \in {"wait_relock", "wait_unlock"} => Exited(target[p])

IInv ==
  /\ TypeOK /\ RootInv /\ ThreadInv /\ PidInv /\ TargetInv /\ NewInv /\ TreeInv /\ SleepInv

-----------------------------------------------------------------------------
(* Consequences of the invariant.                                          *)

(* A thread that is in its program or in the kernel belongs to a process   *)
(* that is alive.                                                          *)
LEMMA ActiveIsLive ==
  ASSUME IInv, NEW p \in AllProcs, pc[p] # "none", ~ Exited(p)
  PROVE  stage[p] = "live" /\ p_numthreads[p] = 1
BY DEF IInv, ThreadInv

(* Live processes, kproc among them, have different pids.                  *)
LEMMA LiveDiffer ==
  ASSUME IInv, NEW p \in AllProcs, NEW q \in AllProcs,
         stage[p] = "live", stage[q] = "live", p_pid[p] = p_pid[q]
  PROVE  p = q
BY ProcessAssumption DEF IInv, PidInv, UniquePids, RootInv, Pids, AllProcs

(* A process that a thread is creating.                                    *)
LEMMA NewFacts ==
  ASSUME IInv, NEW p \in AllProcs, pc[p] \in {"copy", "add_newp", "thread_fork"}
  PROVE  /\ new[p] \in Procs /\ stage[new[p]] = "live" /\ p_pid[new[p]] \in Pids
         /\ target[p] = NoProc /\ new[p] # p /\ pc[new[p]] = "none"
<1>1. new[p] \in Procs /\ new[p] # NoProc
  BY DEF IInv, NewInv, TypeOK
<1>2. target[p] = NoProc
  BY DEF IInv, TargetInv, Reaps
<1>3. stage[new[p]] = "live" /\ pc[new[p]] = "none"
  BY <1>1, <1>2 DEF IInv, NewInv, TypeOK
<1> QED BY <1>1, <1>2, <1>3 DEF IInv, PidInv

(* A process that a thread waits for or destroys.                          *)
LEMMA TargetFacts ==
  ASSUME IInv, NEW p \in AllProcs, pc[p] \in Reaps
  PROVE  /\ target[p] \in Procs
         /\ IF pc[p] = "unlink" THEN stage[target[p]] = "freed" ELSE stage[target[p]] = "live"
BY DEF IInv, TypeOK, TargetInv, Reaps

(* No two threads wait for or destroy one process.                         *)
LEMMA TargetsDiffer ==
  ASSUME IInv, NEW p \in AllProcs, NEW r \in AllProcs,
         target[p] # NoProc, target[p] = target[r]
  PROVE  p = r
<1>1. pc[p] # "none" /\ ~ Exited(p) /\ pc[r] # "none" /\ ~ Exited(r)
  BY DEF IInv, TargetInv, Reaps, Exited
<1>2. stage[p] = "live" /\ stage[r] = "live"
  BY <1>1, ActiveIsLive
<1>3. p_pid[p] # -1 /\ p_pid[r] # -1
  BY DEF IInv, TypeOK
<1>4. CASE father_pid[target[p]] = -1
  BY <1>3, <1>4 DEF IInv, TargetInv, NewInv
<1>5. CASE father_pid[target[p]] # -1
  BY <1>2, <1>5, LiveDiffer DEF IInv, TargetInv
<1> QED BY <1>4, <1>5

(* A process that is being destroyed has no thread and works on nothing.   *)
LEMMA NotLive ==
  ASSUME IInv, NEW f \in AllProcs, stage[f] # "live"
  PROVE  target[f] = NoProc /\ new[f] = NoProc /\ pc[f] \notin Reaps \cup {"search", "panic"}
<1>1. pc[f] = "none" \/ Exited(f)
  BY ActiveIsLive
<1> QED BY <1>1 DEF IInv, TargetInv, NewInv, Reaps, Exited

(* The tree depends on no other variable than these.                       *)
LEMMA TreeFrame ==
  ASSUME TreeInv, UNCHANGED <<stage, p_pid, father_pid, child_list, target>>,
         \A q \in AllProcs : Held(q)' <=> Held(q)
  PROVE  TreeInv'
  BY DEF TreeInv, ChildrenInv, FathersInv, ListsInv, ReuseInv

(* Nobody sleeps or wakes, and no thread exits.                            *)
LEMMA SleepFrame ==
  ASSUME IInv, UNCHANGED cv_waiters, NEW p \in AllProcs,
         pc[p] \notin {"none", "asleep"}, ~ Exited(p), pc'[p] \notin {"wait_relock", "wait_unlock"},
         \A r \in AllProcs \ {p} : pc'[r] = pc[r] /\ target'[r] = target[r]
  PROVE  SleepInv'
<1>1. \A r \in AllProcs : pc[r] \in {"wait_relock", "wait_unlock"} => target[r] \in AllProcs \ {p}
  BY TargetFacts DEF IInv, SleepInv, Reaps, Exited
<1>2. \A f \in AllProcs : cv_waiters[f] \subseteq AllProcs \ {p}
  BY DEF IInv, TypeOK, SleepInv
<1> QED BY <1>1, <1>2 DEF IInv, SleepInv, Exited

(* A thread takes hold of a live process: the one it is creating, to       *)
(* destroy it, or its child, to wait for it.                               *)
LEMMA TakeStep ==
  ASSUME IInv, NEW p \in AllProcs, NEW q \in Procs, stage[q] = "live", q # NoProc,
         pc[p] \notin {"none", "asleep"}, ~ Exited(p), target[p] = NoProc, target'[p] = q,
         \/ pc'[p] = "destroy" /\ new[p] = q
         \/ pc'[p] = "check" /\ new[p] = NoProc,
         \/ father_pid[q] = -1 /\ new[p] = q
         \/ father_pid[q] = p_pid[p] /\ p_pid[q] \in child_list[p],
         \A r \in AllProcs \ {p} : pc'[r] = pc[r] /\ target'[r] = target[r] /\ idx'[r] = idx[r],
         UNCHANGED <<table, stage, p_pid, father_pid, child_list, p_numthreads, cv_waiters, new>>
  PROVE  RootInv' /\ ThreadInv' /\ PidInv' /\ TargetInv' /\ NewInv' /\ TreeInv' /\ SleepInv'
<1>1. RootInv' /\ PidInv'
  BY DEF IInv, RootInv, PidInv, UniquePids, Reaps
<1>2. ThreadInv'
  BY DEF IInv, ThreadInv, Exited
<1>3. TargetInv'
  BY DEF IInv, TargetInv, Reaps
<1>4. \A f \in AllProcs : Held(f)' <=> Held(f)
  BY DEF Held, Targeted
<1>5. NewInv'
  <2>1. \A r \in AllProcs : new[r] \in Procs \cup {NoProc}
    BY DEF IInv, TypeOK
  <2> QED BY <1>4, <2>1 DEF IInv, NewInv
<1>6. TreeInv'
  <2>1. \A r \in AllProcs : target'[r] # NoProc /\ stage[target'[r]] = "freed" => target'[r] = target[r]
    OBVIOUS
  <2>2. \A r \in AllProcs, c \in Procs : stage[c] # "live" => (target'[r] = c <=> target[r] = c)
    BY ProcessAssumption
  <2> QED BY <1>4, <2>1, <2>2 DEF IInv, TreeInv, ChildrenInv, FathersInv, ListsInv, ReuseInv
<1>7. SleepInv'
  BY SleepFrame
<1> QED BY <1>1, <1>2, <1>3, <1>5, <1>6, <1>7

(* A thread that has not exited panics, or returns with nothing in hand.   *)
LEMMA StopStep ==
  ASSUME IInv, NEW p \in AllProcs, pc[p] \notin {"none", "asleep"}, ~ Exited(p),
         \/ pc'[p] = "panic"
         \/ pc'[p] = Home(p) /\ target[p] = NoProc /\ new[p] = NoProc,
         \A r \in AllProcs \ {p} : pc'[r] = pc[r] /\ idx'[r] = idx[r],
         UNCHANGED <<table, stage, p_pid, father_pid, child_list, p_numthreads, cv_waiters>>,
         UNCHANGED <<target, new>>
  PROVE  RootInv' /\ ThreadInv' /\ PidInv' /\ TargetInv' /\ NewInv' /\ TreeInv' /\ SleepInv'
<1>1. RootInv' /\ ThreadInv' /\ PidInv'
  BY DEF IInv, RootInv, ThreadInv, PidInv, UniquePids, Exited, Home
<1>2. TargetInv'
  BY DEF IInv, TargetInv, Reaps, Home
<1>3. \A f \in AllProcs : Held(f)' <=> Held(f)
  BY DEF Held, Targeted
<1>4. NewInv'
  <2>1. \A r \in AllProcs : new[r] \in Procs \cup {NoProc}
    BY DEF IInv, TypeOK
  <2> QED BY <1>3, <2>1 DEF IInv, NewInv, Home
<1>5. TreeInv'
  BY <1>3, TreeFrame DEF IInv
<1>6. SleepInv'
  BY SleepFrame DEF Home
<1> QED BY <1>1, <1>2, <1>4, <1>5, <1>6

(* Held is Present.                                                        *)
LEMMA HeldIsPresent ==
  ASSUME IInv, NEW q \in AllProcs
  PROVE  Held(q) <=> Present(q)
BY ProcessAssumption DEF IInv, TargetInv, RootInv, TypeOK, Held, Targeted, Present

-----------------------------------------------------------------------------
(* Types.                                                                  *)

(* proc_create_runprogram keeps the types of what it changes.              *)
LEMMA CreateType ==
  ASSUME TypeOK, NEW p \in AllProcs, proc_create_runprogram(p),
         UNCHANGED runVars, UNCHANGED monVars, got' \in [AllProcs -> Procs \cup {NoProc}]
  PROVE  TypeOK'
<1>1. Home(p) \in Points
  BY DEF Home, Points
<1>2. CASE UNCHANGED tableVars /\ UNCHANGED treeVars /\ Return(p)
  BY <1>1, <1>2, ProcessAssumption DEF TypeOK, Return
<1>3. CASE ~ (UNCHANGED tableVars /\ UNCHANGED treeVars /\ Return(p))
  <2>1. PICK n \in Procs :
          /\ Enter(n)
          /\ stage' = [stage EXCEPT ![n] = "live"] \/ stage' = [stage EXCEPT ![n] = "freed"]
          /\ \/ new' = [new EXCEPT ![p] = n] /\ Goto(p, "copy") /\ UNCHANGED <<idx, target>>
             \/ Return(p)
    BY <1>3, Zenon DEF proc_create_runprogram
  <2>2. UNCHANGED <<father_pid, child_list>>
    BY <1>3 DEF proc_create_runprogram
  <2>3. PICK i \in Pids :
          /\ table' = [table EXCEPT ![i] = n]
          /\ p_pid' = [p_pid EXCEPT ![n] = i]
          /\ last_pid' = i
    BY <2>1, Zenon DEF Enter, FirstFree, Candidates
  <2>4. i \in 0 .. MAX_PROC
    BY ProcessAssumption DEF Pids
  <2>5. /\ pc' \in [AllProcs -> Points] /\ new' \in [AllProcs -> Procs \cup {NoProc}]
        /\ idx' \in [AllProcs -> 0 .. MAX_PROC] /\ target' \in [AllProcs -> Procs \cup {NoProc}]
    <3>1. "copy" \in Points
      BY DEF Points
    <3>2. CASE new' = [new EXCEPT ![p] = n] /\ Goto(p, "copy") /\ UNCHANGED <<idx, target>>
      BY <3>1, <3>2 DEF TypeOK
    <3>3. CASE Return(p)
      BY <1>1, <3>3, ProcessAssumption DEF TypeOK, Return
    <3> QED BY <2>1, <3>2, <3>3
  <2>6. /\ table' \in [Pids -> Procs \cup {NoProc}] /\ last_pid' \in 0 .. MAX_PROC
        /\ stage' \in [AllProcs -> {"unused", "live", "freed"}]
        /\ p_pid' \in [AllProcs -> 0 .. MAX_PROC]
    BY <2>1, <2>3, <2>4 DEF TypeOK
  <2> QED BY <2>2, <2>5, <2>6 DEF TypeOK
<1> QED BY <1>2, <1>3 DEF proc_create_runprogram

(* proc_bootstrap.                                                         *)
LEMMA InitType == Init => TypeOK
BY ProcessAssumption DEF Init, TypeOK, Points, Pids

(* A step of a thread in the kernel keeps the types.                       *)
LEMMA KernelType ==
  ASSUME IInv, NEW p \in AllProcs, Kernel(p)
  PROVE  TypeOK'
<1> USE ProcessAssumption
<1> TypeOK BY DEF IInv
<1>0. Home(p) \in Points /\ {"user", "done", "add_newp", "thread_fork", "destroy", "search",
        "start", "exit_lock", "exit_signal", "exit_unlock", "wait_relock", "panic", "check",
        "wait_lock", "wait", "wait_unlock", "asleep", "unlink", "fault"} \subseteq Points
  BY DEF Home, Points
<1>1. CASE cmd_progthread(p)
  BY <1>0, <1>1 DEF TypeOK, cmd_progthread
<1>2. CASE ForkCreate(p)
  BY <1>2, CreateType DEF ForkCreate, TypeOK
<1>3. CASE Copy(p)
  <2>1. new[p] \in Procs /\ p_pid[new[p]] \in Pids /\ p_pid[p] \in -1 .. MAX_PROC
    BY <1>3, NewFacts DEF Copy, TypeOK
  <2>2. child_list' \in [AllProcs -> SUBSET Pids] /\ father_pid' \in [AllProcs -> -1 .. MAX_PROC]
    BY <1>3, <2>1 DEF TypeOK, Copy, Adopt
  <2>3. pc' \in [AllProcs -> Points] /\ target' \in [AllProcs -> Procs \cup {NoProc}]
    BY <1>0, <1>3, <2>1 DEF TypeOK, Copy
  <2> QED BY <1>3, <2>2, <2>3 DEF TypeOK, Copy
<1>4. CASE add_newp(p)
  BY <1>0, <1>4, Zenon DEF TypeOK, add_newp
<1>5. CASE thread_fork(p)
  <2>1. new[p] \in Procs /\ p_pid[new[p]] \in 0 .. MAX_PROC /\ 0 \in 0 .. MAX_PROC
    BY <1>5, NewFacts DEF thread_fork, TypeOK
  <2> QED BY <1>0, <1>5, <2>1 DEF TypeOK, thread_fork
<1>6. CASE proc_remthread(p)
  BY <1>0, <1>6 DEF TypeOK, proc_remthread
<1>7. CASE ExitLock(p)
  BY <1>0, <1>7 DEF TypeOK, ExitLock
<1>8. CASE ExitSignal(p)
  BY <1>0, <1>8 DEF TypeOK, ExitSignal
<1>9. CASE ExitUnlock(p)
  BY <1>0, <1>9 DEF TypeOK, ExitUnlock
<1>10. CASE WaitSearch(p)
  BY <1>0, <1>10 DEF TypeOK, WaitSearch, Return
<1>11. CASE WaitCheck(p)
  BY <1>0, <1>11 DEF TypeOK, WaitCheck
<1>12. CASE WaitLock(p)
  BY <1>0, <1>12, Zenon DEF TypeOK, WaitLock
<1>13. CASE WaitSleep(p)
  BY <1>0, <1>13, TargetFacts DEF TypeOK, WaitSleep, Reaps
<1>14. CASE WaitUnlock(p)
  BY <1>0, <1>14, Zenon DEF TypeOK, WaitUnlock
<1>15. CASE proc_destroy(p)
  BY <1>0, <1>15 DEF TypeOK, proc_destroy, FreeEntry
<1>16. CASE proc_deinit(p)
  <2>1. CASE Goto(p, "panic") /\ UNCHANGED <<p_pid, p_status, father_pid, child_list, new, idx, target>>
    BY <1>0, <1>16, <2>1 DEF TypeOK, proc_deinit
  <2>2. CASE /\ father_pid' = Orphans(target[p]) /\ Return(p)
             /\ p_pid' = [p_pid EXCEPT ![target[p]] = 0]
             /\ p_status' = [p_status EXCEPT ![target[p]] = "initial"]
             /\ \/ child_list' = [child_list EXCEPT ![target[p]] = {}]
                \/ \E f \in Father(target[p]) :
                     child_list' = [child_list EXCEPT ![target[p]] = {},
                                                      ![f] = @ \ {p_pid[target[p]]}]
    <3>1. father_pid' \in [AllProcs -> -1 .. MAX_PROC]
      BY <2>2 DEF Orphans, TypeOK
    <3>2. child_list' \in [AllProcs -> SUBSET Pids]
      BY <2>2 DEF Father, TypeOK
    <3>3. /\ p_pid' \in [AllProcs -> 0 .. MAX_PROC]
          /\ p_status' \in [AllProcs -> {"initial", "exited"}]
      BY <1>16, <2>2, TargetFacts DEF TypeOK, proc_deinit, Reaps
    <3>4. /\ pc' \in [AllProcs -> Points] /\ new' \in [AllProcs -> Procs \cup {NoProc}]
          /\ idx' \in [AllProcs -> 0 .. MAX_PROC] /\ target' \in [AllProcs -> Procs \cup {NoProc}]
      BY <1>0, <2>2 DEF TypeOK, Return
    <3>5. UNCHANGED tableVars /\ UNCHANGED monVars /\ UNCHANGED <<stage, p_numthreads, got>>
      BY <1>16 DEF proc_deinit
    <3> QED BY <3>1, <3>2, <3>3, <3>4, <3>5 DEF TypeOK
  <2> QED BY <1>16, <2>1, <2>2, Zenon DEF proc_deinit
<1>17. CASE Fault(p)
  BY <1>0, <1>17 DEF TypeOK, Fault
<1> QED BY <1>1, <1>2, <1>3, <1>4, <1>5, <1>6, <1>7, <1>8, <1>9, <1>10, <1>11, <1>12, <1>13,
           <1>14, <1>15, <1>16, <1>17 DEF Kernel

(* A call of a program keeps the types.                                    *)
LEMMA ProgramType ==
  ASSUME TypeOK, NEW p \in AllProcs, Program(p)
  PROVE  TypeOK'
<1> USE ProcessAssumption
<1>0. {"create", "exit", "search"} \subseteq Points
  BY DEF Points
<1>1. CASE get_valid_pid(p)
  <2>1. PICK i \in FirstFree : idx' = [idx EXCEPT ![p] = i]
    BY <1>1, Zenon DEF get_valid_pid
  <2>2. i \in 0 .. MAX_PROC
    BY DEF FirstFree, Candidates, Pids
  <2> QED BY <1>0, <1>1, <2>1, <2>2 DEF TypeOK, get_valid_pid
<1>2. CASE ENPROC(p)
  BY <1>2 DEF TypeOK, ENPROC
<1>3. CASE sys__exit(p)
  BY <1>0, <1>3 DEF TypeOK, sys__exit
<1>4. CASE WaitRefused(p)
  BY <1>4 DEF TypeOK, WaitRefused
<1>5. CASE WaitNoStatus(p)
  BY <1>5 DEF TypeOK, WaitNoStatus, ChildWith
<1>6. CASE WaitNohang(p)
  BY <1>6 DEF TypeOK, WaitNohang, ChildWith
<1>7. CASE sys_waitpid(p)
  BY <1>0, <1>7 DEF TypeOK, sys_waitpid, Pids
<1> QED BY <1>1, <1>2, <1>3, <1>4, <1>5, <1>6, <1>7 DEF Program

-----------------------------------------------------------------------------
(* Steps that move threads and leave the table, the tree and the processes *)
(* that threads work on alone.                                             *)

(* Thread r moves within a call: it creates nothing, and goes on to work   *)
(* on its target if it has one.                                            *)
Moves(r) ==
  /\ pc[r] # "none" /\ pc'[r] # "none" /\ new[r] = NoProc
  /\ pc[r] \in Reaps <=> pc'[r] \in Reaps
  /\ pc[r] \notin {"unlink", "panic"}
  /\ pc'[r] \notin {"copy", "add_newp", "thread_fork", "unlink", "panic"}
  /\ pc'[r] = "search" => idx'[r] \in child_list[r]
Rests(r) == pc'[r] = pc[r] /\ idx'[r] = idx[r]
Quiet ==
  /\ UNCHANGED tableVars /\ UNCHANGED treeVars /\ UNCHANGED <<new, target>>
  /\ \A r \in AllProcs : Rests(r) \/ Moves(r)

(* A quiet step keeps the pids, the tree and what threads work on.         *)
LEMMA QuietStep ==
  ASSUME IInv, Quiet
  PROVE  PidInv' /\ TargetInv' /\ NewInv' /\ TreeInv'
<1> USE DEF Quiet
<1>1. PidInv'
  BY DEF IInv, PidInv, UniquePids
<1>2. TargetInv'
  <2>1. \A r \in AllProcs :
          /\ pc'[r] \in Reaps <=> pc[r] \in Reaps
          /\ pc'[r] = pc[r] \/ {pc[r], pc'[r]} \cap {"unlink", "panic"} = {}
    BY DEF Moves, Rests
  <2>2. \A r \in AllProcs : pc'[r] = "search" => idx'[r] \in child_list[r]
    BY DEF Moves, Rests, IInv, TargetInv
  <2> QED BY <2>1, <2>2, Zenon DEF IInv, TargetInv
<1>3. \A r \in AllProcs : pc'[r] = "none" <=> pc[r] = "none"
  BY DEF Moves, Rests
<1>4. NewInv'
  <2>1. \A q \in Procs : Held(q)' <=> Held(q)
    BY DEF Held, Targeted
  <2>2. \A r \in AllProcs : new[r] # NoProc => pc'[r] = pc[r] /\ new[r] \in AllProcs
    BY DEF Moves, Rests, IInv, TypeOK
  <2>3. \A r \in AllProcs : pc'[r] \in {"copy", "add_newp", "thread_fork"} => pc'[r] = pc[r]
    BY DEF Moves, Rests
  <2> QED BY <1>3, <2>1, <2>2, <2>3 DEF IInv, NewInv
<1>5. TreeInv'
  BY TreeFrame DEF IInv, Held, Targeted
<1> QED BY <1>1, <1>2, <1>4, <1>5

(* The steps of the kernel and of programs that are quiet.                 *)
QuietAction(p) ==
  \/ cmd_progthread(p)
  \/ proc_remthread(p)
  \/ ExitLock(p)
  \/ ExitSignal(p)
  \/ ExitUnlock(p)
  \/ WaitCheck(p)
  \/ WaitLock(p)
  \/ WaitSleep(p)
  \/ WaitUnlock(p)
  \/ Fault(p)
  \/ get_valid_pid(p)
  \/ ENPROC(p)
  \/ sys__exit(p)
  \/ WaitRefused(p)
  \/ WaitNoStatus(p)
  \/ WaitNohang(p)
  \/ sys_waitpid(p)

(* They are: a thread that works on a target goes on to do so.             *)
LEMMA QuietActions ==
  ASSUME IInv, NEW p \in AllProcs, QuietAction(p)
  PROVE  Quiet
<1>0. /\ pc \in [AllProcs -> Points] /\ idx \in [AllProcs -> 0 .. MAX_PROC]
      /\ pc[p] \notin {"copy", "add_newp", "thread_fork", "destroy", "unlink", "panic"} => new[p] = NoProc
      /\ \A w \in AllProcs : pc[w] = "asleep" => new[w] = NoProc
      /\ pc[p] \in {"check", "wait_lock", "wait", "wait_relock", "wait_unlock", "destroy"} =>
           stage[target[p]] = "live"
  BY TargetFacts DEF IInv, TypeOK, NewInv, Reaps
<1> USE DEF Quiet, Moves, Rests, Reaps
<1>1. CASE cmd_progthread(p)
  BY <1>0, <1>1 DEF cmd_progthread
<1>2. CASE proc_remthread(p)
  BY <1>0, <1>2 DEF proc_remthread
<1>3. CASE ExitLock(p)
  BY <1>0, <1>3 DEF ExitLock
<1>4. CASE ExitSignal(p)
  <2>1. \A w \in cv_waiters[p] : w \in AllProcs /\ pc[w] = "asleep" /\ w # p
    BY <1>4 DEF IInv, SleepInv, TypeOK, ExitSignal
  <2> QED BY <1>0, <1>4, <2>1 DEF ExitSignal
<1>5. CASE ExitUnlock(p)
  BY <1>0, <1>5 DEF ExitUnlock
<1>6. CASE WaitCheck(p)
  BY <1>0, <1>6 DEF WaitCheck
<1>7. CASE WaitLock(p)
  BY <1>0, <1>7 DEF WaitLock
<1>8. CASE WaitSleep(p)
  BY <1>0, <1>8 DEF WaitSleep
<1>9. CASE WaitUnlock(p)
  BY <1>0, <1>9 DEF WaitUnlock
<1>10. CASE Fault(p)
  BY <1>0, <1>10 DEF Fault, UsesFreed
<1>11. CASE get_valid_pid(p)
  BY <1>0, <1>11 DEF get_valid_pid
<1>12. CASE ENPROC(p)
  BY <1>12 DEF ENPROC
<1>13. CASE sys__exit(p)
  BY <1>0, <1>13 DEF sys__exit
<1>14. CASE WaitRefused(p)
  BY <1>14 DEF WaitRefused
<1>15. CASE WaitNoStatus(p)
  BY <1>15 DEF WaitNoStatus
<1>16. CASE WaitNohang(p)
  BY <1>16 DEF WaitNohang
<1>17. CASE sys_waitpid(p)
  BY <1>0, <1>17 DEF sys_waitpid, MayWaitFor
<1> QED BY <1>1, <1>2, <1>3, <1>4, <1>5, <1>6, <1>7, <1>8, <1>9, <1>10, <1>11, <1>12, <1>13,
           <1>14, <1>15, <1>16, <1>17, Zenon DEF QuietAction

(* A thread that has left its process does not come back.                  *)
LEMMA ExitedStays ==
  ASSUME IInv, [Next]_vars, NEW q \in AllProcs, Exited(q)
  PROVE  Exited(q)'
<1>0. pc \in [AllProcs -> Points] /\ pc[q] # "none"
  BY DEF IInv, TypeOK, Exited
<1>1. CASE UNCHANGED vars
  BY <1>1 DEF Exited
<1>2. ASSUME NEW p \in AllProcs, \A r \in AllProcs \ {p} : pc'[r] = pc[r],
             ~ Exited(p) \/ Exited(p)'
      PROVE  Exited(q)'
  BY <1>2 DEF Exited
<1>3. ASSUME NEW p \in AllProcs, proc_create_runprogram(p), pc[p] \in {"menu", "create"}
      PROVE  Exited(q)'
  BY <1>0, <1>3 DEF proc_create_runprogram, Return, Exited
<1>4. CASE common_prog
  BY <1>3, <1>4 DEF common_prog
<1>5. ASSUME NEW p \in AllProcs, Kernel(p) \/ Program(p)
      PROVE  Exited(q)'
  <2>1. CASE ForkCreate(p)
    BY <1>3, <2>1 DEF ForkCreate
  <2>2. CASE ExitSignal(p)
    <3>1. \A w \in cv_waiters[p] : w \in AllProcs /\ pc[w] = "asleep"
      BY DEF IInv, SleepInv, TypeOK
    <3> QED BY <1>0, <2>2, <3>1 DEF ExitSignal, Exited
  <2>3. CASE thread_fork(p)
    <3>1. new[p] \in Procs /\ pc[new[p]] = "none"
      BY <2>3, NewFacts DEF thread_fork
    <3> QED BY <1>0, <2>3, <3>1 DEF thread_fork, Exited
  <2>4. CASE cmd_progthread(p)
    BY <1>0, <2>4 DEF cmd_progthread, Exited
  <2>5. CASE proc_remthread(p)
    BY <2>5 DEF proc_remthread, Exited
  <2>6. CASE ExitLock(p)
    BY <2>6 DEF ExitLock, Exited
  <2>7. CASE ExitUnlock(p)
    BY <2>7 DEF ExitUnlock, Exited
  <2>8. CASE WaitCheck(p)
    BY <1>0, <2>8 DEF WaitCheck, Exited
  <2>9. CASE WaitLock(p)
    BY <2>9 DEF WaitLock, Exited
  <2>10. CASE WaitSleep(p)
    BY <2>10 DEF WaitSleep, Exited
  <2>11. CASE WaitUnlock(p)
    BY <2>11 DEF WaitUnlock, Exited
  <2>12. CASE Fault(p)
    BY <2>12 DEF Fault, Exited
  <2>13. CASE get_valid_pid(p)
    BY <2>13 DEF get_valid_pid, Exited
  <2>14. CASE ENPROC(p) \/ WaitRefused(p) \/ WaitNoStatus(p) \/ WaitNohang(p)
    BY <2>14 DEF ENPROC, WaitRefused, WaitNoStatus, WaitNohang, Exited
  <2>15. CASE sys__exit(p)
    BY <2>15 DEF sys__exit, Exited
  <2>16. CASE sys_waitpid(p)
    BY <2>16 DEF sys_waitpid, Exited
  <2>17. CASE Copy(p)
    BY <1>0, <2>17 DEF Copy, Exited
  <2>18. CASE add_newp(p)
    BY <2>18 DEF add_newp, Exited
  <2>19. CASE WaitSearch(p)
    BY <1>0, <2>19 DEF WaitSearch, Return, Exited
  <2>20. CASE proc_destroy(p)
    BY <1>0, <2>20 DEF proc_destroy, Exited
  <2>21. CASE proc_deinit(p)
    BY <1>0, <2>21 DEF proc_deinit, Return, Exited
  <2> QED BY <1>5, <2>1, <2>2, <2>3, <2>4, <2>5, <2>6, <2>7, <2>8, <2>9, <2>10, <2>11, <2>12,
             <2>13, <2>14, <2>15, <2>16, <2>17, <2>18, <2>19, <2>20, <2>21 DEF Kernel, Program
<1> QED BY <1>1, <1>4, <1>5 DEF Next
=============================================================================
