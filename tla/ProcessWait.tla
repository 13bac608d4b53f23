----------------------------- MODULE ProcessWait ----------------------------
(***************************************************************************)
(* Quiet steps keep the rest of the invariant, and so do the steps by      *)
(* which a process gets hold of another one: the search of waitpid, and    *)
(* proc_destroy up to proc_deinit.                                         *)
(***************************************************************************)
EXTENDS ProcessInvariant

USE Everyone, SMTT(30) DEF tableVars, treeVars, runVars, monVars, locals, vars, Goto

(* Quiet actions keep kproc, the thread counts and what sleepers wait for. *)
LEMMA QuietRest ==
  ASSUME IInv, NEW p \in AllProcs, QuietAction(p)
  PROVE  RootInv' /\ ThreadInv' /\ SleepInv'
<1>0. /\ pc \in [AllProcs -> Points] /\ p_numthreads \in [AllProcs -> 0 .. 1]
      /\ target \in [AllProcs -> Procs \cup {NoProc}]
      /\ cv_waiters \in [AllProcs -> SUBSET AllProcs]
      /\ \A r \in AllProcs : pc[r] \in Reaps => target[r] \in Procs
      /\ pc[p] \in Reaps \ {"unlink"} => stage[target[p]] = "live"
  BY TargetFacts DEF IInv, TypeOK
<1>w. \A w \in cv_waiters[p] : w \in AllProcs /\ pc[w] = "asleep" /\ target[w] = p
  BY DEF IInv, SleepInv, TypeOK
<1>r. RootInv
  BY DEF IInv
<1>t. ThreadInv
  BY DEF IInv
<1>s. SleepInv
  BY DEF IInv
<1>1. CASE cmd_progthread(p)
  <2>1. RootInv'
    BY <1>0, <1>r, <1>1 DEF cmd_progthread, RootInv, Reaps
  <2>2. ThreadInv'
    BY <1>0, <1>t, <1>1 DEF cmd_progthread, ThreadInv, Exited
  <2>3. SleepInv'
    BY <1>0, <1>s, <1>1 DEF cmd_progthread, SleepInv, Exited, Reaps
  <2> QED BY <2>1, <2>2, <2>3
<1>2. CASE proc_remthread(p)
  <2>1. RootInv'
    BY <1>r, <1>2 DEF proc_remthread, RootInv, Reaps
  <2>2. ThreadInv'
    BY <1>0, <1>t, <1>2 DEF proc_remthread, ThreadInv, Exited
  <2>3. SleepInv'
    BY <1>s, <1>2 DEF proc_remthread, SleepInv, Exited
  <2> QED BY <2>1, <2>2, <2>3
<1>3. CASE ExitLock(p)
  <2>1. RootInv'
    BY <1>r, <1>3 DEF ExitLock, RootInv, Reaps
  <2>2. ThreadInv'
    BY <1>t, <1>3 DEF ExitLock, ThreadInv, Exited
  <2>3. SleepInv'
    BY <1>s, <1>3 DEF ExitLock, SleepInv, Exited
  <2> QED BY <2>1, <2>2, <2>3
<1>4. CASE ExitSignal(p)
  <2>1. RootInv'
    BY <1>0, <1>r, <1>4 DEF ExitSignal, RootInv, Reaps
  <2>2. ThreadInv'
    BY <1>0, <1>t, <1>4, <1>w DEF ExitSignal, ThreadInv, Exited
  <2>3. SleepInv'
    BY <1>0, <1>s, <1>4 DEF ExitSignal, SleepInv, Exited, Reaps
  <2> QED BY <2>1, <2>2, <2>3
<1>5. CASE ExitUnlock(p)
  <2>1. RootInv'
    BY <1>r, <1>5 DEF ExitUnlock, RootInv, Reaps
  <2>2. ThreadInv'
    BY <1>t, <1>5 DEF ExitUnlock, ThreadInv, Exited
  <2>3. SleepInv'
    BY <1>s, <1>5 DEF ExitUnlock, SleepInv, Exited
  <2> QED BY <2>1, <2>2, <2>3
<1>6. CASE WaitCheck(p)
  <2>1. RootInv'
    BY <1>0, <1>r, <1>6 DEF WaitCheck, RootInv, Reaps
  <2>2. ThreadInv'
    BY <1>0, <1>t, <1>6 DEF WaitCheck, ThreadInv, Exited
  <2>3. SleepInv'
    BY <1>0, <1>s, <1>6 DEF WaitCheck, SleepInv, Exited, Reaps
  <2> QED BY <2>1, <2>2, <2>3
<1>7. CASE WaitLock(p)
  <2>1. RootInv'
    BY <1>r, <1>7 DEF WaitLock, RootInv, Reaps
  <2>2. ThreadInv'
    BY <1>t, <1>7 DEF WaitLock, ThreadInv, Exited
  <2>3. SleepInv'
    BY <1>s, <1>7 DEF WaitLock, SleepInv, Exited
  <2> QED BY <2>1, <2>2, <2>3
<1>8. CASE WaitSleep(p)
  <2>1. RootInv'
    BY <1>r, <1>8 DEF WaitSleep, RootInv, Reaps
  <2>2. ThreadInv'
    BY <1>t, <1>8 DEF WaitSleep, ThreadInv, Exited
  <2>3. SleepInv'
    BY <1>0, <1>s, <1>8 DEF WaitSleep, SleepInv, Exited
  <2> QED BY <2>1, <2>2, <2>3
<1>9. CASE WaitUnlock(p)
  <2>1. RootInv'
    BY <1>r, <1>9 DEF WaitUnlock, RootInv, Reaps
  <2>2. ThreadInv'
    BY <1>t, <1>9 DEF WaitUnlock, ThreadInv, Exited
  <2>3. SleepInv'
    BY <1>s, <1>9 DEF WaitUnlock, SleepInv, Exited
  <2> QED BY <2>1, <2>2, <2>3
<1>10. CASE Fault(p)
  <2>1. RootInv'
    BY <1>0, <1>r, <1>10 DEF Fault, UsesFreed, RootInv
  <2>2. ThreadInv'
    BY <1>0, <1>t, <1>10 DEF Fault, UsesFreed, Reaps, ThreadInv, Exited
  <2>3. SleepInv'
    BY <1>s, <1>10 DEF Fault, UsesFreed, SleepInv, Exited
  <2> QED BY <2>1, <2>2, <2>3
<1>11. CASE get_valid_pid(p)
  <2>1. RootInv'
    BY <1>r, <1>11 DEF get_valid_pid, RootInv, Reaps
  <2>2. ThreadInv'
    BY <1>t, <1>11 DEF get_valid_pid, ThreadInv, Exited
  <2>3. SleepInv'
    BY <1>s, <1>11 DEF get_valid_pid, SleepInv, Exited
  <2> QED BY <2>1, <2>2, <2>3
<1>12. CASE sys__exit(p)
  <2>1. RootInv'
    BY <1>r, <1>12 DEF sys__exit, RootInv, Reaps
  <2>2. ThreadInv'
    BY <1>t, <1>12 DEF sys__exit, ThreadInv, Exited
  <2>3. SleepInv'
    BY <1>s, <1>12 DEF sys__exit, SleepInv, Exited
  <2> QED BY <2>1, <2>2, <2>3
<1>13. CASE ENPROC(p) \/ WaitRefused(p) \/ WaitNoStatus(p) \/ WaitNohang(p)
  <2>1. UNCHANGED <<stage, p_pid, father_pid, child_list, p_numthreads, pc, target, cv_waiters>>
    BY <1>13 DEF ENPROC, WaitRefused, WaitNoStatus, WaitNohang
  <2> QED BY <1>r, <1>s, <1>t, <2>1 DEF RootInv, ThreadInv, SleepInv, Exited
<1>14. CASE sys_waitpid(p)
  <2>1. RootInv'
    BY <1>r, <1>14 DEF sys_waitpid, RootInv
  <2>2. ThreadInv'
    BY <1>t, <1>14 DEF sys_waitpid, ThreadInv, Exited
  <2>3. SleepInv'
    BY <1>s, <1>14 DEF sys_waitpid, SleepInv, Exited
  <2> QED BY <2>1, <2>2, <2>3
<1> QED BY <1>1, <1>2, <1>3, <1>4, <1>5, <1>6, <1>7, <1>8, <1>9, <1>10, <1>11, <1>12, <1>13,
           <1>14 DEF QuietAction

-----------------------------------------------------------------------------
(* waitpid and proc_destroy.                                               *)

(* proc_search_pid returns the caller's child, or nothing, even when       *)
(* add_newp has put another process into the entry.                        *)
LEMMA SearchStep ==
  ASSUME IInv, NEW p \in AllProcs, WaitSearch(p)
  PROVE  RootInv' /\ ThreadInv' /\ PidInv' /\ TargetInv' /\ NewInv' /\ TreeInv' /\ SleepInv'
<1>0. /\ pc[p] = "search" /\ idx[p] \in child_list[p] /\ target[p] = NoProc /\ new[p] = NoProc
      /\ stage[p] = "live" /\ p_numthreads[p] = 1
  BY ActiveIsLive DEF WaitSearch, IInv, TargetInv, NewInv, Reaps, Exited
<1>1. /\ pc \in [AllProcs -> Points] /\ target \in [AllProcs -> Procs \cup {NoProc}]
      /\ new \in [AllProcs -> Procs \cup {NoProc}] /\ idx \in [AllProcs -> 0 .. MAX_PROC]
  BY DEF IInv, TypeOK
<1>2. UNCHANGED tableVars /\ UNCHANGED treeVars /\ UNCHANGED runVars /\ UNCHANGED monVars
  BY DEF WaitSearch
<1>3. \A r \in AllProcs : pc[r] \in {"wait_relock", "wait_unlock"} => target[r] \in Procs
  BY TargetFacts DEF Reaps
<1>4. PidInv'
  BY <1>2 DEF IInv, PidInv, UniquePids
<1>5. CASE \E q \in Procs :
             /\ Finds(idx[p], q)
             /\ target' = [target EXCEPT ![p] = q]
             /\ Goto(p, "check")
             /\ UNCHANGED <<new, idx>>
  <2>0. PICK q \in Procs :
          /\ Finds(idx[p], q)
          /\ target' = [target EXCEPT ![p] = q]
          /\ Goto(p, "check")
          /\ UNCHANGED <<new, idx>>
    BY <1>5, Zenon
  <2>1. stage[q] = "live" /\ p_pid[q] = idx[p] /\ q # NoProc
    BY <2>0 DEF Finds
  <2>2. PICK c \in Procs : p_pid[c] = idx[p] /\ father_pid[c] = p_pid[p] /\ stage[c] = "live"
    BY <1>0 DEF IInv, TreeInv, ChildrenInv, Held
  <2>3. father_pid[q] = p_pid[p] /\ p_pid[q] \in child_list[p]
    BY <1>0, <2>1, <2>2, LiveDiffer
  <2>4. /\ pc'[p] = "check" /\ target'[p] = q /\ new' = new /\ idx' = idx
        /\ \A r \in AllProcs \ {p} : pc'[r] = pc[r] /\ target'[r] = target[r]
    BY <1>1, <2>0
  <2> QED BY <1>0, <1>2, <2>1, <2>3, <2>4, TakeStep DEF Exited
<1>6. CASE (Goto(p, "panic") /\ UNCHANGED <<new, idx, target>>) \/ Return(p)
  <2>1. /\ pc'[p] \in {"panic", Home(p)} /\ target' = target /\ new' = new
        /\ \A r \in AllProcs \ {p} : pc'[r] = pc[r] /\ idx'[r] = idx[r]
    BY <1>0, <1>1, <1>6 DEF Return
  <2> QED BY <1>0, <1>2, <2>1, StopStep DEF Exited
<1> QED BY <1>5, <1>6, Zenon DEF WaitSearch

(* A process that is being created is destroyed by nobody but its creator. *)
LEMMA NewIsNotDestroyed ==
  ASSUME IInv, ~ Panicked, NEW p \in AllProcs, NEW r \in AllProcs \ {p},
         pc[p] = "destroy", target[p] \in Procs, stage[p] = "live", target[p] # NoProc
  PROVE  new[r] # target[p]
<1> SUFFICES ASSUME new[r] = target[p] PROVE FALSE
  OBVIOUS
<1>1. stage[r] = "live" /\ new[r] # NoProc
  BY NotLive
<1>2. target[r] = NoProc
  BY <1>1, TargetsDiffer DEF IInv, NewInv
<1>3. new[p] # new[r]
  BY <1>1 DEF IInv, NewInv
<1>4. father_pid[new[r]] = p_pid[p] /\ p_pid[p] # -1
  BY <1>3 DEF IInv, TargetInv, TypeOK
<1>5. pc[r] \in {"add_newp", "thread_fork"}
  BY <1>1, <1>2, <1>4 DEF IInv, NewInv, TargetInv, Reaps, Panicked
<1>6. p_pid[r] = p_pid[p]
  BY <1>1, <1>4, <1>5 DEF IInv, NewInv
<1> QED BY <1>1, <1>6, LiveDiffer

(* proc_destroy up to the middle of proc_deinit: the struct is leaving,    *)
(* and the only thread that has it is the one whose child it is.           *)
LEMMA DestroyStep ==
  ASSUME IInv, ~ Panicked, NEW p \in AllProcs, proc_destroy(p)
  PROVE  RootInv' /\ ThreadInv' /\ PidInv' /\ TargetInv' /\ NewInv' /\ TreeInv' /\ SleepInv'
<1> DEFINE q == target[p]
<1>0. /\ pc[p] = "destroy" /\ stage[q] = "live" /\ q \in Procs /\ q # NoProc /\ q # KProc
      /\ stage[p] = "live" /\ p_numthreads[p] = 1 /\ p_pid[q] \in Pids
  BY TargetFacts, ActiveIsLive, ProcessAssumption DEF proc_destroy, IInv, PidInv, Reaps, Exited
<1>1. /\ pc \in [AllProcs -> Points] /\ target \in [AllProcs -> Procs \cup {NoProc}]
      /\ new \in [AllProcs -> Procs \cup {NoProc}] /\ stage \in [AllProcs -> {"unused", "live", "freed"}]
      /\ table \in [Pids -> Procs \cup {NoProc}]
  BY DEF IInv, TypeOK
<1>2. UNCHANGED runVars /\ UNCHANGED monVars /\ UNCHANGED locals /\ UNCHANGED <<p_pid, father_pid, child_list>>
  BY DEF proc_destroy
<1>3. \A r \in AllProcs : pc[r] \in {"wait_relock", "wait_unlock"} => target[r] \in Procs
  BY TargetFacts DEF Reaps
<1>4. pc'[p] \in {"unlink", "panic"} /\ \A r \in AllProcs \ {p} : pc'[r] = pc[r]
  BY <1>1 DEF proc_destroy
<1>5. SleepInv'
  BY <1>0, <1>2, <1>3, <1>4 DEF IInv, TypeOK, SleepInv, Exited
<1>6. \A f \in AllProcs : Held(f)' <=> Held(f)
  BY <1>1 DEF proc_destroy, Held, Targeted
<1>7. CASE Goto(p, "panic") /\ UNCHANGED <<table, stage>>
  <2>1. pc'[p] = "panic" /\ UNCHANGED idx
    BY <1>1, <1>2, <1>7
  <2> QED BY <1>0, <1>2, <1>4, <1>7, StopStep DEF Exited
<1>8. CASE /\ p_numthreads[q] = 0
           /\ table' = FreeEntry(q)
           /\ stage' = [stage EXCEPT ![q] = "freed"]
           /\ Goto(p, "unlink")
  <2>0. /\ stage'[q] = "freed" /\ \A r \in AllProcs \ {q} : stage'[r] = stage[r]
        /\ pc'[p] = "unlink" /\ p # q
    BY <1>0, <1>1, <1>8
  <2>1. RootInv'
    BY <1>0, <1>2, <1>4, <2>0 DEF IInv, RootInv, Reaps
  <2>2. ThreadInv'
    BY <1>0, <1>2, <1>8 DEF IInv, ThreadInv, Exited
  <2>3. PidInv'
    BY <1>0, <1>2, <1>8, <2>0 DEF IInv, PidInv, UniquePids, FreeEntry
  <2>4. \A r \in AllProcs \ {p} : target[r] # q
    BY <1>0, TargetsDiffer
  <2>5. TargetInv'
    BY <1>0, <1>1, <1>2, <1>4, <2>0, <2>4 DEF IInv, TargetInv, Reaps
  <2>6. \A r \in AllProcs \ {p} : new[r] # q
    BY <1>0, NewIsNotDestroyed
  <2>7. NewInv'
    BY <1>0, <1>1, <1>2, <1>4, <1>6, <2>0, <2>6 DEF IInv, NewInv
  <2>8. TreeInv'
    <3>1. \A f \in AllProcs : /\ Held(f) /\ p_pid[q] \in child_list[f] /\ father_pid[q] = p_pid[f]
                              => f = p
      <4>1. Held(p) /\ p_pid[p] # -1
        BY <1>0 DEF IInv, TypeOK, Held
      <4>2. \A f \in AllProcs : p_pid[f] # -1
        BY DEF IInv, TypeOK
      <4> QED BY <1>0, <4>1, <4>2 DEF IInv, TargetInv, TreeInv, ListsInv
    <3>2. ChildrenInv'
      BY <1>2, <1>6, <2>0, <3>1 DEF IInv, TreeInv, ChildrenInv
    <3>3. FathersInv'
      BY <1>2, <1>6 DEF IInv, TreeInv, FathersInv
    <3>4. ListsInv'
      BY <1>2, <1>6 DEF IInv, TreeInv, ListsInv
    <3>5. ASSUME NEW r \in AllProcs, NEW c \in Procs,
                 target'[r] # NoProc, stage'[target'[r]] = "freed",
                 father_pid'[target'[r]] = p_pid'[r],
                 stage'[c] = "live", p_pid'[c] = p_pid'[target'[r]]
          PROVE  father_pid'[c] # p_pid'[r]
      <4>1. target[r] \in Procs /\ c # q /\ stage[c] = "live"
        BY <1>1, <1>2, <2>0, <3>5
      <4>2. CASE r = p
        BY <1>0, <1>2, <3>5, <4>1, <4>2, LiveDiffer
      <4>3. CASE r # p
        BY <1>2, <2>0, <2>4, <3>5, <4>1, <4>3 DEF IInv, TreeInv, ReuseInv
      <4> QED BY <4>2, <4>3
    <3> QED BY <3>2, <3>3, <3>4, <3>5 DEF TreeInv, ReuseInv
  <2> QED BY <1>5, <2>1, <2>2, <2>3, <2>5, <2>7, <2>8
<1> QED BY <1>7, <1>8 DEF proc_destroy

-----------------------------------------------------------------------------
(* What waitpid finds.                                                     *)

(* A process that somebody's waitpid has found has been started.           *)
LEMMA FoundIsStarted ==
  ASSUME IInv, ~ Panicked, NEW p \in AllProcs, pc[p] \in Reaps \ {"destroy", "unlink"}
  PROVE  pc[target[p]] # "none"
<1> SUFFICES ASSUME pc[target[p]] = "none" PROVE FALSE
  OBVIOUS
<1>1. /\ target[p] \in Procs /\ stage[target[p]] = "live" /\ stage[p] = "live" /\ new[p] = NoProc
      /\ target[p] # NoProc
  BY TargetFacts, ActiveIsLive, ProcessAssumption DEF Reaps, Exited, IInv, NewInv
<1>2. father_pid[target[p]] = p_pid[p] /\ father_pid[target[p]] # -1
  BY <1>1 DEF IInv, TargetInv, TypeOK
<1>3. PICK r \in AllProcs : new[r] = target[p]
  BY <1>1, <1>2 DEF IInv, NewInv, Held
<1>4. r # p /\ stage[r] = "live" /\ target[r] # target[p]
  BY <1>1, <1>3, NotLive, TargetsDiffer
<1>5. pc[r] \in {"add_newp", "thread_fork"}
  BY <1>2, <1>3, <1>4 DEF IInv, NewInv, TargetInv, Reaps, Panicked
<1>6. p_pid[r] = p_pid[p]
  BY <1>2, <1>3, <1>5 DEF IInv, NewInv
<1> QED BY <1>1, <1>4, <1>6, LiveDiffer

-----------------------------------------------------------------------------
(* What proc_deinit finds.                                                 *)

(* delete_child_list finds children of q only: when a live process has the *)
(* pid that q had, its children are not among them.                        *)
LEMMA FoundAreChildren ==
  ASSUME IInv, NEW p \in AllProcs, pc[p] = "unlink", NEW c \in Found(child_list[target[p]])
  PROVE  /\ c \in Procs /\ stage[c] = "live" /\ p_pid[c] \in child_list[target[p]]
         /\ father_pid[c] = p_pid[target[p]]
         /\ \A g \in AllProcs : Held(g) /\ g # target[p] /\ p_pid[g] = father_pid[c] =>
              p_pid[c] \notin child_list[g]
<1> DEFINE q == target[p]
<1>1. q \in Procs /\ stage[q] = "freed" /\ target[q] = NoProc /\ Held(q)
  BY TargetFacts, NotLive DEF Reaps, Held, Targeted
<1>2. c \in Procs /\ stage[c] = "live" /\ p_pid[c] \in child_list[q]
  BY DEF Found, Finds
<1>3. PICK d \in Procs : p_pid[d] = p_pid[c] /\ father_pid[d] = p_pid[q] /\ stage[d] = "live"
  BY <1>1, <1>2 DEF IInv, TreeInv, ChildrenInv
<1>4. father_pid[c] = p_pid[q]
  BY <1>2, <1>3, LiveDiffer
<1> QED BY <1>1, <1>2, <1>4 DEF IInv, TreeInv, ListsInv

(* The father that proc_deinit looks up is the process that reaps q, and   *)
(* only this child leaves its list.                                        *)
LEMMA FatherIsReaper ==
  ASSUME IInv, NEW p \in AllProcs, pc[p] = "unlink", NEW f \in Father(target[p])
  PROVE  f = p /\ father_pid[target[p]] = p_pid[p]
<1>1. /\ stage[p] = "live" /\ target[p] \in Procs /\ f \in AllProcs
      /\ stage[f] = "live" /\ p_pid[f] = father_pid[target[p]]
  BY TargetFacts, ActiveIsLive DEF Reaps, Exited, Father, Finds, IInv, RootInv
<1>2. father_pid[target[p]] # -1
  BY <1>1 DEF IInv, TypeOK
<1>3. father_pid[target[p]] = p_pid[p]
  BY <1>1, <1>2 DEF IInv, TargetInv
<1> QED BY <1>1, <1>3, LiveDiffer

=============================================================================
