----------------------------- MODULE ProcessFork ----------------------------
(***************************************************************************)
(* The steps of Process that create a process and start its thread keep    *)
(* the invariant: proc_create_runprogram, the copy of the father, add_newp *)
(* and thread_fork.                                                        *)
(***************************************************************************)
EXTENDS ProcessInvariant

USE Everyone, SMTT(30) DEF tableVars, treeVars, runVars, monVars, locals, vars, Goto

(* A process that is not used yet is nobody's.                             *)
LEMMA UnusedFacts ==
  ASSUME IInv, NEW n \in Procs, stage[n] = "unused"
  PROVE  /\ pc[n] = "none" /\ father_pid[n] = -1 /\ child_list[n] = {} /\ n # KProc
         /\ \A r \in AllProcs : target[r] # n /\ new[r] # n
         /\ target[n] = NoProc /\ new[n] = NoProc /\ p_numthreads[n] = 0
<1>1. pc[n] = "none" /\ father_pid[n] = -1 /\ child_list[n] = {} /\ n # KProc
  BY ProcessAssumption DEF IInv, ThreadInv
<1>2. \A r \in AllProcs : target[r] # n /\ new[r] # n
  BY DEF IInv, TargetInv, NewInv
<1> QED BY <1>1, <1>2, NotLive DEF IInv, ThreadInv, TypeOK

(* proc_create_runprogram: the new process has a pid that no live process  *)
(* has, although a dying one may have it, and is in nobody's child list.   *)
LEMMA CreateStep ==
  ASSUME IInv, NEW p \in AllProcs, proc_create_runprogram(p), UNCHANGED runVars, UNCHANGED monVars,
         pc[p] = IF p = KProc THEN "menu" ELSE "create"
  PROVE  RootInv' /\ ThreadInv' /\ PidInv' /\ TargetInv' /\ NewInv' /\ TreeInv' /\ SleepInv'
<1>0. /\ new[p] = NoProc /\ target[p] = NoProc /\ stage[p] = "live" /\ p_numthreads[p] = 1
      /\ pc \in [AllProcs -> Points] /\ idx \in [AllProcs -> 0 .. MAX_PROC]
      /\ new \in [AllProcs -> Procs \cup {NoProc}] /\ target \in [AllProcs -> Procs \cup {NoProc}]
  BY ActiveIsLive DEF IInv, TypeOK, NewInv, TargetInv, Reaps, Exited
<1>1. /\ \A r \in AllProcs \ {p} : pc'[r] = pc[r] /\ new'[r] = new[r] /\ idx'[r] = idx[r]
      /\ target' = target
      /\ pc'[p] = Home(p) \/ pc'[p] = "copy"
  <2>1. CASE Return(p)
    BY <1>0, <2>1 DEF Return
  <2>2. CASE ~ Return(p)
    BY <1>0, <2>2 DEF proc_create_runprogram
  <2> QED BY <2>1, <2>2
<1>2. SleepInv'
  <2>1. \A r \in AllProcs : pc[r] \in {"wait_relock", "wait_unlock"} => target[r] \in Procs
    BY TargetFacts DEF Reaps
  <2> QED BY <1>0, <1>1, <2>1, ProcessAssumption DEF IInv, TypeOK, SleepInv, Exited, Home
<1>3. CASE Return(p) /\ UNCHANGED tableVars /\ UNCHANGED treeVars
  <2>1. Quiet
    BY <1>0, <1>3 DEF Quiet, Rests, Moves, Return, Reaps, Home
  <2>2. RootInv'
    BY <1>3 DEF IInv, RootInv, Return, Home
  <2>3. ThreadInv'
    BY <1>3 DEF IInv, ThreadInv, Return, Home, Exited
  <2> QED BY <1>2, <2>1, <2>2, <2>3, QuietStep
<1>4. CASE ~ (Return(p) /\ UNCHANGED tableVars /\ UNCHANGED treeVars)
  <2>1. PICK n \in Procs :
          /\ stage[n] = "unused"
          /\ Enter(n)
          /\ \/ /\ stage' = [stage EXCEPT ![n] = "live"]
                /\ new' = [new EXCEPT ![p] = n]
                /\ Goto(p, "copy")
             \/ stage' \in {[stage EXCEPT ![n] = "live"], [stage EXCEPT ![n] = "freed"]}
                /\ Return(p)
    BY <1>4, Zenon DEF proc_create_runprogram
  <2>2. UNCHANGED <<father_pid, child_list>>
    BY DEF proc_create_runprogram
  <2>3. PICK i \in Pids : /\ table[i] = NoProc
                          /\ table' = [table EXCEPT ![i] = n]
                          /\ p_pid' = [p_pid EXCEPT ![n] = i]
    BY <2>1, Zenon DEF Enter, FirstFree, Candidates
  <2>4. /\ pc[n] = "none" /\ father_pid[n] = -1 /\ child_list[n] = {} /\ n # KProc /\ n # p
        /\ \A r \in AllProcs : target[r] # n /\ new[r] # n
        /\ p_numthreads[n] = 0 /\ n # NoProc
    BY <2>1, UnusedFacts
  <2>5. /\ \A q \in AllProcs \ {n} : stage'[q] = stage[q] /\ p_pid'[q] = p_pid[q]
        /\ stage'[n] \in {"live", "freed"} /\ p_pid'[n] = i
        /\ \A j \in Pids : table[j] # NoProc => table'[j] # NoProc
        /\ table'[i] = n
    BY <2>1, <2>3 DEF IInv, TypeOK
  <2>6. \/ pc'[p] = "copy" /\ new'[p] = n /\ stage'[n] = "live"
        \/ pc'[p] = Home(p) /\ new'[p] = NoProc
    BY <2>1 DEF Return, IInv, TypeOK
  <2>7. RootInv'
    BY <1>1, <2>2, <2>4, <2>5 DEF IInv, RootInv, Home
  <2>8. ThreadInv'
    BY <1>1, <2>2, <2>4, <2>5 DEF IInv, ThreadInv, Home, Exited
  <2>9. PidInv'
    <3>1. \A q \in Procs : stage[q] = "live" => p_pid[q] # i /\ p_pid[q] \in Pids
      BY <2>3 DEF IInv, PidInv
    <3> QED BY <2>3, <2>5 DEF IInv, PidInv, UniquePids
  <2>10. TargetInv'
    BY <1>1, <2>2, <2>4, <2>5 DEF IInv, TypeOK, TargetInv, Reaps, Home
  <2>11. \A q \in AllProcs \ {n} : Held(q)' <=> Held(q)
    BY <1>1, <2>5 DEF Held, Targeted
  <2>12. NewInv'
    BY <1>0, <1>1, <2>2, <2>4, <2>5, <2>6, <2>11 DEF IInv, NewInv, Home
  <2>13. TreeInv'
    <3>0. \A f \in AllProcs : p_pid[f] # -1
      BY DEF IInv, TypeOK
    <3>1. ChildrenInv'
      BY <1>1, <2>2, <2>4, <2>5, <2>11, <3>0 DEF IInv, TreeInv, ChildrenInv
    <3>2. FathersInv'
      BY <2>2, <2>4, <2>5, <2>11 DEF IInv, TreeInv, FathersInv
    <3>3. ListsInv'
      BY <2>2, <2>4, <2>5, <2>11 DEF IInv, TreeInv, ListsInv
    <3>4. ASSUME NEW r \in AllProcs, NEW c \in Procs,
                 target'[r] # NoProc, stage'[target'[r]] = "freed",
                 father_pid'[target'[r]] = p_pid'[r],
                 stage'[c] = "live", p_pid'[c] = p_pid'[target'[r]]
          PROVE  father_pid'[c] # p_pid'[r]
      <4>1. target'[r] = target[r] /\ target[r] \in AllProcs \ {n}
        BY <1>0, <1>1, <2>4, <3>4
      <4>2. CASE r = n
        BY <4>1, <4>2, <2>1, NotLive
      <4>3. CASE r # n /\ c = n
        BY <2>2, <2>4, <2>5, <3>0, <4>3
      <4>4. CASE r # n /\ c # n
        BY <2>2, <2>5, <3>4, <4>1, <4>4 DEF IInv, TreeInv, ReuseInv
      <4> QED BY <4>2, <4>3, <4>4
    <3> QED BY <3>1, <3>2, <3>3, <3>4 DEF TreeInv, ReuseInv
  <2> QED BY <1>2, <2>7, <2>8, <2>9, <2>10, <2>12, <2>13
<1> QED BY <1>3, <1>4 DEF proc_create_runprogram

(* Copy: the new process becomes a child of its creator, or proc_destroy   *)
(* is called for it.                                                       *)
LEMMA CopyStep ==
  ASSUME IInv, NEW p \in AllProcs, Copy(p)
  PROVE  RootInv' /\ ThreadInv' /\ PidInv' /\ TargetInv' /\ NewInv' /\ TreeInv' /\ SleepInv'
<1> DEFINE n == new[p]
<1>0. /\ pc[p] = "copy" /\ n \in Procs /\ stage[n] = "live" /\ target[p] = NoProc /\ n # p
      /\ pc[n] = "none" /\ father_pid[n] = -1 /\ stage[p] = "live" /\ p_numthreads[p] = 1
      /\ n # KProc /\ n # NoProc /\ p_pid[n] \in Pids
  BY NewFacts, ActiveIsLive, ProcessAssumption DEF Copy, IInv, NewInv, Exited
<1>1. /\ pc \in [AllProcs -> Points] /\ target \in [AllProcs -> Procs \cup {NoProc}]
      /\ new \in [AllProcs -> Procs \cup {NoProc}] /\ child_list \in [AllProcs -> SUBSET Pids]
      /\ father_pid \in [AllProcs -> -1 .. MAX_PROC] /\ \A f \in AllProcs : p_pid[f] # -1
  BY DEF IInv, TypeOK
<1>2. UNCHANGED tableVars /\ UNCHANGED runVars /\ UNCHANGED monVars /\ UNCHANGED <<stage, p_pid, new, idx>>
  BY DEF Copy
<1>3. \A r \in AllProcs \ {p} : pc'[r] = pc[r] /\ target'[r] = target[r]
  BY <1>1 DEF Copy
<1>4. PidInv'
  BY <1>2 DEF IInv, PidInv, UniquePids
<1>5. SleepInv'
  <2>1. \A r \in AllProcs : pc[r] \in {"wait_relock", "wait_unlock"} => target[r] \in Procs
    BY TargetFacts DEF Reaps
  <2>2. pc'[p] \in {"thread_fork", "add_newp", "destroy"}
    BY <1>1 DEF Copy
  <2> QED BY <1>0, <1>1, <1>2, <1>3, <2>1, <2>2, ProcessAssumption
             DEF IInv, TypeOK, SleepInv, Exited
<1>6. CASE Adopt(p, n) /\ Goto(p, IF p = KProc THEN "thread_fork" ELSE "add_newp") /\ UNCHANGED target
  <2>0. /\ pc'[p] \in {"thread_fork", "add_newp"} /\ (p = KProc => pc'[p] = "thread_fork")
        /\ father_pid'[n] = p_pid[p] /\ child_list'[p] = child_list[p] \cup {p_pid[n]}
        /\ \A q \in AllProcs \ {n} : father_pid'[q] = father_pid[q]
        /\ \A q \in AllProcs \ {p} : child_list'[q] = child_list[q]
    BY <1>0, <1>1, <1>6 DEF Adopt
  <2>1. RootInv'
    BY <1>0, <1>2, <1>3, <2>0 DEF IInv, RootInv
  <2>2. ThreadInv'
    BY <1>0, <1>2, <1>3, <2>0 DEF IInv, ThreadInv, Exited
  <2>3. TargetInv'
    <3>1. \A r \in AllProcs : target[r] # n
      BY <1>0, <1>1 DEF IInv, TargetInv, NewInv
    <3>2. pc'[p] \notin Reaps \cup {"search"} /\ target' = target
      BY <1>6, <2>0 DEF Reaps
    <3> QED BY <1>0, <1>1, <1>2, <1>3, <2>0, <3>1, <3>2 DEF IInv, TargetInv
  <2>4. \A q \in AllProcs : Held(q)' <=> Held(q)
    BY <1>2, <1>6 DEF Held, Targeted
  <2>5. NewInv'
    BY <1>0, <1>1, <1>2, <1>6, <2>0, <2>4 DEF IInv, NewInv
  <2>6. TreeInv'
    <3>1. \A f \in AllProcs : Held(f) /\ f # p /\ p_pid[f] = p_pid[p] => p_pid[n] \notin child_list[f]
      <4> SUFFICES ASSUME NEW f \in AllProcs, Held(f), f # p, p_pid[f] = p_pid[p],
                          p_pid[n] \in child_list[f]
                   PROVE  FALSE
        OBVIOUS
      <4>1. stage[f] # "live"
        BY <1>0, LiveDiffer
      <4>2. target[f] = NoProc
        BY <4>1, NotLive
      <4>3. PICK c \in Procs : p_pid[c] = p_pid[n] /\ father_pid[c] = p_pid[f] /\ stage[c] = "live"
        BY <4>2 DEF IInv, TreeInv, ChildrenInv
      <4>4. c = n
        BY <1>0, <4>3, LiveDiffer
      <4> QED BY <1>0, <1>1, <4>3, <4>4
    <3>2. ChildrenInv'
      BY <1>0, <1>1, <1>2, <1>6, <2>0, <2>4 DEF IInv, TreeInv, ChildrenInv
    <3>3. FathersInv'
      <4>1. Held(p)
        BY <1>0 DEF Held
      <4> QED BY <1>2, <2>0, <2>4, <4>1 DEF IInv, TreeInv, FathersInv
    <3>4. ListsInv'
      BY <1>2, <2>0, <2>4, <3>1 DEF IInv, TreeInv, ListsInv
    <3>5. ASSUME NEW r \in AllProcs, NEW c \in Procs,
                 target'[r] # NoProc, stage'[target'[r]] = "freed",
                 father_pid'[target'[r]] = p_pid'[r],
                 stage'[c] = "live", p_pid'[c] = p_pid'[target'[r]]
          PROVE  father_pid'[c] # p_pid'[r]
      <4>1. target[r] \in Procs /\ target[r] # n /\ stage[r] = "live" /\ r # p
        BY <1>0, <1>1, <1>2, <1>6, <3>5, NotLive
      <4>2. CASE c = n
        BY <1>0, <1>2, <2>0, <4>1, <4>2, LiveDiffer
      <4>3. CASE c # n
        BY <1>2, <1>6, <2>0, <3>5, <4>1, <4>3 DEF IInv, TreeInv, ReuseInv
      <4> QED BY <4>2, <4>3
    <3> QED BY <3>2, <3>3, <3>4, <3>5 DEF TreeInv, ReuseInv
  <2> QED BY <1>4, <1>5, <2>1, <2>2, <2>3, <2>5, <2>6
<1>7. CASE target' = [target EXCEPT ![p] = n] /\ Goto(p, "destroy") /\ UNCHANGED <<father_pid, child_list>>
  <2>1. pc'[p] = "destroy" /\ target'[p] = n
    BY <1>1, <1>7
  <2> QED BY <1>0, <1>2, <1>3, <1>7, <2>1, TakeStep DEF Exited
<1> QED BY <1>6, <1>7 DEF Copy

(* add_newp: whatever entry it takes, no entry becomes free.               *)
LEMMA AddNewpStep ==
  ASSUME IInv, NEW p \in AllProcs, add_newp(p)
  PROVE  RootInv' /\ ThreadInv' /\ PidInv' /\ TargetInv' /\ NewInv' /\ TreeInv' /\ SleepInv'
<1>0. /\ pc[p] = "add_newp" /\ pc'[p] = "thread_fork" /\ new[p] \in Procs \ {NoProc}
      /\ p # KProc /\ pc'[p] \notin Reaps /\ target[p] = NoProc
      /\ \A r \in AllProcs : new[r] \in Procs \cup {NoProc}
      /\ \A r \in AllProcs \ {p} : pc'[r] = pc[r]
      /\ UNCHANGED <<stage, p_pid, father_pid, child_list, p_numthreads, cv_waiters, new, idx, target>>
  BY NewFacts, ProcessAssumption DEF add_newp, IInv, TypeOK, TargetInv, RootInv, Reaps
<1>1. RootInv'
  BY <1>0 DEF IInv, RootInv
<1>2. ThreadInv'
  BY <1>0 DEF IInv, ThreadInv, Exited
<1>3. PidInv'
  BY <1>0 DEF add_newp, IInv, PidInv, UniquePids
<1>4. TargetInv'
  BY <1>0 DEF IInv, TargetInv
<1>5. \A q \in AllProcs : Held(q)' <=> Held(q)
  BY <1>0 DEF Held, Targeted
<1>6. NewInv'
  BY <1>0, <1>5 DEF IInv, NewInv
<1>7. TreeInv'
  BY <1>0, <1>5, TreeFrame, Zenon DEF IInv
<1>8. SleepInv'
  BY <1>0, SleepFrame DEF Exited
<1> QED BY <1>1, <1>2, <1>3, <1>4, <1>6, <1>7, <1>8

(* thread_fork: the new process gets its thread, or is destroyed.          *)
LEMMA ThreadForkStep ==
  ASSUME IInv, NEW p \in AllProcs, thread_fork(p)
  PROVE  RootInv' /\ ThreadInv' /\ PidInv' /\ TargetInv' /\ NewInv' /\ TreeInv' /\ SleepInv'
<1> DEFINE n == new[p]
<1>0. /\ pc[p] = "thread_fork" /\ n \in Procs /\ stage[n] = "live" /\ target[p] = NoProc /\ n # p
      /\ pc[n] = "none" /\ father_pid[n] = p_pid[p] /\ p_pid[n] \in child_list[p]
      /\ stage[p] = "live" /\ p_numthreads[p] = 1 /\ n # KProc /\ n # NoProc
      /\ target[n] = NoProc /\ new[n] = NoProc /\ child_list[n] = {}
  <2>1. pc[p] = "thread_fork" /\ pc[n] = "none" /\ n # p /\ n \in Procs /\ stage[n] = "live"
    BY NewFacts DEF thread_fork
  <2>2. target[n] = NoProc /\ new[n] = NoProc /\ child_list[n] = {}
    BY <2>1 DEF IInv, TargetInv, NewInv, ThreadInv
  <2> QED BY <2>1, <2>2, NewFacts, ActiveIsLive, ProcessAssumption DEF IInv, NewInv, Exited
<1>1. /\ pc \in [AllProcs -> Points] /\ target \in [AllProcs -> Procs \cup {NoProc}]
      /\ new \in [AllProcs -> Procs \cup {NoProc}] /\ child_list \in [AllProcs -> SUBSET Pids]
      /\ father_pid \in [AllProcs -> -1 .. MAX_PROC] /\ \A f \in AllProcs : p_pid[f] # -1
      /\ idx \in [AllProcs -> 0 .. MAX_PROC] /\ p_numthreads \in [AllProcs -> 0 .. 1]
  BY DEF IInv, TypeOK
<1>2. UNCHANGED tableVars /\ UNCHANGED treeVars /\ UNCHANGED monVars
  BY DEF thread_fork
<1>3. PidInv'
  BY <1>2 DEF IInv, PidInv, UniquePids
<1>4. \A r \in AllProcs : pc[r] \in {"wait_relock", "wait_unlock"} => target[r] \in Procs
  BY TargetFacts DEF Reaps
<1>5. \A r \in AllProcs : target[r] # n
  <2>1. ASSUME NEW r \in AllProcs, target[r] = n PROVE FALSE
    <3>1. father_pid[n] = p_pid[r] /\ stage[r] = "live"
      BY <1>0, <1>1, <2>1, NotLive DEF IInv, TargetInv
    <3> QED BY <1>0, <2>1, <3>1, LiveDiffer, Zenon
  <2> QED BY <2>1
<1>6. CASE /\ p_numthreads' = [p_numthreads EXCEPT ![n] = 1]
           /\ pc' = [pc EXCEPT ![p] = IF p = KProc THEN "search" ELSE "user",
                               ![n] = IF p = KProc THEN "start" ELSE "user"]
           /\ idx' = [idx EXCEPT ![p] = IF p = KProc THEN p_pid[n] ELSE 0]
           /\ new' = [new EXCEPT ![p] = NoProc]
           /\ UNCHANGED target
  <2>0. /\ \A r \in AllProcs \ {p, n} : pc'[r] = pc[r]
        /\ pc'[p] = IF p = KProc THEN "search" ELSE "user"
        /\ pc'[n] = IF p = KProc THEN "start" ELSE "user"
        /\ \A r \in AllProcs \ {p} : new'[r] = new[r] /\ idx'[r] = idx[r]
        /\ new'[p] = NoProc /\ p_numthreads'[n] = 1 /\ (p = KProc => idx'[p] = p_pid[n])
        /\ \A r \in AllProcs \ {n} : p_numthreads'[r] = p_numthreads[r]
    BY <1>0, <1>1, <1>6
  <2>1. RootInv'
    BY <1>0, <1>2, <2>0 DEF IInv, RootInv
  <2>2. ThreadInv'
    BY <1>0, <1>2, <2>0 DEF IInv, ThreadInv, Exited
  <2>3. TargetInv'
    <3>1. target'[p] = NoProc /\ target'[n] = NoProc /\ pc'[n] # "search"
      BY <1>0, <1>6, <2>0
    <3>2. pc'[p] \notin Reaps /\ pc'[n] \notin Reaps
      BY <2>0 DEF Reaps
    <3>3. pc'[p] = "search" => idx'[p] \in child_list'[p]
      BY <1>0, <1>2, <2>0
    <3>4. \A r \in AllProcs \ {p, n} : pc'[r] = pc[r] /\ new'[r] = new[r] /\ idx'[r] = idx[r]
      BY <2>0
    <3>5. target' = target
      BY <1>6
    <3> QED BY <1>2, <3>1, <3>2, <3>3, <3>4, <3>5 DEF IInv, TargetInv
  <2>4. \A q \in AllProcs : Held(q)' <=> Held(q)
    BY <1>2, <1>6 DEF Held, Targeted
  <2>5. NewInv'
    BY <1>0, <1>1, <1>2, <1>6, <2>4 DEF IInv, NewInv
  <2>6. TreeInv'
    BY <1>2, <1>6, <2>4, TreeFrame DEF IInv
  <2>7. SleepInv'
    BY <1>0, <1>1, <1>2, <1>4, <1>6, <2>0 DEF IInv, TypeOK, SleepInv, Exited
  <2> QED BY <1>3, <2>1, <2>2, <2>3, <2>5, <2>6, <2>7
<1>7. CASE target' = [target EXCEPT ![p] = n] /\ Goto(p, "destroy") /\ UNCHANGED <<p_numthreads, new, idx>>
  <2>1. /\ pc'[p] = "destroy" /\ target'[p] = n
        /\ \A r \in AllProcs \ {p} : pc'[r] = pc[r] /\ target'[r] = target[r]
    BY <1>1, <1>7
  <2>2. pc[p] \notin {"none", "asleep"} /\ ~ Exited(p)
    BY <1>0 DEF Exited
  <2> QED BY <1>0, <1>2, <1>7, <2>1, <2>2, TakeStep, Zenon
<1> QED BY <1>6, <1>7 DEF thread_fork
=============================================================================
