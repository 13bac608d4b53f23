--------------------------- MODULE ProcessProofs ----------------------------
(***************************************************************************)
(* The end of proc_destroy, proc_deinit, keeps the invariant, and so does  *)
(* every step; the theorems about Process.                                 *)
(***************************************************************************)
EXTENDS ProcessFork, ProcessWait

USE Everyone, SMTT(30) DEF tableVars, treeVars, runVars, monVars, locals, vars, Goto

(* proc_deinit: the struct leaves the tree, its children become orphans.   *)
LEMMA DeinitStep ==
  ASSUME IInv, NEW p \in AllProcs, proc_deinit(p)
  PROVE  RootInv' /\ ThreadInv' /\ PidInv' /\ TargetInv' /\ NewInv' /\ TreeInv' /\ SleepInv'
<1>q. PICK q \in Procs : q = target[p]
  BY TargetFacts DEF proc_deinit, Reaps
<1> DEFINE Orphaned == Found(child_list[q]) \cup {q}
<1>0. /\ pc[p] = "unlink" /\ stage[q] = "freed" /\ q \in Procs /\ q # NoProc /\ q # KProc
      /\ stage[p] = "live" /\ p_numthreads[p] = 1 /\ p # q
      /\ target[q] = NoProc /\ new[q] = NoProc /\ pc[q] \notin Reaps \cup {"search", "panic"}
      /\ target[p] = q
  BY <1>q, TargetFacts, ActiveIsLive, NotLive, ProcessAssumption DEF proc_deinit, Reaps, Exited
<1>1. /\ pc \in [AllProcs -> Points] /\ target \in [AllProcs -> Procs \cup {NoProc}]
      /\ new \in [AllProcs -> Procs \cup {NoProc}] /\ idx \in [AllProcs -> 0 .. MAX_PROC]
      /\ p_pid \in [AllProcs -> 0 .. MAX_PROC] /\ child_list \in [AllProcs -> SUBSET Pids]
      /\ \A f \in AllProcs : p_pid[f] # -1
  BY DEF IInv, TypeOK
<1>2. UNCHANGED tableVars /\ UNCHANGED monVars /\ UNCHANGED <<stage, p_numthreads>>
  BY DEF proc_deinit
<1>3. \A r \in AllProcs \ {p} : target[r] # q
  BY <1>0, TargetsDiffer
<1>4. CASE Goto(p, "panic") /\ UNCHANGED <<p_pid, p_status, father_pid, child_list, new, idx, target>>
  <2>0. pc'[p] = "panic" /\ \A r \in AllProcs \ {p} : pc'[r] = pc[r]
    BY <1>1, <1>4
  <2> QED BY <1>0, <1>2, <1>4, <2>0, StopStep DEF Exited
<1>5. CASE ~ (Goto(p, "panic") /\ UNCHANGED <<p_pid, p_status, father_pid, child_list, new, idx, target>>)
  <2>0. /\ AllFound(child_list[q]) /\ father_pid' = Orphans(q) /\ Return(p)
        /\ p_pid' = [p_pid EXCEPT ![q] = 0]
        /\ \/ father_pid[q] = -1 /\ child_list' = [child_list EXCEPT ![q] = {}]
           \/ \E f \in Father(q) :
                child_list' = [child_list EXCEPT ![q] = {}, ![f] = @ \ {p_pid[q]}]
    BY <1>q, <1>5, Zenon DEF proc_deinit
  <2>1. /\ pc'[p] = Home(p) /\ target'[p] = NoProc /\ new'[p] = NoProc
        /\ \A r \in AllProcs \ {p} :
             pc'[r] = pc[r] /\ target'[r] = target[r] /\ new'[r] = new[r] /\ idx'[r] = idx[r]
    BY <1>1, <2>0 DEF Return
  <2>2. p_pid'[q] = 0 /\ \A f \in AllProcs \ {q} : p_pid'[f] = p_pid[f]
    BY <1>1, <2>0
  <2>3. \A c \in AllProcs : father_pid'[c] = IF c \in Orphaned THEN -1 ELSE father_pid[c]
    BY <2>0 DEF Orphans
  <2>4. /\ child_list'[q] = {}
        /\ \A g \in AllProcs \ {p, q} : child_list'[g] = child_list[g]
        /\ child_list'[p] \subseteq child_list[p]
        /\ child_list[p] \ child_list'[p] \subseteq {p_pid[q]}
        /\ father_pid[q] = p_pid[p] => p_pid[q] \notin child_list'[p]
        /\ father_pid[q] = -1 => child_list'[p] = child_list[p]
    <3>1. CASE father_pid[q] = -1 /\ child_list' = [child_list EXCEPT ![q] = {}]
      BY <1>0, <1>1, <3>1
    <3>2. CASE \E f \in Father(q) :
                 child_list' = [child_list EXCEPT ![q] = {}, ![f] = @ \ {p_pid[q]}]
      <4>1. /\ child_list' = [child_list EXCEPT ![q] = {}, ![p] = @ \ {p_pid[q]}]
            /\ father_pid[q] = p_pid[p]
        BY <1>0, <3>2, FatherIsReaper, Zenon
      <4> QED BY <1>1, <4>1
    <3> QED BY <2>0, <3>1, <3>2
  <2>5. \A c \in Found(child_list[q]) :
          /\ c \in Procs /\ stage[c] = "live" /\ p_pid[c] \in child_list[q]
          /\ \A g \in AllProcs : Held(g) /\ g # q /\ p_pid[g] = father_pid[c] =>
               p_pid[c] \notin child_list[g]
    BY <1>0, FoundAreChildren
  <2> HIDE DEF Orphaned
  <2>6. ~ Held(q)' /\ \A f \in AllProcs \ {q} : Held(f)' <=> Held(f)
    BY <1>0, <1>2, <1>3, <2>1 DEF Held, Targeted
  <2>7. RootInv'
    BY <1>2, <2>1, <2>2, <2>3 DEF IInv, RootInv, Home
  <2>8. ThreadInv'
    BY <1>0, <1>2, <2>1, <2>3, <2>4 DEF IInv, ThreadInv, Exited, Home
  <2>9. PidInv'
    BY <1>0, <1>2, <2>2 DEF IInv, PidInv, UniquePids
  <2>10. SleepInv'
    <3>1. \A r \in AllProcs : pc[r] \in {"wait_relock", "wait_unlock"} =>
            Exited(target[r]) /\ target[r] \in AllProcs \ {p} /\ r # p
      BY <1>0, TargetFacts DEF IInv, SleepInv, Exited, Reaps
    <3>2. \A f \in AllProcs : \A w \in cv_waiters[f] :
            w \in AllProcs \ {p} /\ pc[w] = "asleep" /\ target[w] = f
      BY <1>0 DEF IInv, TypeOK, SleepInv
    <3> QED BY <1>2, <2>1, <3>1, <3>2 DEF SleepInv, Exited, Home
  <2>11. \A r \in AllProcs, c \in Procs :
           /\ Held(r) /\ r # q /\ c # q
           /\ father_pid[c] = p_pid[r] /\ p_pid[c] \in child_list[r]
           => father_pid'[c] = father_pid[c]
    BY <2>3, <2>5 DEF Orphaned
  <2>12. TargetInv'
    <3>1. \A r \in AllProcs \ {p} : target[r] # NoProc =>
            /\ r # q /\ Held(r) /\ target[r] \in Procs \ {q}
      BY <1>0, <1>1, <1>3, NotLive DEF Held
    <3>2. ASSUME NEW r \in AllProcs, r # p, target[r] # NoProc
          PROVE  \/ father_pid'[target[r]] = -1 /\ new[r] = target[r]
                 \/ father_pid'[target[r]] = p_pid'[r] /\ p_pid'[target[r]] \in child_list'[r]
      <4>1. CASE father_pid[target[r]] = -1 /\ new[r] = target[r]
        BY <1>1, <2>3, <3>2, <4>1
      <4>2. CASE father_pid[target[r]] = p_pid[r] /\ p_pid[target[r]] \in child_list[r]
        BY <2>2, <2>4, <2>11, <3>1, <3>2, <4>2
      <4> QED BY <3>2, <4>1, <4>2 DEF IInv, TargetInv
    <3>3. ASSUME NEW r \in AllProcs, r # p, pc[r] = "search"
          PROVE  idx'[r] \in child_list'[r]
      BY <1>0, <2>1, <2>4, <3>3 DEF IInv, TargetInv
    <3>4. Home(p) \notin Reaps \cup {"search"}
      BY DEF Home, Reaps
    <3> QED BY <1>2, <2>1, <3>2, <3>3, <3>4 DEF IInv, TargetInv
  <2>13. NewInv'
    <3>1. \A r \in AllProcs \ {p} : new[r] # NoProc =>
            /\ r # q /\ Held(r) /\ new[r] \in Procs \ {q} /\ new[r] # p
      BY <1>0, <1>1, <1>3, NotLive DEF Held, IInv, NewInv
    <3>2. ASSUME NEW r \in AllProcs, r # p, new[r] # NoProc
          PROVE  /\ pc[r] = "copy" => father_pid'[new[r]] = -1
                 /\ pc[r] \in {"add_newp", "thread_fork"} =>
                      father_pid'[new[r]] = p_pid'[r] /\ p_pid'[new[r]] \in child_list'[r]
      <4>1. pc[r] = "copy" => father_pid'[new[r]] = -1
        BY <2>3, <3>1, <3>2 DEF IInv, NewInv
      <4>2. CASE pc[r] \in {"add_newp", "thread_fork"}
        <5>1. father_pid[new[r]] = p_pid[r] /\ p_pid[new[r]] \in child_list[r]
          BY <4>2 DEF IInv, NewInv
        <5>2. father_pid'[new[r]] = father_pid[new[r]]
          BY <2>11, <3>1, <3>2, <5>1
        <5>3. p_pid'[r] = p_pid[r] /\ p_pid'[new[r]] = p_pid[new[r]] /\ child_list'[r] = child_list[r]
          BY <2>2, <2>4, <3>1, <3>2
        <5> QED BY <4>2, <5>1, <5>2, <5>3
      <4> QED BY <4>1, <4>2
    <3>3. \A c \in Procs : Held(c)' /\ pc'[c] = "none" /\ father_pid'[c] # -1 =>
            \E r \in AllProcs : new'[r] = c
      <4> SUFFICES ASSUME NEW c \in Procs, Held(c)', pc'[c] = "none", father_pid'[c] # -1
                   PROVE  \E r \in AllProcs : new'[r] = c
        OBVIOUS
      <4>1. c # q /\ Held(c) /\ c # p /\ pc[c] = "none" /\ father_pid[c] # -1
        BY <2>1, <2>3, <2>6 DEF Home
      <4>2. PICK r \in AllProcs : new[r] = c
        BY <4>1 DEF IInv, NewInv
      <4>3. r # p
        BY <1>0, <4>1, <4>2 DEF IInv, NewInv
      <4> QED BY <2>1, <4>2, <4>3
    <3>4. Home(p) \notin {"copy", "add_newp", "thread_fork"}
      BY DEF Home
    <3> QED BY <1>2, <2>1, <3>1, <3>2, <3>3, <3>4 DEF IInv, NewInv
  <2>14. TreeInv'
    <3>1. ASSUME NEW f \in AllProcs, Held(f)', NEW x \in child_list'[f]
          PROVE  \E c \in Procs : /\ p_pid'[c] = x /\ father_pid'[c] = p_pid'[f]
                                  /\ stage'[c] = "live" \/ target'[f] = c
      <4>1. f # q /\ Held(f) /\ x \in child_list[f]
        BY <2>4, <2>6, <3>1
      <4>2. PICK c \in Procs : /\ p_pid[c] = x /\ father_pid[c] = p_pid[f]
                               /\ stage[c] = "live" \/ target[f] = c
        BY <4>1 DEF IInv, TreeInv, ChildrenInv
      <4>3. c # q
        BY <1>0, <1>3, <2>4, <4>2
      <4>4. stage[c] = "live" \/ target'[f] = c
        BY <1>0, <2>1, <4>2, <4>3
      <4> QED BY <1>2, <2>2, <2>11, <4>1, <4>2, <4>3, <4>4
    <3>2. ASSUME NEW c \in Procs, Held(c)', father_pid'[c] # -1
          PROVE  \E f \in AllProcs : Held(f)' /\ p_pid'[f] = father_pid'[c] /\ p_pid'[c] \in child_list'[f]
      <4>1. c # q /\ Held(c) /\ father_pid'[c] = father_pid[c] /\ c \notin Orphaned
        BY <2>3, <2>6, <3>2
      <4>2. PICK f \in AllProcs : Held(f) /\ p_pid[f] = father_pid[c] /\ p_pid[c] \in child_list[f]
        BY <3>2, <4>1 DEF IInv, TreeInv, FathersInv
      <4>3. ASSUME stage[c] # "live"
            PROVE  \E r \in AllProcs \ {p, q} : /\ stage[r] = "live" /\ father_pid[c] = p_pid[r]
                                               /\ p_pid[c] \in child_list[r]
        <5>1. PICK r \in AllProcs : target[r] = c
          BY <4>1, <4>3 DEF Held, Targeted
        <5>2. r # p /\ r # q /\ stage[r] = "live" /\ c # NoProc
          BY <1>0, <4>1, <5>1, NotLive
        <5> QED BY <3>2, <4>1, <5>1, <5>2 DEF IInv, TargetInv
      <4>4. f # q
        <5> SUFFICES ASSUME f = q PROVE FALSE
          OBVIOUS
        <5>1. PICK d \in Procs : Finds(p_pid[c], d)
          BY <2>0, <4>2 DEF AllFound
        <5>2. d \in Orphaned /\ stage[d] = "live" /\ p_pid[d] = p_pid[c]
          BY <4>2, <5>1 DEF Orphaned, Found, Finds
        <5>3. CASE stage[c] = "live"
          BY <4>1, <5>2, <5>3, LiveDiffer
        <5>4. CASE stage[c] # "live"
          BY <4>2, <4>3, <5>4 DEF IInv, TreeInv, ListsInv, Held
        <5> QED BY <5>3, <5>4
      <4>5. p_pid[c] \in child_list'[f]
        <5> SUFFICES ASSUME p_pid[c] \notin child_list'[f] PROVE FALSE
          OBVIOUS
        <5>1. f = p /\ p_pid[c] = p_pid[q] /\ father_pid[q] # -1
          BY <2>4, <4>2, <4>4
        <5>2. father_pid[q] = p_pid[p]
          BY <1>0, <5>1 DEF IInv, TargetInv
        <5>3. CASE stage[c] = "live"
          BY <1>0, <4>2, <5>1, <5>2, <5>3 DEF IInv, TreeInv, ReuseInv
        <5>4. CASE stage[c] # "live"
          BY <1>0, <4>2, <4>3, <5>1, <5>4, LiveDiffer
        <5> QED BY <5>3, <5>4
      <4> QED BY <2>2, <2>6, <4>1, <4>2, <4>4, <4>5
    <3>3. ListsInv'
      <4>1. \A f \in AllProcs \ {q} : child_list'[f] \subseteq child_list[f]
        BY <2>4
      <4> QED BY <2>2, <2>6, <4>1 DEF IInv, TreeInv, ListsInv
    <3>4. ASSUME NEW r \in AllProcs, NEW c \in Procs,
                 target'[r] # NoProc, stage'[target'[r]] = "freed",
                 father_pid'[target'[r]] = p_pid'[r],
                 stage'[c] = "live", p_pid'[c] = p_pid'[target'[r]]
          PROVE  father_pid'[c] # p_pid'[r]
      <4>1. /\ r # p /\ r # q /\ target'[r] = target[r] /\ target[r] \in Procs \ {q}
            /\ c # q /\ p_pid[r] # -1
        BY <1>0, <1>1, <1>2, <1>3, <2>1, <3>4
      <4>2. father_pid[target[r]] = p_pid[r] /\ stage[target[r]] = "freed" /\ stage[c] = "live"
        BY <1>2, <2>2, <2>3, <3>4, <4>1
      <4>3. father_pid[c] # p_pid[r]
        BY <2>2, <3>4, <4>1, <4>2 DEF IInv, TreeInv, ReuseInv
      <4> QED BY <2>2, <2>3, <4>1, <4>3
    <3> QED BY <3>1, <3>2, <3>3, <3>4 DEF TreeInv, ChildrenInv, FathersInv, ReuseInv
  <2> QED BY <2>7, <2>8, <2>9, <2>10, <2>12, <2>13, <2>14
<1> QED BY <1>4, <1>5

-----------------------------------------------------------------------------
(* proc_bootstrap.                                                         *)
LEMMA InitInv == Init => IInv
<1> SUFFICES ASSUME Init PROVE IInv
  OBVIOUS
<1> USE ProcessAssumption DEF Init
<1>1. TypeOK
  BY InitType
<1>2. RootInv /\ ThreadInv /\ PidInv
  BY DEF RootInv, ThreadInv, PidInv, UniquePids, Exited
<1>3. TargetInv /\ NewInv /\ SleepInv
  BY DEF TargetInv, NewInv, SleepInv, Reaps
<1>4. TreeInv
  BY DEF TreeInv, ChildrenInv, FathersInv, ListsInv, ReuseInv
<1> QED BY <1>1, <1>2, <1>3, <1>4 DEF IInv

(* Every step keeps the invariant.                                         *)
LEMMA NextInv ==
  ASSUME IInv, [Next]_vars
  PROVE  IInv'
<1>1. CASE UNCHANGED vars
  <2>0. TypeOK'
    BY <1>1 DEF IInv, TypeOK
  <2>1. RootInv' /\ ThreadInv' /\ PidInv'
    BY <1>1 DEF IInv, RootInv, ThreadInv, PidInv, UniquePids, Exited
  <2>2. TargetInv' /\ SleepInv'
    BY <1>1 DEF IInv, TargetInv, SleepInv, Exited
  <2>3. \A q \in AllProcs : Held(q)' <=> Held(q)
    BY <1>1 DEF Held, Targeted
  <2>4. NewInv'
    BY <1>1, <2>3 DEF IInv, NewInv
  <2>5. TreeInv'
    BY <1>1, <2>3, TreeFrame DEF IInv
  <2> QED BY <2>0, <2>1, <2>2, <2>4, <2>5 DEF IInv
<1>2. CASE ~ Panicked /\ common_prog
  <2>1. TypeOK'
    BY <1>2, CreateType DEF common_prog, IInv, TypeOK
  <2> QED BY <1>2, <2>1, CreateStep DEF common_prog, IInv
<1>3. ASSUME NEW p \in AllProcs, ~ Panicked, Kernel(p)
      PROVE  IInv'
  <2>1. TypeOK'
    BY <1>3, KernelType
  <2>2. CASE QuietAction(p)
    BY <2>1, <2>2, QuietActions, QuietStep, QuietRest DEF IInv
  <2>3. CASE ForkCreate(p)
    <3>1. p # KProc
      BY <2>3 DEF ForkCreate, IInv, RootInv, Reaps
    <3> QED BY <2>1, <2>3, <3>1, CreateStep DEF ForkCreate, IInv
  <2>4. CASE Copy(p)
    BY <2>1, <2>4, CopyStep DEF IInv
  <2>5. CASE add_newp(p)
    BY <2>1, <2>5, AddNewpStep DEF IInv
  <2>6. CASE thread_fork(p)
    BY <2>1, <2>6, ThreadForkStep DEF IInv
  <2>7. CASE WaitSearch(p)
    BY <2>1, <2>7, SearchStep DEF IInv
  <2>8. CASE proc_destroy(p)
    BY <1>3, <2>1, <2>8, DestroyStep DEF IInv
  <2>9. CASE proc_deinit(p)
    BY <2>1, <2>9, DeinitStep DEF IInv
  <2> QED BY <1>3, <2>2, <2>3, <2>4, <2>5, <2>6, <2>7, <2>8, <2>9 DEF Kernel, QuietAction
<1>4. ASSUME NEW p \in AllProcs, Program(p)
      PROVE  IInv'
  <2>1. QuietAction(p)
    BY <1>4 DEF Program, QuietAction
  <2> QED BY <1>4, <2>1, ProgramType, QuietActions, QuietStep, QuietRest DEF IInv
<1> QED BY <1>1, <1>2, <1>3, <1>4 DEF Next

(* The invariant of the process table, the tree and the threads.           *)
THEOREM Invariance == Spec => []IInv
BY InitInv, NextInv, PTL DEF Spec

(* Every variable keeps its type.                                          *)
THEOREM TypeCorrect == Spec => []TypeOK
<1>1. IInv => TypeOK
  BY DEF IInv
<1> QED BY <1>1, Invariance, PTL

(* No two live processes ever have one pid, for any size of the table: the *)
(* pid that sys_fork looked up outside the lock, and the entry add_newp    *)
(* overwrites with it, do not matter, since proc_init takes the pid of a   *)
(* new process from a free entry under the lock and no entry of a live     *)
(* process is ever free.                                                   *)
THEOREM PidsAreUnique == Spec => []UniquePids
<1>1. IInv => UniquePids
  BY DEF IInv, PidInv
<1> QED BY <1>1, Invariance, PTL

(* The child lists and the father pids describe one tree at every moment,  *)
(* between the two halves of proc_destroy as well.                         *)
THEOREM TreeIsATree == Spec => []FamilyTree
<1>1. IInv => FamilyTree
  <2> SUFFICES ASSUME IInv PROVE FamilyTree
    OBVIOUS
  <2>1. \A q \in AllProcs : Held(q) <=> Present(q)
    BY HeldIsPresent
  <2>0. \A f \in AllProcs : Held(f) => \A x \in child_list[f] :
          \E c \in Procs : /\ p_pid[c] = x /\ father_pid[c] = p_pid[f]
                           /\ stage[c] = "live" \/ target[f] = c
    BY DEF IInv, TreeInv, ChildrenInv
  <2>2. ASSUME NEW p \in AllProcs, Held(p), NEW pid \in child_list[p]
        PROVE  \E q \in Procs : Held(q) /\ p_pid[q] = pid /\ father_pid[q] = p_pid[p]
    BY <2>0, <2>2 DEF Held, Targeted
  <2>3. ASSUME NEW p \in AllProcs, pc[p] = "copy", p_pid[new[p]] \in child_list[p]
        PROVE  FALSE
    <3>1. /\ new[p] \in Procs /\ stage[new[p]] = "live" /\ target[p] = NoProc
          /\ stage[p] = "live" /\ father_pid[new[p]] = -1
      BY <2>3, NewFacts, ActiveIsLive DEF IInv, NewInv, Exited
    <3>2. PICK c \in Procs : /\ p_pid[c] = p_pid[new[p]] /\ father_pid[c] = p_pid[p]
                             /\ stage[c] = "live"
      BY <2>0, <2>3, <3>1 DEF Held
    <3>3. c = new[p] /\ p_pid[p] # -1
      BY <3>1, <3>2, LiveDiffer DEF IInv, TypeOK
    <3> QED BY <3>1, <3>2, <3>3
  <2> QED BY <2>1, <2>2, <2>3 DEF IInv, TreeInv, FathersInv, FamilyTree
<1> QED BY <1>1, Invariance, PTL

(* At most one thread waits for a process or destroys it, so proc_destroy  *)
(* never runs twice for one struct.                                        *)
THEOREM OneReaper == Spec => []ReapedByOne
<1>1. IInv => ReapedByOne
  <2> SUFFICES ASSUME IInv PROVE ReapedByOne
    OBVIOUS
  <2>1. ASSUME NEW p \in AllProcs, NEW q \in AllProcs, pc[p] \in Reaps, pc[q] \in Reaps, p # q
        PROVE  target[p] # target[q]
    BY <2>1, TargetsDiffer, TargetFacts
  <2>2. ASSUME NEW p \in AllProcs, pc[p] \in Reaps, pc[p] # "unlink"
        PROVE  stage[target[p]] = "live"
    BY <2>2, TargetFacts
  <2> QED BY <2>1, <2>2 DEF ReapedByOne, Reaps
<1> QED BY <1>1, Invariance, PTL

-----------------------------------------------------------------------------
(* A waitpid that reports a child has seen its thread leave the process.   *)
(* With WNOHANG or without a status pointer waitpid reports at once.       *)
THEOREM WaitReportsExited ==
  ASSUME Options \subseteq {"plain"}
  PROVE  Spec => []ReturnsOnlyExited
<1>1. Init => ReturnsOnlyExited
  BY DEF Init, ReturnsOnlyExited
<1>2. ASSUME IInv, ReturnsOnlyExited, [Next]_vars
      PROVE  ReturnsOnlyExited'
  <2>0. got \in [AllProcs -> Procs \cup {NoProc}]
    BY <1>2 DEF IInv, TypeOK
  <2>x. \A q \in AllProcs : Exited(q) => Exited(q)'
    BY <1>2, ExitedStays
  <2>1. ASSUME NEW p \in AllProcs, NEW q \in AllProcs \cup {NoProc}, got' = [got EXCEPT ![p] = q],
               q # NoProc => Exited(q)
        PROVE  ReturnsOnlyExited'
    BY <1>2, <2>0, <2>1, <2>x DEF ReturnsOnlyExited
  <2>2. CASE UNCHANGED got
    BY <1>2, <2>0, <2>2, <2>x DEF ReturnsOnlyExited
  <2>3. CASE \E p \in AllProcs : got' = [got EXCEPT ![p] = NoProc]
    BY <2>1, <2>3, Zenon
  <2>4. ASSUME NEW p \in AllProcs, ~ Panicked, WaitCheck(p)
        PROVE  ReturnsOnlyExited'
    <3>1. CASE ~ HasThreads(target[p]) /\ got' = [got EXCEPT ![p] = target[p]]
      <4>1. pc[target[p]] # "none" /\ target[p] \in Procs
        BY <1>2, <2>4, FoundIsStarted, TargetFacts DEF WaitCheck, Reaps
      <4>2. Exited(target[p])
        BY <1>2, <3>1, <4>1 DEF HasThreads, IInv, ThreadInv
      <4> QED BY <2>1, <3>1, <4>1, <4>2, Zenon
    <3> QED BY <2>2, <2>4, <3>1 DEF WaitCheck
  <2>5. ASSUME NEW p \in AllProcs, WaitUnlock(p)
        PROVE  ReturnsOnlyExited'
    <3>1. target[p] \in Procs /\ Exited(target[p])
      BY <1>2, <2>5, TargetFacts DEF WaitUnlock, Reaps, IInv, SleepInv
    <3>2. got' = [got EXCEPT ![p] = target[p]]
      BY <2>5 DEF WaitUnlock
    <3> QED BY <2>1, <3>1, <3>2, Zenon
  <2>6. ASSUME NEW p \in AllProcs, Program(p)
        PROVE  UNCHANGED got \/ got' = [got EXCEPT ![p] = NoProc]
    BY <2>6 DEF Program, get_valid_pid, ENPROC, sys__exit, WaitRefused, WaitNoStatus, WaitNohang,
                sys_waitpid
  <2>7. ASSUME NEW p \in AllProcs, Kernel(p), ~ WaitCheck(p), ~ WaitUnlock(p)
        PROVE  UNCHANGED got
    BY <2>7, Zenon DEF Kernel, cmd_progthread, ForkCreate, Copy, add_newp, thread_fork,
       proc_remthread,
                ExitLock, ExitSignal, ExitUnlock, WaitSearch, WaitLock, WaitSleep, proc_destroy,
                proc_deinit, Fault
  <2>8. common_prog => got' = [got EXCEPT ![KProc] = NoProc]
    BY DEF common_prog
  <2> QED BY <1>2, <2>2, <2>3, <2>4, <2>5, <2>6, <2>7, <2>8 DEF Next
<1> QED BY <1>1, <1>2, Invariance, PTL DEF Spec
=============================================================================
