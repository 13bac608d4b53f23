---------------------------- MODULE SynchProofs -----------------------------
(***************************************************************************)
(* What is proved of Synch: types, mutual exclusion, KASSERTs that never   *)
(* fire, that no wakeup of a semaphore is lost, and that synch.c           *)
(* implements the monitor of Monitor.tla.  The invariants come from        *)
(* SynchInvariant and SynchMonitor; here the last steps are shown to       *)
(* preserve them, the threads awake in P are counted, and the theorems     *)
(* are drawn together.                                                     *)
(***************************************************************************)
EXTENDS SynchMonitor, FiniteSetTheorems

(* cv_signal and cv_broadcast wake the first thread of the channel, or all *)
(* of them.                                                                *)
LEMMA WakePreserves ==
  ASSUME IInv, NEW t \in Threads, Wake(t)
  PROVE  IInv'
<1> DEFINE d == cond[t]
           q == cv_wchan[d]
           n == IF op[t] = "cv_signal" THEN wchan_wakeone(q) ELSE wchan_wakeall(q)
           W == First(q, n)
<1> USE SynchAssumption DEF IInv
<1>0. pc[t] = "wake" /\ d \in Cvs /\ q \in Seq(Threads)
  BY DEF Wake, TypeOK, CvTypeOK, ThreadTypeOK, ArgsOK
<1>1. /\ n \in 0 .. Len(q)
      /\ \A i \in 1 .. Len(q) : q[i] \in Threads /\ pc[q[i]] = "cv_sleep" /\ cond[q[i]] = d
      /\ \A i, j \in 1 .. Len(q) : i # j => q[i] # q[j]
  BY <1>0, WakeFacts, CvSleepers
<1>2. /\ \A u \in W : \E k \in 1 .. Len(q) : u = q[k]
      /\ \A i \in 1 .. Len(Rest(q, n)) :
           /\ Rest(q, n)[i] \notin W
           /\ \E k \in 1 .. Len(q) : Rest(q, n)[i] = q[k]
      /\ \A i, j \in 1 .. Len(Rest(q, n)) : i # j => Rest(q, n)[i] # Rest(q, n)[j]
      /\ Rest(q, n) \in Seq(Threads)
  <2> HIDE DEF q, n
  <2>1. q \in Seq(Threads) /\ n \in 0 .. Len(q) /\ \A i, j \in 1 .. Len(q) : i # j => q[i] # q[j]
    BY <1>0, <1>1
  <2>2. Rest(q, n) \in Seq(Threads)
    BY <2>1, RestFacts
  <2>3. /\ \A u \in First(q, n) : \E k \in 1 .. Len(q) : u = q[k]
        /\ \A i \in 1 .. Len(Rest(q, n)) :
             /\ Rest(q, n)[i] \notin First(q, n)
             /\ \E k \in 1 .. Len(q) : Rest(q, n)[i] = q[k]
        /\ \A i, j \in 1 .. Len(Rest(q, n)) : i # j => Rest(q, n)[i] # Rest(q, n)[j]
    BY ONLY <2>1, LeaveFacts, Zenon
  <2> QED
    BY <2>2, <2>3, Zenon
<1>3. \A u \in W : u \in Threads \ {t} /\ pc[u] = "cv_sleep" /\ cond[u] = d
  <2> HIDE DEF q, n, W
  <2> QED
    BY <1>0, <1>1, <1>2
<1>4. /\ cv_wchan' = [cv_wchan EXCEPT ![d] = Rest(q, n)]
      /\ sem_count' = sem_count /\ sem_wchan' = sem_wchan
      /\ lk_owner' = lk_owner /\ lk_spinlock' = lk_spinlock
      /\ cv_spinlock' = cv_spinlock
  BY <1>0 DEF Wake, lockVars, semVars, TypeOK, CvTypeOK
<1>5. /\ pc' = [u \in Threads |->
                 IF u = t THEN "idle" ELSE IF u \in W THEN "cv_woken" ELSE pc[u]]
      /\ op' = [op EXCEPT ![t] = "none"]
      /\ obj' = [obj EXCEPT ![t] = NoLock]
      /\ cond' = [cond EXCEPT ![t] = NoCv]
  BY DEF Wake, Call
<1> HIDE DEF q, n, W
<1>6. /\ \A u \in Threads \ {t} : obj'[u] = obj[u] /\ cond'[u] = cond[u] /\ op'[u] = op[u]
      /\ \A u \in W : pc'[u] = "cv_woken"
      /\ \A u \in Threads \ {t} : u \notin W => pc'[u] = pc[u]
      /\ pc'[t] = "idle" /\ op'[t] = "none"
  BY <1>3, <1>5 DEF TypeOK, ThreadTypeOK
<1>7. TypeOK'
  <2>1. ThreadTypeOK'
    BY <1>5 DEF TypeOK, ThreadTypeOK, Points, Ops
  <2> QED
    BY <1>0, <1>2, <1>4, <2>1 DEF TypeOK, SemTypeOK, LockTypeOK, CvTypeOK
<1>8. ArgsOK'
  <2>1. SUFFICES ASSUME NEW u \in Threads
                 PROVE  (ArgsOK!(u))'
    BY DEF ArgsOK
  <2>2. CASE u = t
    BY <1>6, <2>2 DEF ArgsOK
  <2>3. CASE u \in W
    BY <1>3, <1>6, <2>3 DEF ArgsOK
  <2>4. CASE u # t /\ u \notin W
    BY <1>6, <2>4 DEF ArgsOK
  <2> QED
    BY <2>2, <2>3, <2>4
<1>9. CvChannels'
  <2>1. ASSUME NEW x \in Cvs, x = d
        PROVE  CvChannel(x)'
    <3>1. cv_wchan'[x] = Rest(q, n)
      BY <2>1, <1>0, <1>4 DEF TypeOK, CvTypeOK
    <3>2. ASSUME NEW k \in 1 .. Len(q), q[k] \notin W
          PROVE  pc'[q[k]] = "cv_sleep" /\ cond'[q[k]] = d
      <4>1. q[k] \in Threads /\ pc[q[k]] = "cv_sleep" /\ cond[q[k]] = d
        BY <1>1
      <4>2. q[k] # t
        BY <1>0, <4>1
      <4> QED
        BY <1>6, <3>2, <4>1, <4>2
    <3>3. \A i \in 1 .. Len(Rest(q, n)) :
            pc'[Rest(q, n)[i]] = "cv_sleep" /\ cond'[Rest(q, n)[i]] = d
      BY <1>2, <3>2
    <3>4. \A i, j \in 1 .. Len(Rest(q, n)) : i # j => Rest(q, n)[i] # Rest(q, n)[j]
      BY <1>2
    <3> HIDE DEF d
    <3> QED
      BY <2>1, <3>1, <3>3, <3>4, CvChannelIs
  <2>2. ASSUME NEW x \in Cvs, x # d
        PROVE  CvChannel(x)'
    <3>1. cv_wchan'[x] = cv_wchan[x]
      BY <2>2, <1>4 DEF TypeOK, CvTypeOK
    <3>2. \A u \in Threads : pc[u] = "cv_sleep" /\ cond[u] = x => u # t /\ u \notin W
      BY <1>0, <1>3, <2>2
    <3> QED
      BY <3>1, <3>2, <1>6, CvChannelKept
  <2> QED
    BY <2>1, <2>2 DEF CvChannels
<1>10. SemChannels'
  <2>1. \A u \in Threads : pc[u] = "sem_sleep" => u # t /\ u \notin W
    BY <1>0, <1>3
  <2>2. \A u \in Threads : pc[u] = "sem_sleep" => pc'[u] = pc[u] /\ obj'[u] = obj[u]
    BY <1>6, <2>1
  <2> QED
    BY <1>4, <2>2, SemChannelKept DEF SemChannels
<1>11. Holds' /\ OwnerIsNull'
  <2>1. \A u \in Threads : pc'[u] \in {"release", "cv_spin", "V", "own"} =>
          u # t /\ pc'[u] = pc[u] /\ obj'[u] = obj[u] /\ op'[u] = op[u]
    BY <1>6
  <2>2. Holds'
    BY <1>4, <2>1 DEF Holds
  <2>3. OwnerIsNull'
    BY <1>4, <2>1 DEF OwnerIsNull
  <2> QED
    BY <2>2, <2>3
<1>12. MutualExclusion'
  <2>1. \A l \in Locks, u \in Threads : HasToken(u, l)' => HasToken(u, l)
    BY <1>3, <1>4, <1>6 DEF HasToken
  <2> QED
    BY <1>4, <2>1 DEF MutualExclusion
<1> QED
  BY <1>7, <1>8, <1>9, <1>10, <1>11, <1>12

-----------------------------------------------------------------------------
(* sem_create, lock_create and cv_create establish the invariant.          *)
LEMMA InitEstablishes == Init => IInv
<1> SUFFICES ASSUME Init PROVE IInv
  OBVIOUS
<1> USE SynchAssumption DEF Init, SemInit, LockInit, CvInit
<1>a. << >> \in Seq(Threads)
  OBVIOUS
<1>b. SemTypeOK
  BY <1>a DEF SemTypeOK, AllSems
<1>c. LockTypeOK /\ CvTypeOK
  BY <1>a DEF LockTypeOK, CvTypeOK
<1>d. ThreadTypeOK
  BY DEF ThreadTypeOK, Points, Ops
<1>1. TypeOK
  BY <1>b, <1>c, <1>d DEF TypeOK
<1>2. ArgsOK /\ Holds /\ OwnerIsNull
  BY DEF ArgsOK, Holds, OwnerIsNull
<1>3. SemChannels /\ CvChannels
  BY DEF SemChannels, SemChannel, CvChannels, CvChannel
<1>4. MutualExclusion
  BY DEF MutualExclusion, HasToken
<1> QED
  BY <1>1, <1>2, <1>3, <1>4 DEF IInv

(* A step that changes no variable.                                        *)
LEMMA StutterPreserves == ASSUME IInv, UNCHANGED vars PROVE IInv'
<1>1. /\ sem_count' = sem_count /\ sem_wchan' = sem_wchan
      /\ lk_owner' = lk_owner /\ lk_spinlock' = lk_spinlock
      /\ cv_spinlock' = cv_spinlock /\ cv_wchan' = cv_wchan
      /\ pc' = pc /\ op' = op /\ obj' = obj /\ cond' = cond
  BY DEF vars, semVars, lockVars, cvVars, argVars
<1>2. TypeOK' /\ ArgsOK'
  BY <1>1 DEF IInv, TypeOK, SemTypeOK, LockTypeOK, CvTypeOK, ThreadTypeOK, ArgsOK
<1>3. SemChannels'
  BY <1>1, SemChannelKept DEF SemChannels
<1>4. CvChannels'
  BY <1>1, CvChannelKept DEF CvChannels
<1>5. Holds' /\ OwnerIsNull'
  BY <1>1 DEF IInv, Holds, OwnerIsNull
<1>6. MutualExclusion'
  <2>1. \A l \in Locks, u \in Threads : HasToken(u, l)' <=> HasToken(u, l)
    BY <1>1 DEF HasToken
  <2> QED
    BY <1>1, <2>1 DEF IInv, MutualExclusion
<1> QED
  BY <1>2, <1>3, <1>4, <1>5, <1>6 DEF IInv

-----------------------------------------------------------------------------
(* The invariant about the spinlocks.                                      *)

LEMMA InitMInv == Init => MInv
<1> SUFFICES ASSUME Init PROVE MInv
  OBVIOUS
<1> USE SynchAssumption DEF Init, SemInit, LockInit, CvInit
<1>1. SpinInv
  BY DEF SpinInv, SpinsOf, InWait, InRelease
<1>2. CallInv
  BY DEF CallInv, CallOf
<1> QED
  BY <1>1, <1>2 DEF MInv

LEMMA NextMInv == ASSUME IInv, MInv, [Next]_vars PROVE MInv'
<1>1. ASSUME NEW t \in Threads, Request(t) \/ Internal(t) PROVE MInv'
  BY <1>1, RequestSpins, InternalSpins, VSpins, WakeSpins DEF MInv, Internal
<1>2. CASE UNCHANGED vars
  <2> USE <1>2 DEF vars, semVars, lockVars, cvVars, argVars, MInv
  <2>1. SpinInv'
    BY DEF SpinInv, SpinsOf, InWait, InRelease
  <2>2. CallInv'
    BY DEF CallInv, CallOf
  <2> QED
    BY <2>1, <2>2
<1> QED
  BY <1>1, <1>2 DEF Next

-----------------------------------------------------------------------------
(* The wakeups of a semaphore: the threads that are awake in P.            *)

Awake(s) == {t \in Threads : pc[t] = "P" /\ obj[t] = s}
Enough(s) == sem_wchan[s] # <<>> => sem_count[s] <= Cardinality(Awake(s))

(* The channel does not fill, and the threads that are awake go on.        *)
LEMMA EnoughKept ==
  ASSUME IInv, NEW x \in AllSems, Enough(x), sem_count'[x] = sem_count[x],
         sem_wchan[x] = <<>> => sem_wchan'[x] = <<>>, Awake(x) \subseteq Awake(x)'
  PROVE  Enough(x)'
<1>1. IsFiniteSet(Awake(x)') /\ IsFiniteSet(Awake(x))
  BY ThreadsFinite, FS_Subset DEF Awake
<1>2. /\ Cardinality(Awake(x)) \in Nat /\ Cardinality(Awake(x)') \in Nat
      /\ Cardinality(Awake(x)) <= Cardinality(Awake(x)')
  BY <1>1, FS_Subset, FS_CardinalityType
<1>3. sem_count[x] \in Nat
  BY DEF IInv, TypeOK, SemTypeOK
<1> QED
  BY <1>2, <1>3 DEF Enough

LEMMA SameSemaphores ==
  ASSUME IInv, NoLostWakeup, NEW t \in Threads, Others(t), UNCHANGED semVars, pc[t] # "P"
  PROVE  NoLostWakeup'
<1> SUFFICES ASSUME NEW x \in AllSems PROVE Enough(x)'
  BY DEF NoLostWakeup, Enough, Awake
<1>1. Enough(x)
  BY DEF NoLostWakeup, Enough, Awake
<1>2. Awake(x) \subseteq Awake(x)'
  BY DEF Awake, Others
<1> QED
  BY <1>1, <1>2, EnoughKept DEF semVars

(* P takes the count down and is not awake in P any more, or sleeps while  *)
(* the count is zero.                                                      *)
LEMMA PWakeups ==
  ASSUME IInv, NoLostWakeup, NEW t \in Threads, Others(t), P(t)
  PROVE  NoLostWakeup'
<1> SUFFICES ASSUME NEW x \in AllSems PROVE Enough(x)'
  BY DEF NoLostWakeup, Enough, Awake
<1>0. sem_count \in [AllSems -> Nat] /\ sem_wchan \in [AllSems -> Seq(Threads)]
  BY DEF IInv, TypeOK, SemTypeOK
<1>1. Enough(x)
  BY DEF NoLostWakeup, Enough, Awake
<1>2. obj[t] \in AllSems /\ pc[t] = "P"
  BY DEF P, IInv, ArgsOK, AllSems
<1>3. CASE x # obj[t]
  <2>1. sem_count'[x] = sem_count[x] /\ sem_wchan'[x] = sem_wchan[x]
    BY <1>0, <1>2, <1>3 DEF P, Taken
  <2>2. Awake(x) \subseteq Awake(x)'
    BY <1>3 DEF Awake, Others
  <2> QED
    BY <1>1, <2>1, <2>2, EnoughKept
<1>4. CASE x = obj[t] /\ sem_count[x] = 0
  <2>1. sem_count'[x] = 0
    BY <1>4 DEF P
  <2>2. IsFiniteSet(Awake(x)')
    BY ThreadsFinite, FS_Subset DEF Awake
  <2>3. Cardinality(Awake(x)') \in Nat
    BY <2>2, FS_CardinalityType
  <2> QED
    BY <2>1, <2>3 DEF Enough
<1>5. CASE x = obj[t] /\ sem_count[x] > 0
  <2>1. sem_count'[x] = sem_count[x] - 1 /\ sem_wchan'[x] = sem_wchan[x]
    BY <1>0, <1>5 DEF P, Taken
  <2>2. t \in Awake(x) /\ Awake(x) \ {t} \subseteq Awake(x)'
    BY <1>2, <1>5 DEF Awake, Others
  <2>3. IsFiniteSet(Awake(x)) /\ IsFiniteSet(Awake(x)')
    BY ThreadsFinite, FS_Subset DEF Awake
  <2>4. Cardinality(Awake(x) \ {t}) = Cardinality(Awake(x)) - 1
    BY <2>2, <2>3, FS_RemoveElement, Zenon
  <2>5. Cardinality(Awake(x) \ {t}) <= Cardinality(Awake(x)')
    BY <2>2, <2>3, FS_Subset
  <2>6. Cardinality(Awake(x)) \in Nat /\ Cardinality(Awake(x)') \in Nat
    BY <2>3, FS_CardinalityType
  <2> QED
    BY <1>0, <1>1, <2>1, <2>4, <2>5, <2>6 DEF Enough
<1> QED
  BY <1>0, <1>3, <1>4, <1>5

(* V puts the count up and wakes one more thread, if there is one.         *)
LEMMA VWakeups ==
  ASSUME IInv, NoLostWakeup, NEW t \in Threads, Others(t), V(t)
  PROVE  NoLostWakeup'
<1> SUFFICES ASSUME NEW x \in AllSems PROVE Enough(x)'
  BY DEF NoLostWakeup, Enough, Awake
<1>0. sem_count \in [AllSems -> Nat] /\ sem_wchan \in [AllSems -> Seq(Threads)]
  BY DEF IInv, TypeOK, SemTypeOK
<1>1. Enough(x)
  BY DEF NoLostWakeup, Enough, Awake
<1>2. obj[t] \in AllSems /\ pc[t] = "V"
  BY DEF V, IInv, ArgsOK, AllSems
<1>3. Awake(x) \subseteq Awake(x)'
  BY <1>2 DEF Awake, Others
<1>4. CASE x # obj[t]
  <2>1. sem_count'[x] = sem_count[x] /\ sem_wchan'[x] = sem_wchan[x]
    BY <1>0, <1>2, <1>4 DEF V
  <2> QED
    BY <1>1, <1>3, <2>1, EnoughKept
<1>5. CASE x = obj[t] /\ sem_wchan[x] = <<>>
  <2>1. wchan_wakeone(sem_wchan[x]) = 0 /\ sem_wchan'[x] = Rest(sem_wchan[x], 0)
    BY <1>0, <1>5 DEF V, wchan_wakeone
  <2>2. sem_wchan'[x] \in Seq(Threads) /\ Len(sem_wchan'[x]) = 0
    BY <1>0, <1>5, <2>1, RestFacts, EmptyFacts, LenFacts
  <2> QED
    BY <2>2, EmptyFacts, LenFacts DEF Enough
<1>6. CASE x = obj[t] /\ sem_wchan[x] # <<>>
  <2> DEFINE u == sem_wchan[x][1]
  <2>1. wchan_wakeone(sem_wchan[x]) = 1 /\ sem_count'[x] = sem_count[x] + 1
    BY <1>0, <1>6 DEF V, wchan_wakeone
  <2>2. 1 \in 1 .. Len(sem_wchan[x])
    BY <1>0, <1>6, EmptyFacts, LenFacts
  <2>3. u \in Threads /\ pc[u] = "sem_sleep" /\ obj[u] = x
    BY <2>2, SemSleepers
  <2>4. u \in First(sem_wchan[x], 1)
    BY DEF First
  <2>5. u \in Awake(x)' /\ u \notin Awake(x)
    BY <1>2, <1>6, <2>1, <2>3, <2>4 DEF V, Awake, Others
  <2>6. IsFiniteSet(Awake(x)) /\ IsFiniteSet(Awake(x)')
    BY ThreadsFinite, FS_Subset DEF Awake
  <2>7. Cardinality(Awake(x) \cup {u}) = Cardinality(Awake(x)) + 1
    BY <2>5, <2>6, FS_AddElement, Zenon
  <2>8. Cardinality(Awake(x) \cup {u}) <= Cardinality(Awake(x)')
    BY <1>3, <2>5, <2>6, FS_Subset
  <2>9. Cardinality(Awake(x)) \in Nat /\ Cardinality(Awake(x)') \in Nat
    BY <2>6, FS_CardinalityType
  <2> QED
    BY <1>0, <1>1, <1>6, <2>1, <2>7, <2>8, <2>9 DEF Enough
<1> QED
  BY <1>4, <1>5, <1>6

LEMMA NextWakeups == ASSUME IInv, MInv, NoLostWakeup, [Next]_vars PROVE NoLostWakeup'
<1>1. ASSUME NEW t \in Threads, Request(t) PROVE NoLostWakeup'
  <2>1. UNCHANGED semVars /\ pc[t] # "P"
    BY <1>1 DEF Request, CallP, CallV, lock_acquire, lock_release, cv_wait, cv_signal, semVars
  <2> QED
    BY <1>1, <2>1, RequestSpins, SameSemaphores DEF MInv
<1>2. ASSUME NEW t \in Threads,
             Own(t) \/ Disown(t) \/ Unspin(t) \/ CvSpin(t) \/ CvEnqueue(t) \/ CvWoken(t)
      PROVE  NoLostWakeup'
  <2>1. UNCHANGED semVars /\ pc[t] # "P"
    BY <1>2 DEF Own, Disown, Unspin, CvSpin, CvEnqueue, CvWoken, semVars
  <2> QED
    BY <1>2, <2>1, InternalSpins, SameSemaphores DEF MInv
<1>3. ASSUME NEW t \in Threads, P(t) PROVE NoLostWakeup'
  BY <1>3, InternalSpins, PWakeups DEF MInv
<1>4. ASSUME NEW t \in Threads, V(t) PROVE NoLostWakeup'
  BY <1>4, VSpins, VWakeups DEF MInv
<1>5. ASSUME NEW t \in Threads, Wake(t) PROVE NoLostWakeup'
  <2>1. UNCHANGED semVars /\ pc[t] # "P"
    BY <1>5 DEF Wake, semVars
  <2> QED
    BY <1>5, <2>1, WakeSpins, SameSemaphores DEF MInv
<1>6. CASE UNCHANGED vars
  BY <1>6 DEF NoLostWakeup, vars, semVars, argVars
<1> QED
  BY <1>1, <1>2, <1>3, <1>4, <1>5, <1>6 DEF Next, Internal

-----------------------------------------------------------------------------
(* The theorems.                                                           *)

(* The invariant is inductive: it holds in every reachable state.          *)
THEOREM SynchInvariant == Spec => []IInv
<1>1. Init => IInv
  BY InitEstablishes
<1>2. IInv /\ [Next]_vars => IInv'
  <2> SUFFICES ASSUME IInv, [Next]_vars PROVE IInv'
    OBVIOUS
  <2>1. ASSUME NEW t \in Threads, Request(t) PROVE IInv'
    BY <2>1, RequestPreserves
  <2>2. ASSUME NEW t \in Threads, Internal(t) PROVE IInv'
    BY <2>2, PPreserves, VPreserves, OwnPreserves, DisownPreserves, UnspinPreserves,
       CvSpinPreserves, CvEnqueuePreserves, CvWokenPreserves, WakePreserves DEF Internal
  <2>3. CASE UNCHANGED vars
    BY <2>3, StutterPreserves
  <2> QED
    BY <2>1, <2>2, <2>3 DEF Next
<1> QED
  BY <1>1, <1>2, PTL DEF Spec

(* The state of synch.c keeps its shape; the semaphore of a lock is        *)
(* binary.                                                                 *)
THEOREM SynchTypeCorrect == Spec => []TypeOK
<1>1. IInv => TypeOK
  BY DEF IInv
<1> QED
  BY <1>1, SynchInvariant, PTL

(* lock_acquire and lock_release give mutual exclusion, for any number of  *)
(* threads, locks and condition variables, across cv_wait too.             *)
THEOREM Mutual_Exclusion == Spec => []MutualExclusion
<1>1. IInv => MutualExclusion
  BY DEF IInv
<1> QED
  BY <1>1, SynchInvariant, PTL

(* KASSERT(lock->lk_owner == NULL) of lock_acquire never fires.            *)
THEOREM Owner_Is_Null == Spec => []OwnerIsNull
<1>1. IInv => OwnerIsNull
  BY DEF IInv
<1> QED
  BY <1>1, SynchInvariant, PTL

(* The invariant that the theorems about sleeping and waking rest on holds *)
(* in every state of synch.c's semaphores, locks and condition variables.  *)
THEOREM MonitorInvariant == Spec => []MInv
<1>1. Init => MInv
  BY InitMInv
<1>2. IInv /\ MInv /\ [Next]_vars => MInv'
  BY NextMInv
<1> QED
  BY <1>1, <1>2, SynchInvariant, PTL DEF Spec

(* KASSERT(curcpu->c_spinlocks == 1) in wchan_sleep holds in cv_wait.      *)
THEOREM OneSpinlockInSleep == Spec => []SleepsWithOneSpinlock
<1>1. IInv /\ MInv => SleepsWithOneSpinlock
  <2> SUFFICES ASSUME IInv, MInv, NEW t \in Threads, pc[t] = "cv_enqueue"
               PROVE  /\ cv_spinlock[cond[t]] = t
                      /\ \A c \in Cvs \ {cond[t]} : cv_spinlock[c] # t
                      /\ \A l \in Locks : lk_spinlock[l] # t
    BY DEF SleepsWithOneSpinlock
  <2>1. SpinsOf(t)
    BY DEF MInv, SpinInv
  <2>2. op[t] = "cv_wait" /\ cond[t] \in Cvs
    BY DEF IInv, ArgsOK
  <2> QED
    BY <2>1, <2>2 DEF SpinsOf, InWait, InRelease
<1> QED
  BY <1>1, MonitorInvariant, SynchInvariant, PTL
(* synch.c implements the monitor of Monitor.tla: to the clients, cv_wait  *)
(* gives up the lock and joins the waiters in one step, although it takes  *)
(* several under cv_spinlock, and the threads are woken in order.          *)
THEOREM ImplementsMonitor == Spec => MonitorSpec
<1>1. Init => M!Init
  BY InitRefines
<1>2. IInv /\ MInv /\ IInv' /\ MInv' /\ [Next]_vars => [M!Next]_(M!vars)
  BY NextRefines
<1> QED
  BY <1>1, <1>2, SynchInvariant, MonitorInvariant, PTL DEF Spec, MonitorSpec, M!Spec

(* As long as a thread sleeps in P, the count of its semaphore does not    *)
(* exceed the threads that are awake in P and about to take it.            *)
THEOREM WakeupsAreNotLost == Spec => []NoLostWakeup
<1>1. Init => NoLostWakeup
  BY DEF Init, SemInit, NoLostWakeup
<1>2. IInv /\ MInv /\ NoLostWakeup /\ [Next]_vars => NoLostWakeup'
  BY NextWakeups
<1> QED
  BY <1>1, <1>2, SynchInvariant, MonitorInvariant, PTL DEF Spec

=============================================================================
