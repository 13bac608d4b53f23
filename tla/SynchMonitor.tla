---------------------------- MODULE SynchMonitor ----------------------------
(***************************************************************************)
(* The second invariant of Synch, about its spinlocks, and the refinement  *)
(* step by step: what synch.c does is what the monitor of Monitor.tla does.*)
(*                                                                         *)
(* The argument follows the spinlocks.  cv_spinlock belongs to the one     *)
(* thread between CvSpin and CvEnqueue, so at most one thread has given up *)
(* its lock and is not yet on the channel: to everybody else it is already *)
(* the last of the waiters.                                                *)
(***************************************************************************)
EXTENDS SynchInvariant

(* The spinlocks are held exactly over the calls that hold them.           *)
InWait(t) == op[t] = "cv_wait" /\ pc[t] \in {"release", "V", "unspin", "cv_enqueue"}
InRelease(t) == op[t] # "V" /\ pc[t] \in {"V", "unspin"}
SpinsOf(t) ==
  /\ \A c \in Cvs : cv_spinlock[c] = t <=> InWait(t) /\ cond[t] = c
  /\ \A l \in Locks : lk_spinlock[l] = t <=> InRelease(t) /\ obj[t] = l

(* What a thread has called when it is inside a call; in cv_signal and     *)
(* cv_broadcast it has the lock.                                           *)
CallOf(t) ==
  /\ pc[t] = "wake" => /\ op[t] \in {"cv_signal", "cv_broadcast"}
                       /\ obj[t] \in Locks /\ lk_owner[obj[t]] = t
  /\ pc[t] = "own" => op[t] \in {"lock_acquire", "cv_wait"}
  /\ pc[t] \in {"release", "unspin"} => op[t] \in {"lock_release", "cv_wait"}
  /\ pc[t] = "V" => op[t] \in {"V", "lock_release", "cv_wait"}
  /\ pc[t] \in {"P", "sem_sleep"} => op[t] \in {"P", "lock_acquire", "cv_wait"}
  /\ pc[t] = "idle" => op[t] = "none"

SpinInv == \A t \in Threads : SpinsOf(t)
CallInv == \A t \in Threads : CallOf(t)

(* An inductive invariant next to IInv.                                    *)
MInv == SpinInv /\ CallInv

-----------------------------------------------------------------------------
(* The spinlocks.                                                          *)

(* A step of t at most wakes another thread, and leaves it what it has.    *)
Others(t) ==
  \A u \in Threads \ {t} :
    /\ op'[u] = op[u] /\ obj'[u] = obj[u] /\ cond'[u] = cond[u]
    /\ \/ pc'[u] = pc[u]
       \/ pc[u] = "sem_sleep" /\ pc'[u] = "P"
       \/ pc[u] = "cv_sleep" /\ pc'[u] = "cv_woken"
    /\ \A c \in Cvs : cv_spinlock'[c] = u <=> cv_spinlock[c] = u
    /\ \A l \in Locks : lk_spinlock'[l] = u <=> lk_spinlock[l] = u
    /\ \A l \in Locks : lk_owner[l] = u => lk_owner'[l] = u

(* Then the other threads keep their part of the invariant.                *)
LEMMA OthersKeep ==
  ASSUME IInv, SpinInv, CallInv, NEW t \in Threads, Others(t), SpinsOf(t)', CallOf(t)'
  PROVE  SpinInv' /\ CallInv'
<1> SUFFICES ASSUME NEW u \in Threads \ {t} PROVE SpinsOf(u)' /\ CallOf(u)'
  BY DEF SpinInv, CallInv
<1>0. SpinsOf(u) /\ CallOf(u)
  BY DEF SpinInv, CallInv
<1>1. pc'[u] # pc[u] => pc[u] \in {"sem_sleep", "cv_sleep"} /\ pc'[u] \in {"P", "cv_woken"}
  BY DEF Others
<1>2. SpinsOf(u)'
  BY <1>0, <1>1 DEF SpinsOf, InWait, InRelease, Others
<1>3. CallOf(u)'
  BY <1>0 DEF CallOf, Others
<1> QED
  BY <1>2, <1>3

(* A call that begins: t has no spinlock, and takes none.                  *)
LEMMA RequestSpins ==
  ASSUME IInv, SpinInv, CallInv, NEW t \in Threads, Request(t)
  PROVE  Others(t) /\ SpinInv' /\ CallInv'
<1> USE DEF IInv, TypeOK, LockTypeOK, CvTypeOK, ThreadTypeOK
<1>0. /\ pc[t] = "idle" /\ UNCHANGED lockVars /\ UNCHANGED cvVars
      /\ \E o \in Ops, s \in AllSems \cup {NoLock}, c \in Cvs \cup {NoCv} : Call(t, o, s, c)
      /\ \/ Goto(t, "P") /\ op'[t] \in {"P", "lock_acquire"}
         \/ Goto(t, "V") /\ op'[t] = "V"
         \/ Goto(t, "release") /\ op'[t] = "lock_release"
         \/ Goto(t, "cv_spin")
         \/ Goto(t, "wake") /\ op'[t] \in {"cv_signal", "cv_broadcast"}
            /\ obj'[t] \in Locks /\ lk_owner[obj'[t]] = t
  BY DEF Request, CallP, CallV, lock_acquire, lock_release, cv_wait, cv_signal, Ops, AllSems, Call, lock_do_i_hold
<1>1. SpinsOf(t) /\ CallOf(t)
  BY DEF SpinInv, CallInv
<1>2. Others(t)
  BY <1>0 DEF Others, lockVars, cvVars, Call, Goto
<1>3. SpinsOf(t)'
  BY <1>0, <1>1 DEF SpinsOf, InWait, InRelease, lockVars, cvVars, Call, Goto
<1>4. CallOf(t)'
  BY <1>0 DEF CallOf, lockVars, Call, Goto
<1> QED
  BY <1>2, <1>3, <1>4, OthersKeep

(* Inside a call, where only the pc of t moves, with what t lets go of and *)
(* what it takes.                                                          *)
LEMMA InternalSpins ==
  ASSUME IInv, SpinInv, CallInv, NEW t \in Threads,
         \/ Own(t) \/ Disown(t) \/ Unspin(t) \/ CvSpin(t) \/ CvEnqueue(t) \/ CvWoken(t) \/ P(t)
  PROVE  Others(t) /\ SpinInv' /\ CallInv'
<1> USE DEF IInv, TypeOK, LockTypeOK, CvTypeOK, ThreadTypeOK, semVars, lockVars, cvVars, argVars, Goto, Call, Return
<1>1. SpinsOf(t) /\ CallOf(t)
  BY DEF SpinInv, CallInv
<1>2. CASE Own(t)
  <2>0. obj[t] \in Locks /\ lk_owner[obj[t]] = NoThread
    BY <1>2 DEF Own, ArgsOK, OwnerIsNull
  <2>1. Others(t)
    BY <1>2, <2>0, SynchAssumption DEF Others, Own
  <2>2. SpinsOf(t)'
    BY <1>1, <1>2 DEF Own, SpinsOf, InWait, InRelease
  <2>3. CallOf(t)'
    BY <1>2 DEF Own, CallOf
  <2> QED
    BY <2>1, <2>2, <2>3, OthersKeep
<1>3. CASE Disown(t)
  <2>0. obj[t] \in Locks /\ lk_owner[obj[t]] = t
    BY <1>3 DEF Disown, ArgsOK, Holds
  <2>1. Others(t)
    BY <1>3, <2>0, SynchAssumption DEF Others, Disown
  <2>2. SpinsOf(t)'
    BY <1>1, <1>3, <2>0 DEF Disown, SpinsOf, InWait, InRelease, CallOf
  <2>3. CallOf(t)'
    BY <1>1, <1>3 DEF Disown, CallOf
  <2> QED
    BY <2>1, <2>2, <2>3, OthersKeep
<1>4. CASE Unspin(t)
  <2>0. obj[t] \in Locks /\ lk_spinlock[obj[t]] = t /\ op[t] \in {"lock_release", "cv_wait"}
    BY <1>1, <1>4 DEF Unspin, ArgsOK, SpinsOf, InRelease, CallOf
  <2>1. Others(t)
    BY <1>4, <2>0, SynchAssumption DEF Others, Unspin
  <2>2. SpinsOf(t)'
    BY <1>1, <1>4, <2>0, SynchAssumption DEF Unspin, SpinsOf, InWait, InRelease
  <2>3. CallOf(t)'
    BY <1>1, <1>4 DEF Unspin, CallOf
  <2> QED
    BY <2>1, <2>2, <2>3, OthersKeep
<1>5. CASE CvSpin(t)
  <2>0. cond[t] \in Cvs /\ op[t] = "cv_wait"
    BY <1>5 DEF CvSpin, ArgsOK
  <2>1. Others(t)
    BY <1>5, <2>0, SynchAssumption DEF Others, CvSpin
  <2>2. SpinsOf(t)'
    BY <1>1, <1>5, <2>0 DEF CvSpin, SpinsOf, InWait, InRelease
  <2>3. CallOf(t)'
    BY <1>1, <1>5, <2>0 DEF CvSpin, CallOf
  <2> QED
    BY <2>1, <2>2, <2>3, OthersKeep
<1>6. CASE CvEnqueue(t)
  <2>0. cond[t] \in Cvs /\ cv_spinlock[cond[t]] = t
    BY <1>1, <1>6 DEF CvEnqueue, ArgsOK, SpinsOf, InWait
  <2>1. Others(t)
    BY <1>6, <2>0, SynchAssumption DEF Others, CvEnqueue
  <2>2. SpinsOf(t)'
    BY <1>1, <1>6, <2>0, SynchAssumption DEF CvEnqueue, SpinsOf, InWait, InRelease
  <2>3. CallOf(t)'
    BY <1>1, <1>6 DEF CvEnqueue, CallOf
  <2> QED
    BY <2>1, <2>2, <2>3, OthersKeep
<1>7. CASE CvWoken(t)
  <2>1. Others(t)
    BY <1>7 DEF Others, CvWoken
  <2>2. SpinsOf(t)'
    BY <1>1, <1>7 DEF CvWoken, SpinsOf, InWait, InRelease
  <2>3. CallOf(t)'
    BY <1>7 DEF CvWoken, CallOf, ArgsOK
  <2> QED
    BY <2>1, <2>2, <2>3, OthersKeep
<1>8. CASE P(t)
  <2>0. /\ pc[t] = "P" /\ UNCHANGED lockVars /\ UNCHANGED cvVars
        /\ \/ Goto(t, "sem_sleep") /\ UNCHANGED argVars
           \/ op[t] = "P" /\ Return(t)
           \/ op[t] # "P" /\ Goto(t, "own") /\ UNCHANGED argVars
    BY <1>8 DEF P, Through
  <2>1. Others(t)
    BY <2>0 DEF Others
  <2>2. SpinsOf(t)'
    BY <1>1, <2>0 DEF SpinsOf, InWait, InRelease
  <2>3. CallOf(t)'
    BY <1>1, <2>0 DEF CallOf
  <2> QED
    BY <2>1, <2>2, <2>3, OthersKeep
<1> QED
  BY <1>2, <1>3, <1>4, <1>5, <1>6, <1>7, <1>8

(* V and Wake, which wake other threads.                                   *)
LEMMA VSpins ==
  ASSUME IInv, SpinInv, CallInv, NEW t \in Threads, V(t)
  PROVE  Others(t) /\ SpinInv' /\ CallInv'
<1> USE DEF IInv, TypeOK, LockTypeOK, CvTypeOK, ThreadTypeOK, lockVars, cvVars, argVars, Call
<1> DEFINE q == sem_wchan[obj[t]]
           n == wchan_wakeone(q)
<1>1. SpinsOf(t) /\ CallOf(t)
  BY DEF SpinInv, CallInv
<1>2. obj[t] \in AllSems /\ pc[t] = "V"
  BY DEF V, ArgsOK, AllSems
<1>3. \A u \in First(q, n) : pc[u] = "sem_sleep"
  BY <1>2, SemSleepers, WakeFacts DEF First
<1>4. t \notin First(q, n)
  BY <1>2, <1>3
<1>5. Others(t)
  BY <1>3 DEF Others, V
<1>6. pc'[t] = IF op[t] = "V" THEN "idle" ELSE "unspin"
  BY <1>4 DEF V
<1>7. SpinsOf(t)'
  BY <1>1, <1>2, <1>6 DEF V, SpinsOf, InWait, InRelease
<1>8. CallOf(t)'
  BY <1>1, <1>2, <1>6 DEF V, CallOf
<1> QED
  BY <1>5, <1>7, <1>8, OthersKeep

LEMMA WakeSpins ==
  ASSUME IInv, SpinInv, CallInv, NEW t \in Threads, Wake(t)
  PROVE  Others(t) /\ SpinInv' /\ CallInv'
<1> USE DEF IInv, TypeOK, LockTypeOK, CvTypeOK, ThreadTypeOK, lockVars, cvVars, Call
<1> DEFINE q == cv_wchan[cond[t]]
           n == IF op[t] = "cv_signal" THEN wchan_wakeone(q) ELSE wchan_wakeall(q)
<1>1. SpinsOf(t) /\ CallOf(t)
  BY DEF SpinInv, CallInv
<1>2. cond[t] \in Cvs /\ pc[t] = "wake"
  BY DEF Wake, ArgsOK
<1>3. \A u \in First(q, n) : pc[u] = "cv_sleep"
  BY <1>2, CvSleepers, WakeFacts DEF First
<1>5. Others(t)
  BY <1>3 DEF Others, Wake
<1>6. pc'[t] = "idle" /\ op'[t] = "none"
  BY DEF Wake
<1>7. SpinsOf(t)'
  BY <1>1, <1>2, <1>6 DEF Wake, SpinsOf, InWait, InRelease
<1>8. CallOf(t)'
  BY <1>6 DEF CallOf
<1> QED
  BY <1>5, <1>7, <1>8, OthersKeep

-----------------------------------------------------------------------------
(* The refinement.                                                         *)

(* The waiters of the monitor: those on the channel, and behind them the   *)
(* one thread that holds cv_spinlock on its way there.                     *)
LEMMA Waiters ==
  ASSUME IInv, MInv, NEW c \in Cvs
  PROVE  /\ \A t \in Threads : InTransit(t, c) => waitingBar[c] = Append(cv_wchan[c], t)
         /\ (\A t \in Threads : ~InTransit(t, c)) => waitingBar[c] = cv_wchan[c]
<1>1. \A t \in Threads : InTransit(t, c) => cv_spinlock[c] = t
  BY DEF MInv, SpinInv, SpinsOf, InTransit, InWait
<1>2. ASSUME NEW t \in Threads, InTransit(t, c)
      PROVE  (CHOOSE u \in Threads : InTransit(u, c)) = t
  BY <1>1, <1>2
<1> QED
  BY <1>2 DEF waitingBar

LEMMA WaitersAfter ==
  ASSUME IInv', MInv', NEW c \in Cvs
  PROVE  /\ \A t \in Threads : InTransit(t, c)' => waitingBar'[c] = Append(cv_wchan'[c], t)
         /\ (\A t \in Threads : ~InTransit(t, c)') => waitingBar'[c] = cv_wchan'[c]
<1>1. \A t \in Threads : InTransit(t, c)' => cv_spinlock'[c] = t
  BY DEF MInv, SpinInv, SpinsOf, InTransit, InWait
<1>2. ASSUME NEW t \in Threads, InTransit(t, c)'
      PROVE  (CHOOSE u \in Threads : InTransit(u, c)') = t
  BY <1>1, <1>2
<1> QED
  BY <1>2 DEF waitingBar

(* waitingBar is a function, so it is enough to compare its values.        *)
LEMMA BarIs ==
  ASSUME NEW f, f = [c \in Cvs |-> f[c]], \A c \in Cvs : waitingBar'[c] = f[c]
  PROVE  waitingBar' = f
BY DEF waitingBar

LEMMA BarFunction == waitingBar = [c \in Cvs |-> waitingBar[c]]
BY DEF waitingBar

(* The waiters for a condition variable that the step leaves alone.        *)
LEMMA SameWaiters ==
  ASSUME IInv, MInv, IInv', MInv', NEW c \in Cvs, cv_wchan'[c] = cv_wchan[c],
         \A u \in Threads : InTransit(u, c)' <=> InTransit(u, c)
  PROVE  waitingBar'[c] = waitingBar[c]
<1>1. CASE \E u \in Threads : InTransit(u, c)
  BY <1>1, Waiters, WaitersAfter, Zenon
<1>2. CASE \A u \in Threads : ~InTransit(u, c)
  BY <1>2, Waiters, WaitersAfter
<1> QED
  BY <1>1, <1>2

(* Other threads neither start nor end their transit in a step of t.       *)
LEMMA OthersTransit ==
  ASSUME NEW t \in Threads, Others(t), NEW u \in Threads \ {t}
  PROVE  /\ \A c \in Cvs : InTransit(u, c)' <=> InTransit(u, c)
         /\ owesBar'[u] = owesBar[u]
<1>1. \A c \in Cvs : InTransit(u, c)' <=> InTransit(u, c)
  BY DEF Others, InTransit
<1>2. owesBar'[u] = owesBar[u]
  BY DEF Others, owesBar
<1> QED
  BY <1>1, <1>2

(* A step after which t owes what it owed.                                 *)
LEMMA SameDebts ==
  ASSUME NEW t \in Threads, Others(t), owesBar'[t] = owesBar[t]
  PROVE  owesBar' = owesBar
<1>1. \A u \in Threads : owesBar'[u] = owesBar[u]
  BY OthersTransit
<1> QED
  BY <1>1 DEF owesBar

(* A step that the monitor does not see.                                   *)
LEMMA Unseen ==
  ASSUME IInv, MInv, IInv', MInv', NEW t \in Threads, Others(t),
         UNCHANGED <<lk_owner, cv_wchan>>,
         \A c \in Cvs : InTransit(t, c)' <=> InTransit(t, c),
         owesBar'[t] = owesBar[t]
  PROVE  UNCHANGED M!vars
<1>1. owesBar' = owesBar
  BY SameDebts
<1>2. ASSUME NEW c \in Cvs PROVE waitingBar'[c] = waitingBar[c]
  <2>1. \A u \in Threads : InTransit(u, c)' <=> InTransit(u, c)
    BY OthersTransit
  <2> QED
    BY <2>1, SameWaiters
<1>3. waitingBar' = waitingBar
  BY <1>2, BarIs, BarFunction
<1> QED
  BY <1>1, <1>3 DEF M!vars

LEMMA RequestUnseen ==
  ASSUME IInv, MInv, IInv', MInv', NEW t \in Threads, Request(t)
  PROVE  UNCHANGED M!vars
<1> USE DEF IInv, TypeOK, ThreadTypeOK, MInv
<1>1. Others(t)
  BY RequestSpins
<1>2. /\ pc[t] = "idle" /\ UNCHANGED lockVars /\ UNCHANGED cvVars
      /\ pc'[t] \notin {"unspin", "cv_enqueue"}
      /\ pc'[t] = "V" => op'[t] = "V"
      /\ op'[t] = "cv_wait" => pc'[t] = "cv_spin"
  BY DEF Request, CallP, CallV, lock_acquire, lock_release, cv_wait, cv_signal, Goto, Call
<1>3. op[t] = "none"
  BY <1>2 DEF CallInv, CallOf
<1>4. \A c \in Cvs : InTransit(t, c)' <=> InTransit(t, c)
  BY <1>2, <1>3 DEF InTransit
<1>5. owesBar'[t] = owesBar[t]
  BY <1>2, <1>3, Zenon DEF owesBar
<1> QED
  BY <1>1, <1>2, <1>4, <1>5, Unseen DEF lockVars, cvVars

LEMMA InternalUnseen ==
  ASSUME IInv, MInv, IInv', MInv', NEW t \in Threads,
         P(t) \/ Unspin(t) \/ CvSpin(t) \/ CvWoken(t)
  PROVE  UNCHANGED M!vars
<1> USE DEF IInv, TypeOK, ThreadTypeOK, MInv, semVars, lockVars, cvVars, argVars, Goto, Call, Return
<1>1. Others(t) /\ CallOf(t)
  BY InternalSpins DEF CallInv
<1>2. UNCHANGED <<lk_owner, cv_wchan>>
  BY DEF P, Unspin, CvSpin, CvWoken
<1>3. \A c \in Cvs : InTransit(t, c)' <=> InTransit(t, c)
  BY <1>1 DEF InTransit, P, Through, Unspin, CvSpin, CvWoken, CallOf
<1>4. owesBar'[t] = owesBar[t]
  BY <1>1 DEF owesBar, P, Through, Unspin, CvSpin, CvWoken, CallOf
<1> QED
  BY <1>1, <1>2, <1>3, <1>4, Unseen

LEMMA VUnseen ==
  ASSUME IInv, MInv, IInv', MInv', NEW t \in Threads, V(t)
  PROVE  UNCHANGED M!vars
<1> USE DEF IInv, TypeOK, ThreadTypeOK, MInv
<1>1. Others(t) /\ CallOf(t) /\ CallOf(t)'
  BY VSpins DEF CallInv
<1>2. pc[t] = "V" /\ UNCHANGED lockVars /\ UNCHANGED cvVars
  BY DEF V
<1>3. \/ op[t] = "V" /\ op'[t] = "none"
      \/ op[t] # "V" /\ pc'[t] = "unspin" /\ UNCHANGED argVars
  <2>0. obj[t] \in AllSems
    BY <1>2 DEF ArgsOK, AllSems
  <2>1. \A u \in First(sem_wchan[obj[t]], wchan_wakeone(sem_wchan[obj[t]])) : pc[u] = "sem_sleep"
    <3> HIDE DEF IInv, TypeOK, ThreadTypeOK, MInv
    <3> QED
      BY <2>0, SemSleepers, WakeFacts DEF First
  <2> QED
    BY <1>2, <2>1 DEF V, Call
<1>4. \A c \in Cvs : InTransit(t, c)' <=> InTransit(t, c)
  BY <1>2, <1>3 DEF InTransit, argVars
<1>5. owesBar'[t] = owesBar[t]
  BY <1>2, <1>3 DEF owesBar, argVars
<1> QED
  BY <1>1, <1>2, <1>4, <1>5, Unseen, Zenon DEF lockVars, cvVars

(* CvEnqueue: the thread joins the channel as the last one.                *)
LEMMA CvEnqueueUnseen ==
  ASSUME IInv, MInv, IInv', MInv', NEW t \in Threads, CvEnqueue(t)
  PROVE  UNCHANGED M!vars
<1> USE DEF IInv, TypeOK, CvTypeOK, ThreadTypeOK, MInv
<1>1. Others(t)
  BY InternalSpins
<1>2. cond[t] \in Cvs /\ op[t] = "cv_wait" /\ InTransit(t, cond[t])
  BY DEF CvEnqueue, ArgsOK, InTransit
<1>3. pc'[t] = "cv_sleep" /\ UNCHANGED argVars /\ UNCHANGED lk_owner
  BY DEF CvEnqueue, Goto, lockVars
<1>4. owesBar' = owesBar
  BY <1>1, <1>3, SameDebts, Zenon DEF owesBar, argVars, CvEnqueue
<1>5. ASSUME NEW c \in Cvs PROVE waitingBar'[c] = waitingBar[c]
  <2>1. ~InTransit(t, c)'
    BY <1>3 DEF InTransit
  <2>2. CASE c = cond[t]
    <3>1. cv_spinlock[c] = t
      BY <1>2, <2>2 DEF SpinInv, SpinsOf, InWait, InTransit
    <3>2. \A u \in Threads \ {t} : ~InTransit(u, c)
      BY <3>1 DEF SpinInv, SpinsOf, InWait, InTransit
    <3>3. \A u \in Threads : ~InTransit(u, c)'
      BY <1>1, <2>1, <3>2, OthersTransit, Zenon
    <3>4. cv_wchan'[c] = Append(cv_wchan[c], t)
      BY <2>2 DEF CvEnqueue
    <3> QED
      BY <1>2, <2>2, <3>3, <3>4, Waiters, WaitersAfter, Zenon
  <2>3. CASE c # cond[t]
    <3>1. \A u \in Threads : InTransit(u, c)' <=> InTransit(u, c)
      BY <1>1, <2>1, <2>3, OthersTransit, Zenon DEF InTransit
    <3>2. cv_wchan'[c] = cv_wchan[c]
      BY <1>2, <2>3 DEF CvEnqueue
    <3> HIDE DEF IInv, MInv
    <3> QED
      BY <3>1, <3>2, SameWaiters
  <2> QED
    BY <2>2, <2>3, Zenon
<1>6. waitingBar' = waitingBar
  BY <1>5, BarIs, BarFunction, Zenon
<1> QED
  BY <1>3, <1>4, <1>6 DEF M!vars

(* Own is lock_acquire of the monitor: the lock is free, and the thread    *)
(* does not wait.                                                          *)
LEMMA OwnRefines ==
  ASSUME IInv, MInv, IInv', MInv', NEW t \in Threads, Own(t)
  PROVE  M!Next
<1> DEFINE l == obj[t]
<1>0. /\ pc[t] = "own" /\ l \in Locks /\ lk_owner[l] = NoThread
      /\ pc \in [Threads -> Points] /\ op \in [Threads -> Ops] /\ CallOf(t)
  BY DEF Own, IInv, ArgsOK, OwnerIsNull, TypeOK, ThreadTypeOK, MInv, CallInv
<1>1. Others(t)
  BY InternalSpins DEF MInv
<1>2. ~M!Waits(t)
  <2> SUFFICES ASSUME NEW c \in Cvs, NEW i \in 1 .. Len(waitingBar[c]) PROVE waitingBar[c][i] # t
    BY Zenon DEF M!Waits
  <2>0. /\ cv_wchan[c] \in Seq(Threads)
        /\ \A j \in 1 .. Len(cv_wchan[c]) : pc[cv_wchan[c][j]] = "cv_sleep"
    BY CvSleepers, Zenon
  <2>1. CASE \A u \in Threads : ~InTransit(u, c)
    BY <1>0, <2>0, <2>1, Waiters
  <2>2. CASE \E u \in Threads : InTransit(u, c)
    <3>1. PICK u \in Threads : InTransit(u, c)
      BY <2>2
    <3>2. waitingBar[c] = Append(cv_wchan[c], u) /\ u # t
      BY <1>0, <3>1, Waiters DEF InTransit
    <3>3. /\ Len(cv_wchan[c]) \in Nat /\ Len(waitingBar[c]) = Len(cv_wchan[c]) + 1
          /\ \A j \in 1 .. Len(cv_wchan[c]) : waitingBar[c][j] = cv_wchan[c][j]
          /\ waitingBar[c][Len(cv_wchan[c]) + 1] = u
      BY <2>0, <3>2, AppendFacts, LenFacts
    <3>4. CASE i \in 1 .. Len(cv_wchan[c])
      BY <1>0, <2>0, <3>3, <3>4
    <3>5. CASE i = Len(cv_wchan[c]) + 1
      BY <3>2, <3>3, <3>5
    <3> QED
      BY <3>3, <3>4, <3>5
  <2> QED
    BY <2>1, <2>2
<1>3. owesBar[t] \in {NoLock, l}
  BY DEF owesBar
<1>4. pc'[t] = "idle" /\ op'[t] = "none"
  BY <1>0 DEF Own, Return, Goto, Call
<1>5. owesBar' = [owesBar EXCEPT ![t] = NoLock]
  <2>1. owesBar'[t] = NoLock
    BY <1>4 DEF owesBar
  <2>2. \A u \in Threads \ {t} : owesBar'[u] = owesBar[u]
    BY <1>1, OthersTransit
  <2> QED
    BY <2>1, <2>2, Zenon DEF owesBar
<1>6. waitingBar' = waitingBar
  <2>1. ASSUME NEW c \in Cvs PROVE waitingBar'[c] = waitingBar[c]
    <3>1. \A u \in Threads : InTransit(u, c)' <=> InTransit(u, c)
      BY <1>0, <1>1, <1>4, OthersTransit DEF InTransit
    <3> QED
      BY <3>1, SameWaiters DEF Own, cvVars
  <2> QED
    BY <2>1, BarIs, BarFunction
<1>7. M!lock_acquire(t, l)
  BY <1>0, <1>2, <1>3, <1>5, <1>6 DEF M!lock_acquire, Own
<1> QED
  BY <1>0, <1>7 DEF M!Next

(* Disown is lock_release of the monitor, and in cv_wait it is cv_wait:    *)
(* from here on the thread is the last of the waiters.                     *)
LEMMA DisownRefines ==
  ASSUME IInv, MInv, IInv', MInv', NEW t \in Threads, Disown(t)
  PROVE  M!Next
<1> DEFINE l == obj[t]
           d == cond[t]
<1>0. /\ pc[t] = "release" /\ l \in Locks /\ lk_owner[l] = t
      /\ pc \in [Threads -> Points] /\ CallOf(t)
      /\ op[t] = "cv_wait" => d \in Cvs
  BY DEF Disown, IInv, ArgsOK, Holds, TypeOK, ThreadTypeOK, MInv, CallInv
<1>1. Others(t)
  BY InternalSpins DEF MInv
<1>2. pc'[t] = "V" /\ op'[t] = op[t] /\ obj'[t] = l /\ cond'[t] = d /\ cv_wchan' = cv_wchan
  BY <1>0 DEF Disown, Goto, argVars, cvVars
<1>3. owesBar[t] = NoLock /\ lk_owner' = [lk_owner EXCEPT ![l] = NoThread]
  BY <1>0 DEF owesBar, Disown
<1>4. \A u \in Threads \ {t} : owesBar'[u] = owesBar[u]
  BY <1>1, OthersTransit
<1>5. CASE op[t] = "lock_release"
  <2>1. owesBar' = owesBar
    BY <1>1, <1>2, <1>3, <1>5, SameDebts, Zenon DEF owesBar
  <2>2. ASSUME NEW c \in Cvs PROVE waitingBar'[c] = waitingBar[c]
    <3>1. \A u \in Threads : InTransit(u, c)' <=> InTransit(u, c)
      BY <1>0, <1>1, <1>2, <1>5, OthersTransit DEF InTransit
    <3> QED
      BY <1>2, <3>1, SameWaiters, Zenon
  <2>3. waitingBar' = waitingBar
    BY <2>2, BarIs, BarFunction
  <2> QED
    BY <1>0, <1>3, <2>1, <2>3, Zenon DEF M!Next, M!lock_release
<1>6. CASE op[t] = "cv_wait"
  <2>1. owesBar' = [owesBar EXCEPT ![t] = l]
    <3>1. owesBar'[t] = l
      BY <1>2, <1>6 DEF owesBar
    <3> QED
      BY <1>4, <3>1, Zenon DEF owesBar
  <2>2. InTransit(t, d)'
    BY <1>2, <1>6 DEF InTransit
  <2>3. \A u \in Threads : ~InTransit(u, d)
    <3>1. cv_spinlock[d] = t
      BY <1>0, <1>6, Zenon DEF MInv, SpinInv, SpinsOf, InWait
    <3>2. \A u \in Threads \ {t} : ~InTransit(u, d)
      BY <1>0, <1>6, <3>1 DEF MInv, SpinInv, SpinsOf, InWait, InTransit
    <3> QED
      BY <1>0, <3>2 DEF InTransit
  <2>4. waitingBar'[d] = Append(waitingBar[d], t)
    BY <1>0, <1>2, <1>6, <2>2, <2>3, Waiters, WaitersAfter, Zenon
  <2>5. ASSUME NEW c \in Cvs \ {d} PROVE waitingBar'[c] = waitingBar[c]
    <3>1. \A u \in Threads : InTransit(u, c)' <=> InTransit(u, c)
      BY <1>1, <1>2, OthersTransit, Zenon DEF InTransit
    <3> QED
      BY <1>2, <3>1, SameWaiters
  <2>6. waitingBar' = [waitingBar EXCEPT ![d] = Append(@, t)]
    <3> DEFINE f == [waitingBar EXCEPT ![d] = Append(@, t)]
    <3>1. f = [c \in Cvs |-> f[c]] /\ \A c \in Cvs : f[c] = waitingBar'[c]
      BY <2>4, <2>5, BarFunction, Zenon
    <3> QED
      BY <3>1, BarIs, Zenon
  <2> QED
    BY <1>0, <1>3, <1>6, <2>1, <2>6, Zenon DEF M!Next, M!cv_wait
<1> QED
  BY <1>0, <1>5, <1>6 DEF CallOf

(* Wake is cv_signal or cv_broadcast of the monitor; cv_signal without a   *)
(* waiter is not seen.                                                     *)
LEMMA WakeRefines ==
  ASSUME IInv, MInv, IInv', MInv', NEW t \in Threads, Wake(t)
  PROVE  [M!Next]_(M!vars)
<1> DEFINE l == obj[t]
<1>d. PICK d \in Cvs : d = cond[t]
  BY Zenon DEF Wake, IInv, ArgsOK
<1> DEFINE q == cv_wchan[d]
<1>0. /\ pc[t] = "wake" /\ l \in Locks /\ lk_owner[l] = t
      /\ op[t] \in {"cv_signal", "cv_broadcast"}
      /\ pc \in [Threads -> Points] /\ op \in [Threads -> Ops]
  BY Zenon DEF Wake, IInv, ArgsOK, TypeOK, ThreadTypeOK, MInv, CallInv, CallOf
<1>1. Others(t)
  BY WakeSpins DEF MInv
<1>2. pc'[t] = "idle" /\ op'[t] = "none" /\ lk_owner' = lk_owner
  BY <1>0 DEF Wake, Call, lockVars
<1>3. owesBar' = owesBar
  BY <1>0, <1>1, <1>2, SameDebts DEF owesBar
<1>4. q \in Seq(Threads) /\ cv_wchan \in [Cvs -> Seq(Threads)]
  BY DEF IInv, TypeOK, CvTypeOK
<1>5. \A u \in Threads : ~InTransit(u, d)
  <2>1. cv_spinlock[d] = NoThread
    BY <1>d, Zenon DEF Wake
  <2>2. \A u \in Threads : NoThread # u
    BY SynchAssumption
  <2>3. \A u \in Threads : InWait(u) /\ cond[u] = d => cv_spinlock[d] = u
    BY DEF MInv, SpinInv, SpinsOf
  <2> QED
    BY <2>1, <2>2, <2>3 DEF InWait, InTransit
<1>6. waitingBar[d] = q /\ waitingBar'[d] = cv_wchan'[d]
  <2>1. \A u \in Threads : ~InTransit(u, d)'
    BY <1>0, <1>1, <1>2, <1>5, OthersTransit, Zenon DEF InTransit
  <2> QED
    BY <1>0, <1>5, <2>1, Waiters, WaitersAfter
<1>7. ASSUME NEW c \in Cvs \ {d} PROVE waitingBar'[c] = waitingBar[c]
  <2>1. \A u \in Threads : InTransit(u, c)' <=> InTransit(u, c)
    BY <1>0, <1>1, <1>2, OthersTransit, Zenon DEF InTransit
  <2>2. cv_wchan'[c] = cv_wchan[c]
    BY <1>0, <1>4, <1>d, Zenon DEF Wake
  <2> QED
    BY <2>1, <2>2, SameWaiters, Zenon
<1>8. CASE op[t] = "cv_signal" /\ q = <<>>
  <2>1. cv_wchan'[d] = Rest(q, 0)
    BY <1>0, <1>4, <1>8, <1>d DEF Wake, wchan_wakeone
  <2>2. cv_wchan'[d] = q
    <3>1. Len(q) = 0
      BY <1>8, EmptyFacts, LenFacts, Zenon
    <3>2. Rest(q, 0) \in Seq(Threads) /\ Len(Rest(q, 0)) = 0
      BY <1>4, <3>1, RestFacts
    <3> QED
      BY <1>8, <2>1, <3>2, EmptyFacts, LenFacts
  <2>3. waitingBar' = waitingBar
    BY <1>6, <1>7, <2>2, BarIs, BarFunction
  <2> QED
    BY <1>2, <1>3, <2>3 DEF M!vars
<1>9. CASE op[t] = "cv_signal" /\ q # <<>>
  <2>1. cv_wchan'[d] = Rest(q, 1)
    BY <1>0, <1>4, <1>9, <1>d DEF Wake, wchan_wakeone
  <2>2. cv_wchan'[d] = Tail(q)
    BY <1>4, <1>9, <2>1 DEF Rest
  <2>3. waitingBar' = [waitingBar EXCEPT ![d] = Tail(@)]
    <3> DEFINE f == [waitingBar EXCEPT ![d] = Tail(@)]
    <3>1. f = [c \in Cvs |-> f[c]] /\ \A c \in Cvs : f[c] = waitingBar'[c]
      BY <1>6, <1>7, <2>2, BarFunction, Zenon
    <3> QED
      BY <3>1, BarIs, Zenon
  <2> QED
    BY <1>0, <1>2, <1>3, <1>6, <1>9, <2>3, Zenon DEF M!Next, M!cv_signal
<1>10. CASE op[t] = "cv_broadcast"
  <2>1. cv_wchan'[d] = Rest(q, Len(q))
    BY <1>0, <1>4, <1>10, <1>d, Zenon DEF Wake, wchan_wakeall
  <2>2. cv_wchan'[d] = <<>>
    BY <1>4, <2>1, RestFacts, EmptyFacts, LenFacts
  <2>3. waitingBar' = [waitingBar EXCEPT ![d] = <<>>]
    <3> DEFINE f == [waitingBar EXCEPT ![d] = <<>>]
    <3>1. f = [c \in Cvs |-> f[c]] /\ \A c \in Cvs : f[c] = waitingBar'[c]
      BY <1>6, <1>7, <2>2, BarFunction
    <3> QED
      BY <3>1, BarIs
  <2> QED
    BY <1>0, <1>2, <1>3, <2>3, Zenon DEF M!Next, M!cv_broadcast
<1> QED
  BY <1>0, <1>8, <1>9, <1>10

LEMMA InitRefines == Init => M!Init
<1> SUFFICES ASSUME Init PROVE M!Init
  OBVIOUS
<1>1. waitingBar = [c \in Cvs |-> <<>>]
  BY DEF Init, CvInit, waitingBar, InTransit
<1>2. owesBar = [t \in Threads |-> NoLock]
  BY DEF Init, owesBar
<1> QED
  BY <1>1, <1>2 DEF Init, LockInit, M!Init

LEMMA NextRefines ==
  ASSUME IInv, MInv, IInv', MInv', [Next]_vars
  PROVE  [M!Next]_(M!vars)
<1>1. CASE UNCHANGED vars
  BY <1>1 DEF vars, semVars, lockVars, cvVars, argVars, M!vars, waitingBar, owesBar, InTransit
<1>2. CASE Next
  <2>1. PICK t \in Threads : Request(t) \/ Internal(t)
    BY <1>2 DEF Next
  <2> QED
    BY <2>1, RequestUnseen, InternalUnseen, VUnseen, CvEnqueueUnseen, OwnRefines, DisownRefines,
       WakeRefines DEF Internal
<1> QED
  BY <1>1, <1>2

=============================================================================
