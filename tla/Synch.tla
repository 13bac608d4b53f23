------------------------------- MODULE Synch --------------------------------
(***************************************************************************)
(* thread/synch.c with the wait channels of thread/thread.c: semaphores,   *)
(* locks (USE_SEMAPHORE_FOR_LOCK: a binary semaphore and lk_owner) and     *)
(* condition variables.                                                    *)
(*                                                                         *)
(* Every thread may have a processor of its own, so steps of different     *)
(* threads interleave.  A section under one spinlock that calls nothing    *)
(* with a spinlock of its own is one step; lk_spinlock and cv_spinlock are *)
(* explicit where they are held across such a call: lock_release holds     *)
(* lk_spinlock over V, and cv_wait holds cv_spinlock over lock_release.    *)
(* The semaphore of a lock is named by the lock.                           *)
(***************************************************************************)
EXTENDS Integers, Sequences, FiniteSets

CONSTANTS
  Threads, Locks, Cvs,
  Sems,              \* semaphores that are not part of a lock
  MaxCount,          \* bound on the count of a semaphore in Sems
  NoThread, NoLock, NoCv

ASSUME SynchAssumption ==
  /\ Locks \cap Sems = {}
  /\ NoThread \notin Threads
  /\ NoLock \notin Locks \cup Sems
  /\ NoCv \notin Cvs
  /\ MaxCount \in Nat \ {0}
ASSUME ThreadsFinite == IsFiniteSet(Threads)

AllSems == Sems \cup Locks

VARIABLES
  sem_count,         \* [AllSems -> Nat]
  sem_wchan,         \* [AllSems -> Seq(Threads)]
  lk_owner,          \* [Locks -> Threads \cup {NoThread}]
  lk_spinlock,       \* [Locks -> holder or NoThread]
  cv_spinlock,       \* [Cvs -> holder or NoThread]
  cv_wchan,          \* [Cvs -> Seq(Threads)]
  pc,                \* [Threads -> control point]
  op,                \* [Threads -> the operation it called]
  obj,               \* [Threads -> its semaphore or lock argument]
  cond               \* [Threads -> its condition variable argument]

semVars  == <<sem_count, sem_wchan>>
lockVars == <<lk_owner, lk_spinlock>>
cvVars   == <<cv_spinlock, cv_wchan>>
argVars  == <<op, obj, cond>>
vars == <<semVars, lockVars, cvVars, pc, argVars>>

Ops == {"none", "P", "V", "lock_acquire", "lock_release",
        "cv_wait", "cv_signal", "cv_broadcast"}
Points == {"idle", "P", "sem_sleep", "own", "release", "V", "unspin",
           "cv_spin", "cv_enqueue", "cv_sleep", "cv_woken", "wake"}

SemTypeOK ==
  /\ sem_count \in [AllSems -> Nat]
  /\ \A s \in Locks : sem_count[s] <= 1
  /\ sem_wchan \in [AllSems -> Seq(Threads)]
LockTypeOK ==
  /\ lk_owner \in [Locks -> Threads \cup {NoThread}]
  /\ lk_spinlock \in [Locks -> Threads \cup {NoThread}]
CvTypeOK ==
  /\ cv_spinlock \in [Cvs -> Threads \cup {NoThread}]
  /\ cv_wchan \in [Cvs -> Seq(Threads)]
ThreadTypeOK ==
  /\ pc \in [Threads -> Points]
  /\ op \in [Threads -> Ops]
  /\ obj \in [Threads -> AllSems \cup {NoLock}]
  /\ cond \in [Threads -> Cvs \cup {NoCv}]

(* The shape of the state; the semaphore of a lock stays binary.           *)
TypeOK == SemTypeOK /\ LockTypeOK /\ CvTypeOK /\ ThreadTypeOK

(* sem_create, for a lock's semaphore with count 1; lock_create;           *)
(* cv_create.                                                              *)
SemInit ==
  /\ sem_count = [s \in AllSems |-> IF s \in Locks THEN 1 ELSE 0]
  /\ sem_wchan = [s \in AllSems |-> <<>>]
LockInit ==
  /\ lk_owner = [l \in Locks |-> NoThread]
  /\ lk_spinlock = [l \in Locks |-> NoThread]
CvInit ==
  /\ cv_spinlock = [c \in Cvs |-> NoThread]
  /\ cv_wchan = [c \in Cvs |-> <<>>]

Init ==
  /\ SemInit /\ LockInit /\ CvInit
  /\ pc = [t \in Threads |-> "idle"]
  /\ op = [t \in Threads |-> "none"]
  /\ obj = [t \in Threads |-> NoLock]
  /\ cond = [t \in Threads |-> NoCv]

Goto(t, point) == pc' = [pc EXCEPT ![t] = point]

Call(t, o, s, c) ==
  /\ op' = [op EXCEPT ![t] = o]
  /\ obj' = [obj EXCEPT ![t] = s]
  /\ cond' = [cond EXCEPT ![t] = c]

(* The call ends; its arguments are forgotten.                             *)
Return(t) == Goto(t, "idle") /\ Call(t, "none", NoLock, NoCv)

(* lock_do_i_hold, under lk_spinlock.                                      *)
lock_do_i_hold(t, l) == lk_spinlock[l] = NoThread /\ lk_owner[l] = t

-----------------------------------------------------------------------------
(* Semaphores.                                                             *)

(* A caller keeps the count of a semaphore that is no lock within bounds.  *)
CallP(t) ==
  /\ pc[t] = "idle"
  /\ \E s \in Sems : Call(t, "P", s, NoCv)
  /\ Goto(t, "P")
  /\ UNCHANGED <<semVars, lockVars, cvVars>>

CallV(t) ==
  /\ pc[t] = "idle"
  /\ \E s \in Sems : sem_count[s] < MaxCount /\ Call(t, "V", s, NoCv)
  /\ Goto(t, "V")
  /\ UNCHANGED <<semVars, lockVars, cvVars>>

(* P leaves its loop: into lock_acquire, or back to the client.            *)
Through(t) == IF op[t] = "P" THEN Return(t) ELSE Goto(t, "own") /\ UNCHANGED argVars

(* Mutant: P does not take the count down.                                 *)
TakenNot(s) == sem_count

(* The counts after P has taken semaphore s down.                          *)
Taken(s) == [sem_count EXCEPT ![s] = @ - 1]

(* One turn of the loop of P: take the count down, or sleep.  wchan_sleep  *)
(* lets go of sem_lock once the thread is on the wait channel; a woken     *)
(* thread takes sem_lock and is here again.                                *)
P(t) ==
  LET s == obj[t] IN
  /\ pc[t] = "P"
  /\ \/ /\ sem_count[s] = 0
        /\ sem_wchan' = [sem_wchan EXCEPT ![s] = Append(@, t)]
        /\ Goto(t, "sem_sleep")
        /\ UNCHANGED <<sem_count, argVars>>
     \/ /\ sem_count[s] > 0
        /\ sem_count' = Taken(s)
        /\ Through(t)
        /\ UNCHANGED sem_wchan
  /\ UNCHANGED <<lockVars, cvVars>>

(* Mutant: wchan_wakeone wakes nobody.                                     *)
WakeoneNobody(q) == 0

(* How many threads, from the head of the channel, the two wake functions  *)
(* make runnable.                                                          *)
wchan_wakeone(q) == IF q = <<>> THEN 0 ELSE 1

wchan_wakeall(q) == Len(q)

(* The channel without its first n threads, and those threads.             *)
Rest(q, n)  == SubSeq(q, n + 1, Len(q))
First(q, n) == {q[i] : i \in 1 .. n}

(* V, called by lock_release with lk_spinlock held or by a client.         *)
V(t) ==
  LET s == obj[t]
      n == wchan_wakeone(sem_wchan[s]) IN
  /\ pc[t] = "V"
  /\ sem_count' = [sem_count EXCEPT ![s] = @ + 1]
  /\ sem_wchan' = [sem_wchan EXCEPT ![s] = Rest(@, n)]
  /\ pc' = [u \in Threads |->
              IF u \in First(sem_wchan[s], n) THEN "P"
              ELSE IF u = t THEN (IF op[t] = "V" THEN "idle" ELSE "unspin")
              ELSE pc[u]]
  /\ IF op[t] = "V" THEN Call(t, "none", NoLock, NoCv) ELSE UNCHANGED argVars
  /\ UNCHANGED <<lockVars, cvVars>>

-----------------------------------------------------------------------------
(* Locks.                                                                  *)

(* lock_acquire by a thread that does not hold the lock, up to P.          *)
lock_acquire(t) ==
  /\ pc[t] = "idle"
  /\ \E l \in Locks :
       /\ lk_spinlock[l] = NoThread /\ lk_owner[l] # t       \* KASSERT
       /\ Call(t, "lock_acquire", l, NoCv)
  /\ Goto(t, "P")
  /\ UNCHANGED <<semVars, lockVars, cvVars>>

(* The rest of lock_acquire, also at the end of cv_wait.                   *)
Own(t) ==
  /\ pc[t] = "own"
  /\ lk_spinlock[obj[t]] = NoThread
  /\ lk_owner' = [lk_owner EXCEPT ![obj[t]] = t]
  /\ Return(t)
  /\ UNCHANGED <<semVars, lk_spinlock, cvVars>>

(* lock_release by the holder, up to spinlock_acquire.                     *)
lock_release(t) ==
  /\ pc[t] = "idle"
  /\ \E l \in Locks : lock_do_i_hold(t, l) /\ Call(t, "lock_release", l, NoCv)
  /\ Goto(t, "release")
  /\ UNCHANGED <<semVars, lockVars, cvVars>>

(* lock_release up to V, in cv_wait with the KASSERT on lock_do_i_hold.    *)
Disown(t) ==
  /\ pc[t] = "release"
  /\ lk_spinlock[obj[t]] = NoThread
  /\ lk_spinlock' = [lk_spinlock EXCEPT ![obj[t]] = t]
  /\ lk_owner' = [lk_owner EXCEPT ![obj[t]] = NoThread]
  /\ Goto(t, "V")
  /\ UNCHANGED <<semVars, cvVars, argVars>>

(* Mutant: lk_spinlock is still held when cv_wait goes on to sleep.        *)
UnspinKeeps(t) ==
  /\ pc[t] = "unspin"
  /\ IF op[t] = "cv_wait" THEN Goto(t, "cv_enqueue") /\ UNCHANGED <<lk_spinlock, argVars>>
     ELSE Return(t) /\ lk_spinlock' = [lk_spinlock EXCEPT ![obj[t]] = NoThread]
  /\ UNCHANGED <<semVars, lk_owner, cvVars>>

(* The spinlock_release that ends lock_release.                            *)
Unspin(t) ==
  /\ pc[t] = "unspin"
  /\ lk_spinlock' = [lk_spinlock EXCEPT ![obj[t]] = NoThread]
  /\ IF op[t] = "cv_wait" THEN Goto(t, "cv_enqueue") /\ UNCHANGED argVars
     ELSE Return(t)
  /\ UNCHANGED <<semVars, lk_owner, cvVars>>

-----------------------------------------------------------------------------
(* Condition variables.                                                    *)

cv_wait(t) ==
  /\ pc[t] = "idle"
  /\ \E l \in Locks, c \in Cvs : lock_do_i_hold(t, l) /\ Call(t, "cv_wait", l, c)
  /\ Goto(t, "cv_spin")
  /\ UNCHANGED <<semVars, lockVars, cvVars>>

(* Mutant: cv_spinlock is not kept over lock_release.                      *)
CvSpinLetsGo(t) ==
  /\ pc[t] = "cv_spin"
  /\ cv_spinlock[cond[t]] = NoThread
  /\ Goto(t, "release")
  /\ UNCHANGED <<semVars, lockVars, cvVars, argVars>>

(* cv_wait takes cv_spinlock and goes on to lock_release.                  *)
CvSpin(t) ==
  /\ pc[t] = "cv_spin"
  /\ cv_spinlock[cond[t]] = NoThread
  /\ cv_spinlock' = [cv_spinlock EXCEPT ![cond[t]] = t]
  /\ Goto(t, "release")
  /\ UNCHANGED <<semVars, lockVars, cv_wchan, argVars>>

(* wchan_sleep: on the channel first, then cv_spinlock is released.        *)
CvEnqueue(t) ==
  /\ pc[t] = "cv_enqueue"
  /\ cv_wchan' = [cv_wchan EXCEPT ![cond[t]] = Append(@, t)]
  /\ cv_spinlock' = [cv_spinlock EXCEPT ![cond[t]] = NoThread]
  /\ Goto(t, "cv_sleep")
  /\ UNCHANGED <<semVars, lockVars, argVars>>

(* Awake again: cv_spinlock is taken and released, and lock_acquire        *)
(* begins with its check.                                                  *)
CvWoken(t) ==
  /\ pc[t] = "cv_woken"
  /\ cv_spinlock[cond[t]] = NoThread
  /\ lk_spinlock[obj[t]] = NoThread
  /\ Goto(t, "P")
  /\ UNCHANGED <<semVars, lockVars, cvVars, argVars>>

cv_signal(t) ==
  /\ pc[t] = "idle"
  /\ \E l \in Locks, c \in Cvs, o \in {"cv_signal", "cv_broadcast"} :
       lock_do_i_hold(t, l) /\ Call(t, o, l, c)
  /\ Goto(t, "wake")
  /\ UNCHANGED <<semVars, lockVars, cvVars>>

(* cv_signal and cv_broadcast, under cv_spinlock.                          *)
Wake(t) ==
  LET c == cond[t]
      n == IF op[t] = "cv_signal" THEN wchan_wakeone(cv_wchan[c])
           ELSE wchan_wakeall(cv_wchan[c]) IN
  /\ pc[t] = "wake"
  /\ cv_spinlock[c] = NoThread
  /\ cv_wchan' = [cv_wchan EXCEPT ![c] = Rest(@, n)]
  /\ pc' = [u \in Threads |->
              IF u = t THEN "idle"
              ELSE IF u \in First(cv_wchan[c], n) THEN "cv_woken"
              ELSE pc[u]]
  /\ Call(t, "none", NoLock, NoCv)
  /\ UNCHANGED <<semVars, lockVars, cv_spinlock>>

-----------------------------------------------------------------------------
(* What a client asks for, and what a thread inside a call does.           *)
Request(t) ==
  \/ CallP(t) \/ CallV(t) \/ lock_acquire(t) \/ lock_release(t)
  \/ cv_wait(t) \/ cv_signal(t)
Internal(t) ==
  \/ P(t) \/ V(t) \/ Own(t) \/ Disown(t) \/ Unspin(t)
  \/ CvSpin(t) \/ CvEnqueue(t) \/ CvWoken(t) \/ Wake(t)

Next == \E t \in Threads : Request(t) \/ Internal(t)

(* A thread inside a call keeps running: thread_switch serves the run      *)
(* queue round robin and the timer preempts.                               *)
Fairness == \A t \in Threads : WF_vars(Internal(t))

Spec == Init /\ [][Next]_vars
FairSpec == Spec /\ Fairness

-----------------------------------------------------------------------------
(* Properties.                                                             *)

(* The thread is inside the lock, or on its way in or out: it has taken    *)
(* the count of the lock's semaphore down and has not put it back.         *)
HasToken(t, l) ==
  \/ lk_owner[l] = t
  \/ obj[t] = l /\ pc[t] = "own"
  \/ obj[t] = l /\ pc[t] = "V"

(* Mutual exclusion: two threads are never inside the same lock, and while *)
(* one is, the semaphore is down.                                          *)
MutualExclusion ==
  \A l \in Locks, t \in Threads :
    HasToken(t, l) => /\ sem_count[l] = 0
                      /\ \A u \in Threads \ {t} : ~HasToken(u, l)

(* KASSERT(lock->lk_owner == NULL) in lock_acquire never fires: between P  *)
(* and taking lk_spinlock nobody else gets to be the owner.                *)
OwnerIsNull == \A t \in Threads : pc[t] = "own" => lk_owner[obj[t]] = NoThread

(* No lost wakeup in P and V: as long as a thread sleeps on a semaphore,   *)
(* the count never exceeds the threads awake in P that are about to take   *)
(* it, although a thread that never slept may get in first.                *)
NoLostWakeup ==
  \A s \in AllSems :
    sem_wchan[s] # <<>> =>
      sem_count[s] <= Cardinality({t \in Threads : pc[t] = "P" /\ obj[t] = s})

(* KASSERT(curcpu->c_spinlocks == 1) in wchan_sleep holds in cv_wait: when *)
(* the thread goes to sleep, cv_spinlock is the only spinlock it has.      *)
SleepsWithOneSpinlock ==
  \A t \in Threads : pc[t] = "cv_enqueue" =>
    /\ cv_spinlock[cond[t]] = t
    /\ \A c \in Cvs \ {cond[t]} : cv_spinlock[c] # t
    /\ \A l \in Locks : lk_spinlock[l] # t

(* A free lock that threads sleep for does not stay free.                  *)
FreeLockIsTaken ==
  \A l \in Locks :
    (sem_count[l] = 1 /\ sem_wchan[l] # <<>>) ~> (lk_owner[l] # NoThread)

(* No spinlock is held forever, although cv_wait waits for lk_spinlock     *)
(* while it has cv_spinlock: other processors spin with interrupts off.    *)
SpinlocksAreReleased ==
  /\ \A c \in Cvs : (cv_spinlock[c] # NoThread) ~> (cv_spinlock[c] = NoThread)
  /\ \A l \in Locks : (lk_spinlock[l] # NoThread) ~> (lk_spinlock[l] = NoThread)

(* synch.c implements the monitor of Monitor.tla: cv_wait's release and    *)
(* sleep are one step to everybody else, and signals wake in order.        *)
InTransit(t, c) ==
  cond[t] = c /\ op[t] = "cv_wait" /\ pc[t] \in {"V", "unspin", "cv_enqueue"}
waitingBar ==
  [c \in Cvs |->
     IF \E t \in Threads : InTransit(t, c)
     THEN Append(cv_wchan[c], CHOOSE t \in Threads : InTransit(t, c))
     ELSE cv_wchan[c]]
owesBar ==
  [t \in Threads |->
     IF op[t] = "cv_wait" /\ pc[t] \notin {"cv_spin", "release"} THEN obj[t] ELSE NoLock]

M == INSTANCE Monitor WITH holder <- lk_owner, waiting <- waitingBar, owes <- owesBar
MonitorSpec == M!Spec
=============================================================================
