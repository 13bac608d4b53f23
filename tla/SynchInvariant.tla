--------------------------- MODULE SynchInvariant ---------------------------
(***************************************************************************)
(* The inductive invariant of Synch behind mutual exclusion, and the steps *)
(* that preserve it: types, and the locks that synch.c builds from a       *)
(* binary semaphore and lk_owner.                                          *)
(*                                                                         *)
(* The argument follows the token: the one unit of a lock's semaphore is   *)
(* in sem_count, or with the thread that took it down in P, until that     *)
(* thread's V.  For the count this needs the channels: a thread that V     *)
(* wakes was asleep in P, and is on no other channel.                      *)
(***************************************************************************)
EXTENDS Synch, TLAPS

(* What the arguments of a call are while it is under way.                 *)
ArgsOK ==
  \A t \in Threads :
    /\ pc[t] \in {"P", "sem_sleep"} => (IF op[t] = "P" THEN obj[t] \in Sems ELSE obj[t] \in Locks)
    /\ pc[t] = "V" => (IF op[t] = "V" THEN obj[t] \in Sems ELSE obj[t] \in Locks)
    /\ pc[t] \in {"own", "release", "unspin", "cv_spin", "cv_enqueue", "cv_sleep", "cv_woken"}
         => obj[t] \in Locks
    /\ pc[t] \in {"release", "unspin"} => op[t] \notin {"P", "V"}
    /\ pc[t] = "V" => op[t] # "P"
    /\ op[t] = "cv_wait" => cond[t] \in Cvs
    /\ pc[t] \in {"cv_spin", "cv_enqueue", "cv_sleep", "cv_woken"} => op[t] = "cv_wait"
    /\ pc[t] = "wake" => cond[t] \in Cvs

(* The threads on a channel sleep there, each of them once.                *)
SemChannel(s) ==
  /\ \A i \in 1 .. Len(sem_wchan[s]) :
       pc[sem_wchan[s][i]] = "sem_sleep" /\ obj[sem_wchan[s][i]] = s
  /\ \A i, j \in 1 .. Len(sem_wchan[s]) : i # j => sem_wchan[s][i] # sem_wchan[s][j]
CvChannel(c) ==
  /\ \A i \in 1 .. Len(cv_wchan[c]) :
       pc[cv_wchan[c][i]] = "cv_sleep" /\ cond[cv_wchan[c][i]] = c
  /\ \A i, j \in 1 .. Len(cv_wchan[c]) : i # j => cv_wchan[c][i] # cv_wchan[c][j]
SemChannels == \A s \in AllSems : SemChannel(s)
CvChannels == \A c \in Cvs : CvChannel(c)

(* A thread on its way to Disown owns its lock, and one that is about to   *)
(* do V for a lock has disowned it.                                        *)
Holds ==
  \A t \in Threads :
    /\ pc[t] \in {"release", "cv_spin"} => lk_owner[obj[t]] = t
    /\ pc[t] = "V" /\ op[t] # "V" => lk_owner[obj[t]] = NoThread

(* Mutual exclusion as an inductive invariant.                             *)
IInv ==
  /\ TypeOK
  /\ ArgsOK /\ SemChannels /\ CvChannels
  /\ Holds /\ MutualExclusion /\ OwnerIsNull

-----------------------------------------------------------------------------
(* Facts about the channels.                                               *)

(* A channel is a sequence of threads, and empty when its length is 0.     *)
LEMMA LenFacts ==
  ASSUME NEW q \in Seq(Threads)
  PROVE  /\ Len(q) \in Nat
         /\ \A i \in 1 .. Len(q) : q[i] \in Threads
         /\ q = <<>> <=> Len(q) = 0
  OBVIOUS

(* The empty channel.                                                      *)
LEMMA EmptyFacts == <<>> \in Seq(Threads) /\ Len(<<>>) = 0
  OBVIOUS

(* A channel without its first n threads.                                  *)
LEMMA RestFacts ==
  ASSUME NEW q \in Seq(Threads), NEW n \in 0 .. Len(q)
  PROVE  /\ Rest(q, n) \in Seq(Threads)
         /\ Len(Rest(q, n)) = Len(q) - n
         /\ \A i \in 1 .. Len(Rest(q, n)) : i + n \in 1 .. Len(q) /\ Rest(q, n)[i] = q[i + n]
  BY DEF Rest

(* A channel with one more thread.                                         *)
LEMMA AppendFacts ==
  ASSUME NEW q \in Seq(Threads), NEW t \in Threads
  PROVE  /\ Append(q, t) \in Seq(Threads)
         /\ Len(Append(q, t)) = Len(q) + 1
         /\ \A i \in 1 .. Len(q) : Append(q, t)[i] = q[i]
         /\ Append(q, t)[Len(q) + 1] = t
  OBVIOUS

(* A thread that is not on a channel of different threads joins it.        *)
LEMMA JoinFacts ==
  ASSUME NEW q \in Seq(Threads), NEW t \in Threads,
         \A i, j \in 1 .. Len(q) : i # j => q[i] # q[j],
         \A i \in 1 .. Len(q) : q[i] # t
  PROVE  /\ \A i \in 1 .. Len(Append(q, t)) :
              Append(q, t)[i] = t \/ \E k \in 1 .. Len(q) : Append(q, t)[i] = q[k]
         /\ \A i, j \in 1 .. Len(Append(q, t)) :
              i # j => Append(q, t)[i] # Append(q, t)[j]
<1> DEFINE a == Append(q, t)
           n == Len(q)
<1>1. /\ Len(a) = n + 1 /\ n \in Nat
      /\ \A i \in 1 .. n : a[i] = q[i]
      /\ a[n + 1] = t
  BY AppendFacts, LenFacts
<1> HIDE DEF a, n
<1>2. \A i \in 1 .. Len(a) : i = n + 1 \/ i \in 1 .. n
  BY <1>1
<1>3. \A i \in 1 .. n, j \in 1 .. n : i # j => q[i] # q[j]
  BY DEF n
<1>4. \A i \in 1 .. n : q[i] # t
  BY DEF n
<1>5. \A i \in 1 .. Len(a) : a[i] = t \/ \E k \in 1 .. n : a[i] = q[k]
  BY <1>1, <1>2
<1>6. ASSUME NEW i \in 1 .. Len(a), NEW j \in 1 .. Len(a), i # j
      PROVE  a[i] # a[j]
  <2>1. CASE i \in 1 .. n /\ j \in 1 .. n
    BY <1>1, <1>3, <1>6, <2>1
  <2>2. CASE i \in 1 .. n /\ j = n + 1
    BY <1>1, <1>4, <2>2
  <2>3. CASE j \in 1 .. n /\ i = n + 1
    BY <1>1, <1>4, <2>3
  <2> QED
    BY <1>2, <1>6, <2>1, <2>2, <2>3
<1> QED
  BY <1>5, <1>6 DEF a, n

(* The first n threads leave a channel of different threads.               *)
LEMMA LeaveFacts ==
  ASSUME NEW q \in Seq(Threads), NEW n \in 0 .. Len(q),
         \A i, j \in 1 .. Len(q) : i # j => q[i] # q[j]
  PROVE  /\ \A u \in First(q, n) : \E k \in 1 .. Len(q) : u = q[k]
         /\ \A i \in 1 .. Len(Rest(q, n)) :
              /\ Rest(q, n)[i] \notin First(q, n)
              /\ \E k \in 1 .. Len(q) : Rest(q, n)[i] = q[k]
         /\ \A i, j \in 1 .. Len(Rest(q, n)) :
              i # j => Rest(q, n)[i] # Rest(q, n)[j]
<1> DEFINE r == Rest(q, n)
           m == Len(q)
<1>1. /\ m \in Nat /\ n \in Nat /\ n <= m
      /\ Len(r) = m - n
      /\ \A i \in 1 .. Len(r) : i + n \in 1 .. m /\ r[i] = q[i + n]
  BY RestFacts, LenFacts
<1>2. \A i, j \in 1 .. m : i # j => q[i] # q[j]
  OBVIOUS
<1>3. First(q, n) = {q[i] : i \in 1 .. n}
  BY DEF First
<1> HIDE DEF r, m
<1>4. \A u \in First(q, n) : \E k \in 1 .. m : u = q[k]
  BY <1>1, <1>3
<1>5. ASSUME NEW i \in 1 .. Len(r)
      PROVE  r[i] \notin First(q, n) /\ \E k \in 1 .. m : r[i] = q[k]
  <2>1. i + n \in 1 .. m /\ r[i] = q[i + n]
    BY <1>1
  <2>2. \A k \in 1 .. n : k \in 1 .. m /\ k # i + n
    BY <1>1
  <2> QED
    BY <1>2, <1>3, <2>1, <2>2
<1>6. ASSUME NEW i \in 1 .. Len(r), NEW j \in 1 .. Len(r), i # j
      PROVE  r[i] # r[j]
  <2>1. i + n \in 1 .. m /\ j + n \in 1 .. m /\ i + n # j + n
    BY <1>1, <1>6
  <2> QED
    BY <1>1, <1>2, <2>1
<1> QED
  BY <1>4, <1>5, <1>6 DEF r, m

(* wchan_wakeone and wchan_wakeall wake threads that are there.            *)
LEMMA WakeFacts ==
  ASSUME NEW q \in Seq(Threads)
  PROVE  wchan_wakeone(q) \in 0 .. Len(q) /\ wchan_wakeall(q) \in 0 .. Len(q)
  BY EmptyFacts, LenFacts DEF wchan_wakeone, wchan_wakeall

-----------------------------------------------------------------------------
(* One lemma per step.                                                     *)

(* The threads on the channel of a semaphore.                              *)
LEMMA SemSleepers ==
  ASSUME IInv, NEW x \in AllSems
  PROVE  /\ sem_wchan[x] \in Seq(Threads)
         /\ \A i \in 1 .. Len(sem_wchan[x]) :
              /\ sem_wchan[x][i] \in Threads
              /\ pc[sem_wchan[x][i]] = "sem_sleep" /\ obj[sem_wchan[x][i]] = x
         /\ \A i, j \in 1 .. Len(sem_wchan[x]) : i # j => sem_wchan[x][i] # sem_wchan[x][j]
<1>1. sem_wchan[x] \in Seq(Threads)
  BY DEF IInv, TypeOK, SemTypeOK
<1>2. \A i \in 1 .. Len(sem_wchan[x]) : sem_wchan[x][i] \in Threads
  BY <1>1, LenFacts
<1>3. SemChannel(x)
  BY DEF IInv, SemChannels
<1> QED
  BY <1>1, <1>2, <1>3 DEF SemChannel

(* A channel after the step, from the sequence of threads on it.           *)
LEMMA SemChannelIs ==
  ASSUME NEW x, NEW r, sem_wchan'[x] = r,
         \A i \in 1 .. Len(r) : pc'[r[i]] = "sem_sleep" /\ obj'[r[i]] = x,
         \A i, j \in 1 .. Len(r) : i # j => r[i] # r[j]
  PROVE  SemChannel(x)'
BY DEF SemChannel

(* A channel stays as it is when its threads sleep on.                     *)
LEMMA SemChannelKept ==
  ASSUME IInv, NEW x \in AllSems, sem_wchan'[x] = sem_wchan[x],
         \A u \in Threads : pc[u] = "sem_sleep" /\ obj[u] = x
                              => pc'[u] = "sem_sleep" /\ obj'[u] = x
  PROVE  SemChannel(x)'
<1>1. ASSUME NEW i \in 1 .. Len(sem_wchan[x])
      PROVE  pc'[sem_wchan[x][i]] = "sem_sleep" /\ obj'[sem_wchan[x][i]] = x
  BY SemSleepers
<1>2. \A i, j \in 1 .. Len(sem_wchan[x]) : i # j => sem_wchan[x][i] # sem_wchan[x][j]
  BY SemSleepers
<1> QED
  BY <1>1, <1>2 DEF SemChannel

(* The threads on the channel of a condition variable.                     *)
LEMMA CvSleepers ==
  ASSUME IInv, NEW x \in Cvs
  PROVE  /\ cv_wchan[x] \in Seq(Threads)
         /\ \A i \in 1 .. Len(cv_wchan[x]) :
              /\ cv_wchan[x][i] \in Threads
              /\ pc[cv_wchan[x][i]] = "cv_sleep" /\ cond[cv_wchan[x][i]] = x
         /\ \A i, j \in 1 .. Len(cv_wchan[x]) : i # j => cv_wchan[x][i] # cv_wchan[x][j]
<1>1. cv_wchan[x] \in Seq(Threads)
  BY DEF IInv, TypeOK, CvTypeOK
<1>2. \A i \in 1 .. Len(cv_wchan[x]) : cv_wchan[x][i] \in Threads
  BY <1>1, LenFacts
<1>3. CvChannel(x)
  BY DEF IInv, CvChannels
<1> QED
  BY <1>1, <1>2, <1>3 DEF CvChannel

(* A channel after the step, from the sequence of threads on it.           *)
LEMMA CvChannelIs ==
  ASSUME NEW x, NEW r, cv_wchan'[x] = r,
         \A i \in 1 .. Len(r) : pc'[r[i]] = "cv_sleep" /\ cond'[r[i]] = x,
         \A i, j \in 1 .. Len(r) : i # j => r[i] # r[j]
  PROVE  CvChannel(x)'
BY DEF CvChannel

(* A channel stays as it is when its threads sleep on.                     *)
LEMMA CvChannelKept ==
  ASSUME IInv, NEW x \in Cvs, cv_wchan'[x] = cv_wchan[x],
         \A u \in Threads : pc[u] = "cv_sleep" /\ cond[u] = x
                              => pc'[u] = "cv_sleep" /\ cond'[u] = x
  PROVE  CvChannel(x)'
<1>1. ASSUME NEW i \in 1 .. Len(cv_wchan[x])
      PROVE  pc'[cv_wchan[x][i]] = "cv_sleep" /\ cond'[cv_wchan[x][i]] = x
  BY CvSleepers
<1>2. \A i, j \in 1 .. Len(cv_wchan[x]) : i # j => cv_wchan[x][i] # cv_wchan[x][j]
  BY CvSleepers
<1> QED
  BY <1>1, <1>2 DEF CvChannel

(* Most steps leave the channels alone and are taken by a thread that is   *)
(* awake.                                                                  *)
LEMMA SameChannels ==
  ASSUME IInv, NEW t \in Threads, pc[t] \notin {"sem_sleep", "cv_sleep"},
         sem_wchan' = sem_wchan, cv_wchan' = cv_wchan,
         \A u \in Threads \ {t} : pc'[u] = pc[u] /\ obj'[u] = obj[u] /\ cond'[u] = cond[u]
  PROVE  SemChannels' /\ CvChannels'
<1>1. SemChannels'
  BY SemChannelKept DEF SemChannels
<1>2. CvChannels'
  BY CvChannelKept DEF CvChannels
<1> QED
  BY <1>1, <1>2

(* What a client may ask for, and where its thread then is; the caller of  *)
(* lock_release and of the cv_ functions has the lock.                     *)
Asks(t, p, o, s, c) ==
  \/ p = "P" /\ o = "P" /\ s \in Sems /\ c = NoCv
  \/ p = "V" /\ o = "V" /\ s \in Sems /\ c = NoCv
  \/ p = "P" /\ o = "lock_acquire" /\ s \in Locks /\ c = NoCv
  \/ p = "release" /\ o = "lock_release" /\ s \in Locks /\ lk_owner[s] = t /\ c = NoCv
  \/ p = "cv_spin" /\ o = "cv_wait" /\ s \in Locks /\ lk_owner[s] = t /\ c \in Cvs
  \/ p = "wake" /\ o \in {"cv_signal", "cv_broadcast"} /\ s \in Locks /\ c \in Cvs

(* A client calls: no token changes hands.                                 *)
LEMMA RequestPreserves ==
  ASSUME IInv, NEW t \in Threads, Request(t)
  PROVE  IInv'
<1>1. /\ pc[t] = "idle"
      /\ sem_count' = sem_count /\ sem_wchan' = sem_wchan
      /\ lk_owner' = lk_owner /\ lk_spinlock' = lk_spinlock
      /\ cv_spinlock' = cv_spinlock /\ cv_wchan' = cv_wchan
  BY DEF Request, CallP, CallV, lock_acquire, lock_release, cv_wait, cv_signal,
     semVars, lockVars, cvVars
<1>2. PICK p, o, s, c : Goto(t, p) /\ Call(t, o, s, c) /\ Asks(t, p, o, s, c)
  <2> USE DEF Asks, lock_do_i_hold
  <2>1. CASE CallP(t) \/ CallV(t)
    BY <2>1, Zenon DEF CallP, CallV
  <2>2. CASE lock_acquire(t) \/ lock_release(t)
    BY <2>2, Zenon DEF lock_acquire, lock_release
  <2>3. CASE cv_wait(t) \/ cv_signal(t)
    BY <2>3, Zenon DEF cv_wait, cv_signal
  <2> QED
    BY <2>1, <2>2, <2>3 DEF Request
<1>3. /\ pc \in [Threads -> Points] /\ op \in [Threads -> Ops]
      /\ obj \in [Threads -> AllSems \cup {NoLock}] /\ cond \in [Threads -> Cvs \cup {NoCv}]
  BY DEF IInv, TypeOK, ThreadTypeOK
<1>4. /\ pc'[t] = p /\ op'[t] = o /\ obj'[t] = s /\ cond'[t] = c
      /\ \A u \in Threads \ {t} :
           pc'[u] = pc[u] /\ op'[u] = op[u] /\ obj'[u] = obj[u] /\ cond'[u] = cond[u]
  BY <1>2, <1>3 DEF Goto, Call
<1>5. p \in Points /\ o \in Ops /\ s \in AllSems \cup {NoLock} /\ c \in Cvs \cup {NoCv}
  BY <1>2 DEF Asks, Points, Ops, AllSems
<1>6. TypeOK'
  <2>1. ThreadTypeOK'
    BY <1>2, <1>3, <1>5 DEF ThreadTypeOK, Goto, Call
  <2> QED
    BY <1>1, <2>1 DEF IInv, TypeOK, SemTypeOK, LockTypeOK, CvTypeOK
<1>7. ArgsOK'
  BY <1>2, <1>4 DEF IInv, ArgsOK, Asks
<1>8. SemChannels' /\ CvChannels'
  BY <1>1, <1>4, SameChannels
<1>9. Holds' /\ OwnerIsNull'
  BY <1>1, <1>2, <1>4 DEF IInv, Holds, OwnerIsNull, Asks
<1>10. MutualExclusion'
  <2>1. \A l \in Locks, u \in Threads : HasToken(u, l)' <=> HasToken(u, l)
    BY <1>1, <1>2, <1>4, SynchAssumption DEF HasToken, Asks
  <2> QED
    BY <1>1, <2>1 DEF IInv, MutualExclusion
<1> QED
  BY <1>6, <1>7, <1>8, <1>9, <1>10 DEF IInv

(* lock_acquire's end: the token goes from P to lk_owner.                  *)
LEMMA OwnPreserves ==
  ASSUME IInv, NEW t \in Threads, Own(t)
  PROVE  IInv'
<1> USE SynchAssumption DEF IInv, TypeOK, SemTypeOK, LockTypeOK, CvTypeOK, ThreadTypeOK, Own, Return, Call, Goto, semVars, lockVars, cvVars, argVars
<1>1. TypeOK'
  BY DEF ArgsOK, Ops, Points, AllSems
<1>2. ArgsOK'
  BY DEF ArgsOK, AllSems
<1>3. \A u \in Threads \ {t} : pc'[u] = pc[u] /\ obj'[u] = obj[u] /\ cond'[u] = cond[u]
  OBVIOUS
<1>4. SemChannels' /\ CvChannels'
  BY <1>3, SameChannels, Zenon
<1>5. Holds'
  BY DEF Holds, ArgsOK, MutualExclusion, HasToken
<1>6. MutualExclusion'
  BY DEF MutualExclusion, HasToken, ArgsOK, Holds
<1>7. OwnerIsNull'
  BY DEF OwnerIsNull, ArgsOK, MutualExclusion, HasToken, Holds
<1> QED
  BY <1>1, <1>2, <1>4, <1>5, <1>6, <1>7

(* lock_release's lk_owner = NULL: the token goes from lk_owner to V.      *)
LEMMA DisownPreserves ==
  ASSUME IInv, NEW t \in Threads, Disown(t)
  PROVE  IInv'
<1> USE SynchAssumption DEF IInv, TypeOK, SemTypeOK, LockTypeOK, CvTypeOK, ThreadTypeOK, Disown, Goto, semVars, lockVars, cvVars, argVars
<1>1. TypeOK'
  BY DEF ArgsOK, Ops, Points, AllSems
<1>2. ArgsOK'
  BY DEF ArgsOK, AllSems
<1>3. \A u \in Threads \ {t} : pc'[u] = pc[u] /\ obj'[u] = obj[u] /\ cond'[u] = cond[u]
  OBVIOUS
<1>4. SemChannels' /\ CvChannels'
  BY <1>3, SameChannels, Zenon
<1>5. Holds'
  BY DEF Holds, ArgsOK, MutualExclusion, HasToken
<1>6. MutualExclusion'
  BY DEF MutualExclusion, HasToken, ArgsOK, Holds
<1>7. OwnerIsNull'
  BY DEF OwnerIsNull, ArgsOK, MutualExclusion, HasToken, Holds
<1> QED
  BY <1>1, <1>2, <1>4, <1>5, <1>6, <1>7

(* lock_release's end: the token is already back in the count.             *)
LEMMA UnspinPreserves ==
  ASSUME IInv, NEW t \in Threads, Unspin(t)
  PROVE  IInv'
<1> USE SynchAssumption DEF IInv, TypeOK, SemTypeOK, LockTypeOK, CvTypeOK, ThreadTypeOK, Unspin, Return, Call, Goto, semVars, lockVars, cvVars, argVars
<1>0. obj[t] \in Locks /\ lk_spinlock' = [lk_spinlock EXCEPT ![obj[t]] = NoThread]
  BY DEF ArgsOK
<1>a. LockTypeOK'
  BY <1>0
<1>b. ThreadTypeOK'
  BY Zenon DEF Ops, Points
<1>1. TypeOK'
  BY <1>a, <1>b
<1>2. ArgsOK'
  BY DEF ArgsOK, AllSems
<1>3. \A u \in Threads \ {t} : pc'[u] = pc[u] /\ obj'[u] = obj[u] /\ cond'[u] = cond[u]
  OBVIOUS
<1>4. SemChannels' /\ CvChannels'
  BY <1>3, SameChannels, Zenon
<1>5. Holds'
  BY DEF Holds, ArgsOK, MutualExclusion, HasToken
<1>6. MutualExclusion'
  BY DEF MutualExclusion, HasToken, ArgsOK, Holds
<1>7. OwnerIsNull'
  BY DEF OwnerIsNull, ArgsOK, MutualExclusion, HasToken, Holds
<1> QED
  BY <1>1, <1>2, <1>4, <1>5, <1>6, <1>7

(* cv_wait takes cv_spinlock.                                              *)
LEMMA CvSpinPreserves ==
  ASSUME IInv, NEW t \in Threads, CvSpin(t)
  PROVE  IInv'
<1> USE SynchAssumption DEF IInv, TypeOK, SemTypeOK, LockTypeOK, CvTypeOK, ThreadTypeOK, CvSpin, Goto, semVars, lockVars, cvVars, argVars
<1>1. TypeOK'
  BY DEF ArgsOK, Ops, Points, AllSems
<1>2. ArgsOK'
  BY DEF ArgsOK, AllSems
<1>3. \A u \in Threads \ {t} : pc'[u] = pc[u] /\ obj'[u] = obj[u] /\ cond'[u] = cond[u]
  OBVIOUS
<1>4. SemChannels' /\ CvChannels'
  BY <1>3, SameChannels, Zenon
<1>5. Holds'
  BY DEF Holds, ArgsOK, MutualExclusion, HasToken
<1>6. MutualExclusion'
  BY DEF MutualExclusion, HasToken, ArgsOK, Holds
<1>7. OwnerIsNull'
  BY DEF OwnerIsNull, ArgsOK, MutualExclusion, HasToken, Holds
<1> QED
  BY <1>1, <1>2, <1>4, <1>5, <1>6, <1>7

(* cv_wait awake again: it has no token before P.                          *)
LEMMA CvWokenPreserves ==
  ASSUME IInv, NEW t \in Threads, CvWoken(t)
  PROVE  IInv'
<1> USE SynchAssumption DEF IInv, TypeOK, SemTypeOK, LockTypeOK, CvTypeOK, ThreadTypeOK, CvWoken, Goto, semVars, lockVars, cvVars, argVars
<1>1. TypeOK'
  BY DEF ArgsOK, Ops, Points, AllSems
<1>2. ArgsOK'
  BY DEF ArgsOK, AllSems
<1>3. \A u \in Threads \ {t} : pc'[u] = pc[u] /\ obj'[u] = obj[u] /\ cond'[u] = cond[u]
  OBVIOUS
<1>4. SemChannels' /\ CvChannels'
  BY <1>3, SameChannels, Zenon
<1>5. Holds'
  BY DEF Holds, ArgsOK, MutualExclusion, HasToken
<1>6. MutualExclusion'
  BY DEF MutualExclusion, HasToken, ArgsOK, Holds
<1>7. OwnerIsNull'
  BY DEF OwnerIsNull, ArgsOK, MutualExclusion, HasToken, Holds
<1> QED
  BY <1>1, <1>2, <1>4, <1>5, <1>6, <1>7

(* P takes the count down, or puts the thread on the channel.              *)
LEMMA PPreserves ==
  ASSUME IInv, NEW t \in Threads, P(t)
  PROVE  IInv'
<1> DEFINE s == obj[t]
<1> USE SynchAssumption DEF IInv
<1>0. pc[t] = "P" /\ s \in AllSems /\ sem_wchan[s] \in Seq(Threads)
  BY DEF P, TypeOK, SemTypeOK, ThreadTypeOK, ArgsOK, AllSems
<1>1. CASE sem_count[s] = 0
  <2>1. /\ sem_wchan' = [sem_wchan EXCEPT ![s] = Append(@, t)]
        /\ pc' = [pc EXCEPT ![t] = "sem_sleep"]
        /\ sem_count' = sem_count /\ op' = op /\ obj' = obj /\ cond' = cond
        /\ lk_owner' = lk_owner /\ lk_spinlock' = lk_spinlock
        /\ cv_spinlock' = cv_spinlock /\ cv_wchan' = cv_wchan
    BY <1>0, <1>1 DEF P, Goto, argVars, lockVars, cvVars, TypeOK, SemTypeOK
  <2>2. /\ Append(sem_wchan[s], t) \in Seq(Threads)
        /\ Len(Append(sem_wchan[s], t)) = Len(sem_wchan[s]) + 1
        /\ Len(sem_wchan[s]) \in Nat
        /\ \A i \in 1 .. Len(sem_wchan[s]) : Append(sem_wchan[s], t)[i] = sem_wchan[s][i]
        /\ Append(sem_wchan[s], t)[Len(sem_wchan[s]) + 1] = t
    BY <1>0, AppendFacts, LenFacts
  <2>3. TypeOK'
    BY <1>0, <2>1, <2>2 DEF TypeOK, SemTypeOK, LockTypeOK, CvTypeOK, ThreadTypeOK, Points
  <2>4. ArgsOK'
    BY <1>0, <2>1 DEF TypeOK, ThreadTypeOK, ArgsOK
  <2> DEFINE q == sem_wchan[s]
  <2>5. /\ \A i \in 1 .. Len(q) : q[i] \in Threads \ {t} /\ pc[q[i]] = "sem_sleep" /\ obj[q[i]] = s
        /\ \A i, j \in 1 .. Len(q) : i # j => q[i] # q[j]
    <3>1. /\ \A i \in 1 .. Len(q) : q[i] \in Threads /\ pc[q[i]] = "sem_sleep" /\ obj[q[i]] = s
          /\ \A i, j \in 1 .. Len(q) : i # j => q[i] # q[j]
      BY <1>0, SemSleepers
    <3> HIDE DEF q
    <3> QED
      BY <1>0, <3>1
  <2>6. /\ pc'[t] = "sem_sleep"
        /\ \A u \in Threads \ {t} : pc'[u] = pc[u]
    BY <2>1 DEF TypeOK, ThreadTypeOK
  <2>7. SemChannels'
    <3>1. ASSUME NEW x \in AllSems, x = s
          PROVE  SemChannel(x)'
      <4>0. q \in Seq(Threads)
        BY <1>0
      <4>1. sem_wchan'[x] = Append(q, t)
        BY <3>1, <2>1, <1>0 DEF TypeOK, SemTypeOK
      <4> HIDE DEF q
      <4>2. /\ \A i \in 1 .. Len(Append(q, t)) :
                 Append(q, t)[i] = t \/ \E k \in 1 .. Len(q) : Append(q, t)[i] = q[k]
            /\ \A i, j \in 1 .. Len(Append(q, t)) :
                 i # j => Append(q, t)[i] # Append(q, t)[j]
        BY <4>0, <2>5, JoinFacts
      <4>3. \A k \in 1 .. Len(q) : pc'[q[k]] = "sem_sleep" /\ obj'[q[k]] = s
        BY <2>1, <2>5, <2>6
      <4>4. pc'[t] = "sem_sleep" /\ obj'[t] = s
        BY <2>1, <2>6
      <4> HIDE DEF s
      <4>5. \A i \in 1 .. Len(Append(q, t)) :
              pc'[Append(q, t)[i]] = "sem_sleep" /\ obj'[Append(q, t)[i]] = x
        BY <3>1, <4>2, <4>3, <4>4
      <4> QED
        BY <4>1, <4>2, <4>5, SemChannelIs, Zenon
    <3>2. ASSUME NEW x \in AllSems, x # s
          PROVE  SemChannel(x)'
      <4>1. sem_wchan'[x] = sem_wchan[x]
        BY <3>2, <2>1 DEF TypeOK, SemTypeOK
      <4> QED
        BY <4>1, <1>0, <2>1, <2>6, SemChannelKept
    <3> QED
      BY <3>1, <3>2 DEF SemChannels
  <2>8. CvChannels'
    BY <1>0, <2>1, <2>6, CvChannelKept DEF CvChannels
  <2>9. Holds' /\ OwnerIsNull'
    BY <1>0, <2>1, <2>6 DEF Holds, OwnerIsNull
  <2>10. MutualExclusion'
    <3>1. \A l \in Locks, u \in Threads : HasToken(u, l)' <=> HasToken(u, l)
      BY <1>0, <2>1, <2>6 DEF HasToken
    <3> QED
      BY <2>1, <3>1 DEF MutualExclusion
  <2> QED
    BY <2>3, <2>4, <2>7, <2>8, <2>9, <2>10
<1>2. CASE sem_count[s] > 0
  <2>1. /\ sem_count' = [sem_count EXCEPT ![s] = @ - 1]
        /\ \/ /\ op[t] = "P"
              /\ pc' = [pc EXCEPT ![t] = "idle"]
              /\ op' = [op EXCEPT ![t] = "none"]
              /\ obj' = [obj EXCEPT ![t] = NoLock]
              /\ cond' = [cond EXCEPT ![t] = NoCv]
           \/ /\ op[t] # "P"
              /\ pc' = [pc EXCEPT ![t] = "own"]
              /\ op' = op /\ obj' = obj /\ cond' = cond
        /\ sem_wchan' = sem_wchan
        /\ lk_owner' = lk_owner /\ lk_spinlock' = lk_spinlock
        /\ cv_spinlock' = cv_spinlock /\ cv_wchan' = cv_wchan
    BY <1>2 DEF P, Taken, Through, Return, Call, Goto, argVars, lockVars, cvVars
  <2>2. TypeOK'
    <3>1. sem_count[s] \in Nat /\ sem_count[s] - 1 \in Nat
      BY <1>0, <1>2 DEF TypeOK, SemTypeOK
    <3>2. SemTypeOK'
      BY <1>0, <2>1, <3>1 DEF TypeOK, SemTypeOK, AllSems
    <3>3. ThreadTypeOK'
      BY <2>1 DEF TypeOK, ThreadTypeOK, Points, Ops
    <3> QED
      BY <2>1, <3>2, <3>3 DEF TypeOK, LockTypeOK, CvTypeOK
  <2>3. /\ pc'[t] \in {"idle", "own"}
        /\ pc'[t] = "own" => op[t] # "P" /\ op'[t] = op[t] /\ obj'[t] = s /\ cond'[t] = cond[t]
        /\ pc'[t] = "idle" => op'[t] = "none" /\ obj'[t] = NoLock /\ cond'[t] = NoCv
    BY <2>1 DEF TypeOK, ThreadTypeOK
  <2>4. \A u \in Threads \ {t} : pc'[u] = pc[u] /\ obj'[u] = obj[u] /\ cond'[u] = cond[u] /\ op'[u] = op[u]
    BY <2>1 DEF TypeOK, ThreadTypeOK
  <2>a. ArgsOK'
    BY <1>0, <2>3, <2>4 DEF ArgsOK
  <2>5. SemChannels' /\ CvChannels'
    BY <1>0, <2>1, <2>4, SameChannels
  <2>6. \A u \in Threads : s \in Locks => ~ HasToken(u, s)
    BY <1>2 DEF MutualExclusion
  <2>7. op[t] # "P" => s \in Locks /\ lk_owner[s] = NoThread
    BY <1>0, <2>6 DEF ArgsOK, HasToken, TypeOK, LockTypeOK
  <2>8. op[t] = "P" => s \notin Locks
    BY <1>0 DEF ArgsOK
  <2>9. Holds' /\ OwnerIsNull'
    <3>1. ASSUME NEW u \in Threads, u # t
          PROVE  pc'[u] = pc[u] /\ obj'[u] = obj[u] /\ op'[u] = op[u]
      BY <2>4, <3>1
    <3>2. Holds'
      BY <2>1, <2>3, <3>1 DEF Holds
    <3>3. ASSUME NEW u \in Threads, pc'[u] = "own"
          PROVE  lk_owner'[obj'[u]] = NoThread
      <4>1. CASE u = t
        BY <2>1, <2>3, <2>7, <3>3, <4>1
      <4>2. CASE u # t
        BY <2>1, <3>1, <3>3, <4>2 DEF OwnerIsNull
      <4> QED
        BY <4>1, <4>2
    <3> QED
      BY <3>2, <3>3 DEF OwnerIsNull
  <2>10. MutualExclusion'
    <3>1. ASSUME NEW l \in Locks, l # s
          PROVE  /\ sem_count'[l] = sem_count[l]
                 /\ \A u \in Threads : HasToken(u, l)' => HasToken(u, l)
      BY <1>0, <2>1, <2>4, <3>1 DEF HasToken, TypeOK, SemTypeOK, ThreadTypeOK, AllSems
    <3>2. ASSUME NEW l \in Locks, l = s
          PROVE  sem_count'[l] = 0 /\ \A u \in Threads \ {t} : ~ HasToken(u, l)'
      <4>1. sem_count'[l] = 0
        BY <1>0, <1>2, <2>1, <3>2 DEF TypeOK, SemTypeOK
      <4>2. \A u \in Threads \ {t} : ~ HasToken(u, l)'
        BY <1>0, <2>1, <2>4, <2>6, <2>8, <3>2 DEF HasToken
      <4> QED
        BY <4>1, <4>2
    <3>3. SUFFICES ASSUME NEW l \in Locks, NEW v \in Threads, HasToken(v, l)'
                   PROVE  sem_count'[l] = 0 /\ \A u \in Threads \ {v} : ~ HasToken(u, l)'
      BY DEF MutualExclusion
    <3>4. CASE l # s
      BY <3>1, <3>3, <3>4 DEF MutualExclusion
    <3>5. CASE l = s
      BY <3>2, <3>3, <3>5 DEF HasToken
    <3> QED
      BY <3>4, <3>5
  <2> QED
    BY <2>2, <2>a, <2>5, <2>9, <2>10
<1> QED
  BY <1>0, <1>1, <1>2 DEF TypeOK, SemTypeOK
(* V puts the count up and wakes the first thread of the channel.          *)
LEMMA VPreserves ==
  ASSUME IInv, NEW t \in Threads, V(t)
  PROVE  IInv'
<1> DEFINE s == obj[t]
           q == sem_wchan[s]
           n == wchan_wakeone(q)
           W == First(q, n)
<1> USE SynchAssumption DEF IInv
<1>0. pc[t] = "V" /\ s \in AllSems /\ q \in Seq(Threads)
  <2>1. pc[t] = "V"
    BY DEF V
  <2>2. s \in AllSems
    BY <2>1 DEF ArgsOK, AllSems
  <2> QED
    BY <2>1, <2>2 DEF TypeOK, SemTypeOK
<1>1. /\ n \in 0 .. Len(q)
      /\ \A i \in 1 .. Len(q) : q[i] \in Threads /\ pc[q[i]] = "sem_sleep" /\ obj[q[i]] = s
      /\ \A i, j \in 1 .. Len(q) : i # j => q[i] # q[j]
  <2>1. n \in 0 .. Len(q)
    BY <1>0, WakeFacts
  <2> QED
    BY <1>0, <2>1, SemSleepers, Zenon
<1>2. /\ \A u \in W : \E k \in 1 .. Len(q) : u = q[k]
      /\ \A i \in 1 .. Len(Rest(q, n)) :
           /\ Rest(q, n)[i] \notin W
           /\ \E k \in 1 .. Len(q) : Rest(q, n)[i] = q[k]
      /\ \A i, j \in 1 .. Len(Rest(q, n)) : i # j => Rest(q, n)[i] # Rest(q, n)[j]
      /\ Rest(q, n) \in Seq(Threads)
  <2> HIDE DEF q, n
  <2>1. q \in Seq(Threads) /\ n \in 0 .. Len(q) /\ \A i, j \in 1 .. Len(q) : i # j => q[i] # q[j]
    BY <1>0, <1>1
  <2>2. Rest(q, n) \in Seq(Threads)
    BY <2>1, RestFacts
  <2>3. /\ \A u \in First(q, n) : \E k \in 1 .. Len(q) : u = q[k]
        /\ \A i \in 1 .. Len(Rest(q, n)) :
             /\ Rest(q, n)[i] \notin First(q, n)
             /\ \E k \in 1 .. Len(q) : Rest(q, n)[i] = q[k]
        /\ \A i, j \in 1 .. Len(Rest(q, n)) : i # j => Rest(q, n)[i] # Rest(q, n)[j]
    BY ONLY <2>1, LeaveFacts, Zenon
  <2> QED
    BY <2>2, <2>3, Zenon
<1>3. \A u \in W : u \in Threads \ {t} /\ pc[u] = "sem_sleep" /\ obj[u] = s
  <2> HIDE DEF q, n, W
  <2> QED
    BY <1>0, <1>1, <1>2
<1>4. /\ sem_count' = [sem_count EXCEPT ![s] = @ + 1]
      /\ sem_wchan' = [sem_wchan EXCEPT ![s] = Rest(q, n)]
      /\ lk_owner' = lk_owner /\ lk_spinlock' = lk_spinlock
      /\ cv_spinlock' = cv_spinlock /\ cv_wchan' = cv_wchan
  BY <1>0 DEF V, lockVars, cvVars, TypeOK, SemTypeOK
<1>5. /\ pc' = [u \in Threads |->
                 IF u \in W THEN "P"
                 ELSE IF u = t THEN (IF op[t] = "V" THEN "idle" ELSE "unspin")
                 ELSE pc[u]]
      /\ \/ /\ op[t] = "V"
            /\ op' = [op EXCEPT ![t] = "none"]
            /\ obj' = [obj EXCEPT ![t] = NoLock]
            /\ cond' = [cond EXCEPT ![t] = NoCv]
         \/ /\ op[t] # "V"
            /\ op' = op /\ obj' = obj /\ cond' = cond
  BY DEF V, Call, argVars
<1> HIDE DEF q, n, W
<1>6. /\ \A u \in Threads \ {t} : obj'[u] = obj[u] /\ cond'[u] = cond[u] /\ op'[u] = op[u]
      /\ \A u \in W : pc'[u] = "P"
      /\ \A u \in Threads \ {t} : u \notin W => pc'[u] = pc[u]
      /\ pc'[t] \in {"idle", "unspin"}
      /\ pc'[t] = "unspin" => op[t] # "V" /\ obj'[t] = s /\ op'[t] = op[t] /\ cond'[t] = cond[t]
      /\ op'[t] = op[t] \/ op'[t] = "none"
      /\ cond'[t] = cond[t] \/ op'[t] = "none"
  BY <1>3, <1>5 DEF TypeOK, ThreadTypeOK
<1>7. s \in Locks => op[t] # "V" /\ sem_count[s] = 0 /\ \A u \in Threads \ {t} : ~ HasToken(u, s)
  BY <1>0 DEF ArgsOK, MutualExclusion, HasToken
<1>8. op[t] # "V" => s \in Locks /\ lk_owner[s] = NoThread
  BY <1>0 DEF ArgsOK, Holds
<1>9. TypeOK'
  <2>1. sem_count[s] \in Nat /\ sem_count[s] + 1 \in Nat /\ (s \in Locks => sem_count[s] + 1 = 1)
    <3>1. sem_count[s] \in Nat
      BY <1>0 DEF TypeOK, SemTypeOK
    <3>2. s \in Locks => sem_count[s] = 0
      BY <1>7
    <3> QED
      BY <3>1, <3>2
  <2>2. SemTypeOK'
    <3>1. sem_count' \in [AllSems -> Nat]
      BY <1>4, <2>1, Zenon DEF TypeOK, SemTypeOK
    <3>2. sem_wchan' \in [AllSems -> Seq(Threads)]
      BY <1>2, <1>4, Zenon DEF TypeOK, SemTypeOK
    <3>3. ASSUME NEW l \in Locks PROVE sem_count'[l] <= 1
      <4>1. CASE l = s
        <5>1. sem_count'[s] = sem_count[s] + 1
          BY <1>0, <1>4 DEF TypeOK, SemTypeOK
        <5> HIDE DEF s
        <5> QED
          BY <2>1, <4>1, <5>1
      <4>2. CASE l # s
        BY <1>4, <4>2 DEF TypeOK, SemTypeOK, AllSems
      <4> QED
        BY <4>1, <4>2
    <3> QED
      BY <3>1, <3>2, <3>3 DEF SemTypeOK
  <2>3. ThreadTypeOK'
    BY <1>5 DEF TypeOK, ThreadTypeOK, Points, Ops
  <2> QED
    BY <1>4, <2>2, <2>3 DEF TypeOK, LockTypeOK, CvTypeOK
<1>10. ArgsOK'
  <2>1. \A u \in Threads \ {t} : u \notin W => pc'[u] = pc[u] /\ obj'[u] = obj[u] /\ cond'[u] = cond[u] /\ op'[u] = op[u]
    BY <1>6
  <2>2. \A u \in W : u \in Threads \ {t} /\ pc[u] = "sem_sleep" /\ pc'[u] = "P" /\ obj'[u] = obj[u] /\ cond'[u] = cond[u] /\ op'[u] = op[u]
    BY <1>3, <1>6
  <2>3. SUFFICES ASSUME NEW u \in Threads
                 PROVE  (ArgsOK!(u))'
    BY DEF ArgsOK
  <2>4. CASE u = t
    BY <1>0, <1>6, <1>8, <2>4, Zenon DEF ArgsOK
  <2>5. CASE u \in W
    BY <2>2, <2>5 DEF ArgsOK
  <2>6. CASE u # t /\ u \notin W
    BY <2>1, <2>6 DEF ArgsOK
  <2> QED
    BY <2>4, <2>5, <2>6
<1>11. SemChannels'
  <2>1. ASSUME NEW x \in AllSems, x = s
        PROVE  SemChannel(x)'
    <3>1. sem_wchan'[x] = Rest(q, n)
      BY <2>1, <1>0, <1>4 DEF TypeOK, SemTypeOK
    <3>2. ASSUME NEW k \in 1 .. Len(q), q[k] \notin W
          PROVE  pc'[q[k]] = "sem_sleep" /\ obj'[q[k]] = s
      <4>1. q[k] \in Threads /\ pc[q[k]] = "sem_sleep" /\ obj[q[k]] = s
        BY <1>1
      <4>2. q[k] # t
        BY <1>0, <4>1
      <4> QED
        BY <1>6, <3>2, <4>1, <4>2
    <3>3. \A i \in 1 .. Len(Rest(q, n)) :
            pc'[Rest(q, n)[i]] = "sem_sleep" /\ obj'[Rest(q, n)[i]] = s
      BY <1>2, <3>2
    <3>4. \A i, j \in 1 .. Len(Rest(q, n)) : i # j => Rest(q, n)[i] # Rest(q, n)[j]
      BY <1>2
    <3> HIDE DEF s
    <3> QED
      BY <2>1, <3>1, <3>3, <3>4, SemChannelIs
  <2>2. ASSUME NEW x \in AllSems, x # s
        PROVE  SemChannel(x)'
    <3>1. sem_wchan'[x] = sem_wchan[x]
      BY <2>2, <1>4 DEF TypeOK, SemTypeOK
    <3>2. \A u \in Threads : pc[u] = "sem_sleep" /\ obj[u] = x => u # t /\ u \notin W
      BY <1>0, <1>3, <2>2
    <3> QED
      BY <3>1, <3>2, <1>6, SemChannelKept
  <2> QED
    BY <2>1, <2>2 DEF SemChannels
<1>12. CvChannels'
  <2>1. \A u \in Threads : pc[u] = "cv_sleep" => u # t /\ u \notin W
    BY <1>0, <1>3
  <2>2. \A u \in Threads : pc[u] = "cv_sleep" => pc'[u] = pc[u] /\ cond'[u] = cond[u]
    BY <1>6, <2>1
  <2> QED
    BY <1>4, <2>2, CvChannelKept DEF CvChannels
<1>13. Holds' /\ OwnerIsNull'
  <2>1. \A u \in Threads : pc'[u] \in {"release", "cv_spin", "V", "own"} =>
          u # t /\ pc'[u] = pc[u] /\ obj'[u] = obj[u] /\ op'[u] = op[u]
    BY <1>6
  <2>2. Holds'
    BY <1>4, <2>1 DEF Holds
  <2>3. OwnerIsNull'
    BY <1>4, <2>1 DEF OwnerIsNull
  <2> QED
    BY <2>2, <2>3
<1>14. MutualExclusion'
  <2>1. \A l \in Locks, u \in Threads : HasToken(u, l)' => HasToken(u, l)
    BY <1>3, <1>4, <1>6, Zenon DEF HasToken
  <2>2. \A l \in Locks \ {s} : sem_count'[l] = sem_count[l]
    BY <1>0, <1>4 DEF TypeOK, SemTypeOK, AllSems
  <2>3. ASSUME NEW l \in Locks, l = s, NEW u \in Threads
        PROVE  ~ HasToken(u, l)'
    <3>1. CASE u = t
      <4>1. lk_owner'[l] = NoThread /\ NoThread # t
        BY <1>4, <1>7, <1>8, <2>3
      <4>2. pc'[t] # "own" /\ pc'[t] # "V"
        BY <1>6
      <4> QED
        BY <3>1, <4>1, <4>2 DEF HasToken
    <3>2. CASE u # t
      BY <1>7, <2>1, <2>3, <3>2
    <3> QED
      BY <3>1, <3>2
  <2>4. SUFFICES ASSUME NEW l \in Locks, NEW v \in Threads, HasToken(v, l)'
                 PROVE  sem_count'[l] = 0 /\ \A u \in Threads \ {v} : ~ HasToken(u, l)'
    BY DEF MutualExclusion
  <2>5. l # s
    BY <2>3, <2>4
  <2> QED
    BY <2>1, <2>2, <2>4, <2>5 DEF MutualExclusion
<1> QED
  BY <1>9, <1>10, <1>11, <1>12, <1>13, <1>14

(* cv_wait's wchan_sleep puts the thread on the channel.                   *)
LEMMA CvEnqueuePreserves ==
  ASSUME IInv, NEW t \in Threads, CvEnqueue(t)
  PROVE  IInv'
<1> DEFINE d == cond[t]
           q == cv_wchan[d]
<1> USE SynchAssumption DEF IInv
<1>0. pc[t] = "cv_enqueue" /\ d \in Cvs /\ q \in Seq(Threads)
  BY DEF CvEnqueue, TypeOK, CvTypeOK, ThreadTypeOK, ArgsOK
<1>1. /\ cv_wchan' = [cv_wchan EXCEPT ![d] = Append(q, t)]
      /\ cv_spinlock' = [cv_spinlock EXCEPT ![d] = NoThread]
      /\ pc' = [pc EXCEPT ![t] = "cv_sleep"]
      /\ sem_count' = sem_count /\ sem_wchan' = sem_wchan
      /\ op' = op /\ obj' = obj /\ cond' = cond
      /\ lk_owner' = lk_owner /\ lk_spinlock' = lk_spinlock
  BY <1>0 DEF CvEnqueue, Goto, argVars, lockVars, semVars, TypeOK, CvTypeOK
<1>2. /\ \A i \in 1 .. Len(q) : q[i] \in Threads \ {t} /\ pc[q[i]] = "cv_sleep" /\ cond[q[i]] = d
      /\ \A i, j \in 1 .. Len(q) : i # j => q[i] # q[j]
  <2>1. /\ \A i \in 1 .. Len(q) : q[i] \in Threads /\ pc[q[i]] = "cv_sleep" /\ cond[q[i]] = d
        /\ \A i, j \in 1 .. Len(q) : i # j => q[i] # q[j]
    BY <1>0, CvSleepers
  <2> HIDE DEF q
  <2> QED
    BY <1>0, <2>1
<1> HIDE DEF q
<1>3. /\ \A i \in 1 .. Len(Append(q, t)) :
           Append(q, t)[i] = t \/ \E k \in 1 .. Len(q) : Append(q, t)[i] = q[k]
      /\ \A i, j \in 1 .. Len(Append(q, t)) :
           i # j => Append(q, t)[i] # Append(q, t)[j]
  BY <1>0, <1>2, JoinFacts
<1>4. Append(q, t) \in Seq(Threads)
  BY <1>0, AppendFacts
<1>5. /\ pc'[t] = "cv_sleep"
      /\ \A u \in Threads \ {t} : pc'[u] = pc[u]
  BY <1>1 DEF TypeOK, ThreadTypeOK
<1>6. TypeOK'
  <2>1. CvTypeOK'
    BY <1>1, <1>4, Zenon DEF TypeOK, CvTypeOK
  <2>2. ThreadTypeOK'
    BY <1>1 DEF TypeOK, ThreadTypeOK, Points
  <2> QED
    BY <1>1, <2>1, <2>2 DEF TypeOK, SemTypeOK, LockTypeOK
<1>7. ArgsOK'
  BY <1>0, <1>1, <1>5, Zenon DEF ArgsOK
<1>8. SemChannels'
  BY <1>0, <1>1, <1>5, SemChannelKept DEF SemChannels
<1>9. CvChannels'
  <2>1. ASSUME NEW x \in Cvs, x = d
        PROVE  CvChannel(x)'
    <3>1. cv_wchan'[x] = Append(q, t)
      BY <2>1, <1>0, <1>1 DEF TypeOK, CvTypeOK
    <3>2. \A k \in 1 .. Len(q) : pc'[q[k]] = "cv_sleep" /\ cond'[q[k]] = d
      BY <1>1, <1>2, <1>5
    <3>3. \A i \in 1 .. Len(Append(q, t)) :
            pc'[Append(q, t)[i]] = "cv_sleep" /\ cond'[Append(q, t)[i]] = d
      BY <1>1, <1>3, <1>5, <3>2
    <3> HIDE DEF d
    <3> QED
      BY <2>1, <3>1, <3>3, <1>3, CvChannelIs, Zenon
  <2>2. ASSUME NEW x \in Cvs, x # d
        PROVE  CvChannel(x)'
    <3>1. cv_wchan'[x] = cv_wchan[x]
      BY <2>2, <1>1 DEF TypeOK, CvTypeOK
    <3> QED
      BY <3>1, <1>0, <1>1, <1>5, CvChannelKept
  <2> QED
    BY <2>1, <2>2, Zenon DEF CvChannels
<1>10. Holds' /\ OwnerIsNull'
  BY <1>0, <1>1, <1>5 DEF Holds, OwnerIsNull
<1>11. MutualExclusion'
  <2>1. \A l \in Locks, u \in Threads : HasToken(u, l)' <=> HasToken(u, l)
    BY <1>0, <1>1, <1>5 DEF HasToken
  <2> QED
    BY <1>1, <2>1 DEF MutualExclusion
<1> QED
  BY <1>6, <1>7, <1>8, <1>9, <1>10, <1>11

=============================================================================
