------------------------------ MODULE Monitor -------------------------------
(***************************************************************************)
(* What include/synch.h promises of locks and condition variables, with    *)
(* Mesa semantics: every operation is one atomic step, a lock has at most  *)
(* one holder, cv_wait gives up the lock and joins the waiters in a single *)
(* step, cv_signal wakes the thread that has waited longest, and a thread  *)
(* that has waited does nothing else before it holds the lock again.       *)
(***************************************************************************)
EXTENDS Naturals, Sequences

CONSTANTS Threads, Locks, Cvs, NoThread, NoLock

VARIABLES
  holder,            \* [Locks -> Threads \cup {NoThread}]
  waiting,           \* [Cvs -> Seq(Threads)], the longest waiting first
  owes               \* [Threads -> lock to take back after cv_wait, or NoLock]

vars == <<holder, waiting, owes>>

Init ==
  /\ holder = [l \in Locks |-> NoThread]
  /\ waiting = [c \in Cvs |-> <<>>]
  /\ owes = [t \in Threads |-> NoLock]

Waits(t) == \E c \in Cvs : \E i \in 1 .. Len(waiting[c]) : waiting[c][i] = t

lock_acquire(t, l) ==
  /\ holder[l] = NoThread
  /\ ~Waits(t) /\ owes[t] \in {NoLock, l}
  /\ holder' = [holder EXCEPT ![l] = t]
  /\ owes' = [owes EXCEPT ![t] = NoLock]
  /\ UNCHANGED waiting

lock_release(t, l) ==
  /\ holder[l] = t /\ owes[t] = NoLock
  /\ holder' = [holder EXCEPT ![l] = NoThread]
  /\ UNCHANGED <<waiting, owes>>

cv_wait(t, c, l) ==
  /\ holder[l] = t /\ owes[t] = NoLock
  /\ holder' = [holder EXCEPT ![l] = NoThread]
  /\ waiting' = [waiting EXCEPT ![c] = Append(@, t)]
  /\ owes' = [owes EXCEPT ![t] = l]

cv_signal(t, c, l) ==
  /\ holder[l] = t
  /\ waiting[c] # <<>>
  /\ waiting' = [waiting EXCEPT ![c] = Tail(@)]
  /\ UNCHANGED <<holder, owes>>

cv_broadcast(t, c, l) ==
  /\ holder[l] = t
  /\ waiting' = [waiting EXCEPT ![c] = <<>>]
  /\ UNCHANGED <<holder, owes>>

Next ==
  \E t \in Threads, l \in Locks :
    \/ lock_acquire(t, l) \/ lock_release(t, l)
    \/ \E c \in Cvs : cv_wait(t, c, l) \/ cv_signal(t, c, l) \/ cv_broadcast(t, c, l)

Spec == Init /\ [][Next]_vars
=============================================================================
