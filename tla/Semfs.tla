------------------------------- MODULE Semfs -------------------------------
(***************************************************************************)
(* The semaphore file system (kern/fs/semfs): semaphores by name, their    *)
(* vnodes, read as P and write as V, and how a semaphore goes away when it *)
(* is neither in the directory nor open.                                   *)
(*                                                                         *)
(* semfs_dirlock and semfs_tablelock are taken and released within a step  *)
(* except where an operation keeps one across several: semfs_remove keeps  *)
(* the directory lock and the semaphore's, semfs_reclaim the table lock.   *)
(* It looks at sems_linked and semfs_remove looks at sems_hasvnode, each   *)
(* under a lock the other does not hold.                                   *)
(***************************************************************************)
EXTENDS Integers, Sequences, FiniteSets

CONSTANTS Thread, Name, Slot,
          CountMax,     \* the largest unsigned
          Amounts,      \* how much one read or write asks for
          MaxOpens, MaxCalls, MaxNoMem

VARIABLES dents,        \* [Name -> Slot or 0]: the directory
          sems,         \* [Slot -> semaphore or Null]: semfs_sems
          vn_refcount,  \* [Slot -> references to its vnode, 0 if there is none]
          waiters,      \* [Slot -> threads asleep on sems_cv, in order]
          dirlock, tablelock, semlock,
          pc, cur, resid,
          age,          \* [Slot -> how many semaphores it has held]
          mine,         \* [Thread -> the age of the slot when it opened it]
          opens, calls, nomem,
          panicked      \* "no", or the reason

vars == <<dents, sems, vn_refcount, waiters, dirlock, tablelock, semlock, pc, cur, resid,
          age, mine, opens, calls, nomem, panicked>>
locks == <<dirlock, tablelock, semlock>>
bounds == <<opens, calls, nomem>>

Null == [count |-> -1, hasvnode |-> FALSE, linked |-> FALSE]
Sem(s) == sems[s] # Null

Init ==
  /\ dents = [n \in Name |-> 0] /\ sems = [s \in Slot |-> Null]
  /\ vn_refcount = [s \in Slot |-> 0] /\ waiters = [s \in Slot |-> <<>>]
  /\ dirlock = 0 /\ tablelock = 0 /\ semlock = [s \in Slot |-> 0]
  /\ pc = [t \in Thread |-> "idle"] /\ cur = [t \in Thread |-> 0]
  /\ resid = [t \in Thread |-> 0] /\ age = [s \in Slot |-> 0]
  /\ mine = [t \in Thread |-> 0] /\ opens = 0 /\ calls = 0 /\ nomem = 0 /\ panicked = "no"

Goto(t, l) == pc' = [pc EXCEPT ![t] = l]

(***************************************************************************)
(* Opening: semfs_lookup or semfs_creat, both under the directory lock,    *)
(* and semfs_getvnode under the table lock.                                *)
(***************************************************************************)
getvnode(t, s) ==
  /\ vn_refcount' = [vn_refcount EXCEPT ![s] = @ + 1]
  /\ cur' = [cur EXCEPT ![t] = s] /\ mine' = [mine EXCEPT ![t] = age'[s]]

semfs_lookup(t, n) ==
  /\ pc[t] = "idle" /\ cur[t] = 0 /\ opens < MaxOpens /\ opens' = opens + 1
  /\ dirlock = 0 /\ tablelock = 0 /\ dents[n] # 0
  /\ UNCHANGED age /\ getvnode(t, dents[n])
  /\ sems' = [sems EXCEPT ![dents[n]].hasvnode = TRUE]
  /\ UNCHANGED <<dents, waiters, locks, pc, resid, calls, nomem, panicked>>

(* semfs_sem_insert takes the first free place of the table. *)
Free == {s \in Slot : sems[s] = Null}
semfs_creat(t, n) ==
  /\ pc[t] = "idle" /\ cur[t] = 0 /\ opens < MaxOpens /\ opens' = opens + 1
  /\ dirlock = 0 /\ tablelock = 0 /\ dents[n] = 0 /\ Free # {}
  /\ \E s \in Free :
       /\ \A r \in Free : s <= r
       /\ age' = [age EXCEPT ![s] = @ + 1] /\ getvnode(t, s)
       /\ dents' = [dents EXCEPT ![n] = s]
       /\ sems' = [sems EXCEPT ![s] = [count |-> 0, hasvnode |-> TRUE, linked |-> TRUE]]
  /\ UNCHANGED <<waiters, locks, pc, resid, calls, nomem, panicked>>

(* Out of memory for the directory entry: everything is undone, and then   *)
(* result, still 0, is returned without a vnode, which vfs_open asserts it *)
(* has.                                                                    *)
CreatNoMem(t, n) ==
  /\ pc[t] = "idle" /\ cur[t] = 0 /\ dirlock = 0 /\ tablelock = 0 /\ dents[n] = 0 /\ Free # {}
  /\ nomem < MaxNoMem /\ nomem' = nomem + 1 /\ panicked' = "creat"
  /\ UNCHANGED <<dents, sems, vn_refcount, waiters, locks, pc, cur, resid, age, mine, opens, calls>>

(***************************************************************************)
(* P and V.                                                                *)
(***************************************************************************)
Least(a, b) == IF a < b THEN a ELSE b

Call(t) == pc[t] = "idle" /\ cur[t] # 0 /\ calls < MaxCalls /\ calls' = calls + 1

(* One round of semfs_read's loop, with the semaphore's lock: take what    *)
(* there is; sleep if that was not all.                                    *)
ReadRound(t, s, want) ==
  LET take == Least(want, sems[s].count)
  IN  /\ semlock[s] = 0 /\ sems' = [sems EXCEPT ![s].count = @ - take]
      /\ resid' = [resid EXCEPT ![t] = want - take]
      /\ IF take = want THEN Goto(t, "idle") /\ UNCHANGED waiters
         ELSE Goto(t, "asleep") /\ waiters' = [waiters EXCEPT ![s] = Append(@, t)]

semfs_read(t) == \E n \in Amounts :
  /\ Call(t) /\ tablelock = 0 /\ ReadRound(t, cur[t], n)
  /\ UNCHANGED <<dents, vn_refcount, locks, cur, age, mine, opens, nomem, panicked>>

ReadAgain(t) ==
  /\ pc[t] = "woken" /\ ReadRound(t, cur[t], resid[t])
  /\ UNCHANGED <<dents, vn_refcount, locks, cur, age, mine, bounds, panicked>>

(* Nobody is woken unless the count was 0; one sleeper for a count of one, *)
(* all of them for more.                                                   *)
Woken(s, new) ==
  IF sems[s].count > 0 \/ new = 0 \/ waiters[s] = <<>> THEN {}
  ELSE IF new = 1 THEN {Head(waiters[s])}
  ELSE {waiters[s][i] : i \in DOMAIN waiters[s]}
semfs_wakeup(s, woken) ==
  /\ waiters' = [waiters EXCEPT ![s] = SelectSeq(@, LAMBDA t : t \notin woken)]
  /\ pc' = [t \in Thread |-> IF t \in woken THEN "woken" ELSE pc[t]]

(* A sum that does not fit (EFBIG) changes nothing. *)
semfs_write(t) == \E n \in Amounts :
  /\ Call(t) /\ tablelock = 0 /\ semlock[cur[t]] = 0
  /\ LET new == (sems[cur[t]].count + n) % (CountMax + 1)
     IN  /\ new >= sems[cur[t]].count
         /\ semfs_wakeup(cur[t], Woken(cur[t], new))
         /\ sems' = [sems EXCEPT ![cur[t]].count = new]
  /\ UNCHANGED <<dents, vn_refcount, locks, cur, resid, age, mine, opens, nomem, panicked>>

semfs_truncate(t) == \E new \in 0 .. CountMax :
  /\ Call(t) /\ tablelock = 0 /\ semlock[cur[t]] = 0
  /\ semfs_wakeup(cur[t], Woken(cur[t], new)) /\ sems' = [sems EXCEPT ![cur[t]].count = new]
  /\ UNCHANGED <<dents, vn_refcount, locks, cur, resid, age, mine, opens, nomem, panicked>>

(***************************************************************************)
(* Closing: vnode_decref, and semfs_reclaim for the last reference.        *)
(***************************************************************************)
VopDecref(t) ==
  /\ pc[t] = "idle" /\ cur[t] # 0
  /\ IF vn_refcount[cur[t]] > 1
     THEN /\ vn_refcount' = [vn_refcount EXCEPT ![cur[t]] = @ - 1]
          /\ cur' = [cur EXCEPT ![t] = 0] /\ UNCHANGED pc
     ELSE Goto(t, "reclaim") /\ UNCHANGED <<vn_refcount, cur>>
  /\ UNCHANGED <<dents, sems, waiters, locks, resid, age, mine, bounds, panicked>>

(* Mutant: the count is not looked at again under the table lock. *)
ReclaimAtOnce(t) ==
  /\ pc[t] = "reclaim" /\ tablelock = 0
  /\ vn_refcount' = [vn_refcount EXCEPT ![cur[t]] = 0] /\ tablelock' = t
  /\ sems' = [sems EXCEPT ![cur[t]].hasvnode = FALSE]
  /\ Goto(t, "drop") /\ UNCHANGED cur
  /\ UNCHANGED <<dents, waiters, dirlock, semlock, resid, age, mine, bounds, panicked>>
(* Somebody may have got a reference in between (EBUSY). *)
semfs_reclaim(t) ==
  /\ pc[t] = "reclaim" /\ tablelock = 0
  /\ vn_refcount' = [vn_refcount EXCEPT ![cur[t]] = @ - 1]
  /\ IF vn_refcount[cur[t]] > 1
     THEN Goto(t, "idle") /\ cur' = [cur EXCEPT ![t] = 0] /\ UNCHANGED <<sems, tablelock>>
     ELSE /\ tablelock' = t /\ sems' = [sems EXCEPT ![cur[t]].hasvnode = FALSE]
          /\ Goto(t, "drop") /\ UNCHANGED cur
  /\ UNCHANGED <<dents, waiters, dirlock, semlock, resid, age, mine, bounds, panicked>>

(* The table lock still held: an unlinked semaphore is destroyed, whoever  *)
(* has its lock.                                                           *)
DropUnlinked(t) ==
  /\ pc[t] = "drop"
  /\ sems' = [sems EXCEPT ![cur[t]] = IF @.linked THEN @ ELSE Null]
  /\ tablelock' = 0 /\ Goto(t, "idle") /\ cur' = [cur EXCEPT ![t] = 0]
  /\ UNCHANGED <<dents, vn_refcount, waiters, dirlock, semlock, resid, age, mine, bounds, panicked>>

(***************************************************************************)
(* Removing a name: the directory lock, then the semaphore's lock; a       *)
(* semaphore without a vnode is destroyed.                                 *)
(***************************************************************************)
semfs_remove(t, n) ==
  /\ pc[t] = "idle" /\ cur[t] = 0 /\ opens < MaxOpens /\ opens' = opens + 1
  /\ dirlock = 0 /\ tablelock = 0 /\ dents[n] # 0 /\ semlock[dents[n]] = 0
  /\ dirlock' = t /\ semlock' = [semlock EXCEPT ![dents[n]] = t]
  /\ sems' = [sems EXCEPT ![dents[n]].linked = FALSE] /\ Goto(t, "removing")
  /\ UNCHANGED <<dents, vn_refcount, waiters, tablelock, cur, resid, age, mine, calls, nomem, panicked>>

(* sems_hasvnode is read; semfs_reclaim may have destroyed the semaphore   *)
(* by now, and with it the lock that is held here; what this then does     *)
(* with freed memory is not followed.                                      *)
RemoveRest(t, n) ==
  /\ pc[t] = "removing" /\ dents[n] # 0 /\ semlock[dents[n]] = t
  /\ panicked' = IF Sem(dents[n]) THEN "no" ELSE "freed"
  /\ IF sems[dents[n]].hasvnode THEN UNCHANGED sems
     ELSE tablelock = 0 /\ sems' = [sems EXCEPT ![dents[n]] = Null]
  /\ dents' = [dents EXCEPT ![n] = 0] /\ semlock' = [semlock EXCEPT ![dents[n]] = 0]
  /\ dirlock' = 0 /\ Goto(t, "idle")
  /\ UNCHANGED <<vn_refcount, waiters, tablelock, cur, resid, age, mine, bounds>>

Proceeds(t) == VopDecref(t) \/ semfs_reclaim(t) \/ DropUnlinked(t) \/ ReadAgain(t)
               \/ \E n \in Name : RemoveRest(t, n)
Next == panicked = "no" /\ \E t \in Thread :
  \/ Proceeds(t) \/ semfs_read(t) \/ semfs_write(t) \/ semfs_truncate(t)
  \/ \E n \in Name : semfs_lookup(t, n) \/ semfs_creat(t, n) \/ CreatNoMem(t, n)
                     \/ semfs_remove(t, n)

Spec == Init /\ [][Next]_vars

(***************************************************************************)
(* Properties.                                                             *)
(***************************************************************************)
(* A semaphore somebody has open is there, and is the one that was opened: *)
(* neither its removal nor another thread's last close makes its place in  *)
(* the table free for another.                                             *)
OpenOnesStay ==
  \A t \in Thread : cur[t] # 0 /\ pc[t] # "drop" =>
    Sem(cur[t]) /\ age[cur[t]] = mine[t] /\ vn_refcount[cur[t]] > 0

(* A semaphore neither in the directory nor open is destroyed, once the    *)
(* operation that made it so is over: sems_linked and sems_hasvnode say    *)
(* what is so, and no place in the table is lost.  This is of a system     *)
(* that is up: it goes down when semfs_creat has no memory for the         *)
(* directory entry, and when semfs_remove goes on with a semaphore whose   *)
(* last close has destroyed it in the meantime.                            *)
NoneLeftBehind ==
  panicked = "no" => \A s \in Slot :
    /\ Sem(s) /\ dirlock = 0 => sems[s].linked = (\E n \in Name : dents[n] = s)
    /\ Sem(s) /\ dirlock = 0 /\ tablelock = 0 => sems[s].linked \/ vn_refcount[s] > 0
    /\ Sem(s) => sems[s].hasvnode = (vn_refcount[s] > 0)

(* V never makes the count smaller: at the largest unsigned it is refused. *)
WriteNeverLowers(t) == semfs_write(t) => sems'[cur[t]].count > sems[cur[t]].count
CountsDoNotWrap == [][\A t \in Thread : WriteNeverLowers(t)]_vars

(* semfs_wakeup's comment: there should be sleepers only when the count is *)
(* 0.  (Those already woken are not asleep.)                               *)
SleepersOnlyAtZero ==
  \A s \in Slot : Sem(s) /\ waiters[s] # <<>> => sems[s].count = 0
                                                \/ \E t \in Thread : pc[t] = "woken" /\ cur[t] = s
=============================================================================
