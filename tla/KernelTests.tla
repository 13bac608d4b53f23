---------------------------- MODULE KernelTests -----------------------------
(***************************************************************************)
(* The kernel's tests of its threads and file systems, run from the menu:  *)
(* kern/test/synchtest.c, semunit.c, threadtest.c, tt3.c and fstest.c.     *)
(* Each thread of a test runs a program, a sequence of the calls it makes; *)
(* thread 0 is the menu's.  A call is one step: the semaphores sleep in    *)
(* order of arrival and try again when woken, as synch.c does, and the     *)
(* locks and condition variables are those of Monitor.                     *)
(*                                                                         *)
(* Loops that only print or compute are left out; clocksleep(1), the       *)
(* tests' way to let the others get where they are going, is a step that   *)
(* waits until every other thread has gone as far as it can.               *)
(***************************************************************************)
EXTENDS Integers, Sequences, FiniteSets, SequencesExt

CONSTANTS Tests,         \* the tests: a name, and which one of semunit's
          NTHREADS, NLOOPS, NCVS, NCHUNKS,
          NSTRESS,       \* the NTHREADS of the long and the create stress tests
          CountMod,      \* sem_count is an unsigned modulo this
          Blocks         \* blocks of the volume the file system tests use

VARIABLES test, prog, pc, \* what runs: the programs of the threads, and where they are
          count,     \* of the semaphores
          sleeping,  \* the threads asleep on a semaphore, cv or wait channel, in order
          holder,    \* of the locks
          owes,      \* threads to take a lock back after cv_wait
          val,       \* testval1, 2 and 3; wakerdone; waiters_running; the waker's done
          spins, intr, \* spinlocks held by thread 0, and its t_in_interrupt
          printed,
          dir, data, fd, \* the volume: names, contents by chunk; open files
          trouble,   \* the volume was full
          complaint, \* a test reported a failure
          outcome    \* "running", "asserted" (an assertion of the kernel), "failed" (one of a test)

synchVars == <<count, sleeping, holder, owes>>
localVars == <<val, spins, intr, printed>>
fileVars == <<dir, data, fd, trouble, complaint>>
vars == <<test, prog, pc, synchVars, localVars, fileVars, outcome>>

Workers == 1 .. NTHREADS
Threads == 0 .. NTHREADS
Sems == {"test", "done", "gate", "exit", "waker", "s"}
Locks == 1 .. NCVS
Cv == <<"cv1", "cv2">>
Wchan == {"wc1", "wc2"}
Channels == Sems \cup ToSet(Cv) \cup Wchan
Files == 0 .. NTHREADS * NLOOPS
Ids == 1 .. Cardinality(Files) + NTHREADS
FsTests == {"fs1", "fs2", "fs3", "fs4", "fs5", "fs6"}

Rep(n, f(_)) == FlattenSeq([i \in 1 .. n |-> f(i)])
Forks(n) == Rep(n, LAMBDA i : <<<<"fork", i>>>>)
Await(s, n) == Rep(n, LAMBDA i : <<<<"P", s>>>>)

---------------------------------------------------------------------------
(* synchtest.c. *)

(* Mutant: only one of the two counts is taken before the threads start. *)
SemtestOnce == <<<<"P", "test">>>> \o Forks(NTHREADS)
               \o Rep(NTHREADS, LAMBDA i : <<<<"V", "test">>, <<"P", "done">>>>) \o <<<<"V", "test">>>>

semtest == <<<<"P", "test">>, <<"P", "test">>>> \o Forks(NTHREADS)
           \o Rep(NTHREADS, LAMBDA i : <<<<"V", "test">>, <<"P", "done">>>>)
           \o <<<<"V", "test">>, <<"V", "test">>>>
semtestthread(num) == <<<<"P", "test">>, <<"print", num>>, <<"print", num>>, <<"V", "done">>>>

locktest == Forks(NTHREADS) \o Await("done", NTHREADS)
locktestthread(num) ==
  Rep(NLOOPS, LAMBDA i :
    <<<<"acquire", 1>>, <<"set", 1, num>>, <<"set", 2, num * num>>, <<"set", 3, num % 3>>,
      <<"values", num>>, <<"values", num>>, <<"release", 1>>>>) \o <<<<"V", "done">>>>

cvtest == <<<<"set", 1, NTHREADS - 1>>>> \o Forks(NTHREADS) \o Await("done", NTHREADS)
cvtestthread(num) ==
  Rep(NLOOPS, LAMBDA i :
    <<<<"acquire", 1>>, <<"turn", num>>, <<"print", num>>, <<"pass">>,
      <<"broadcast", 1>>, <<"release", 1>>>>) \o <<<<"V", "done">>>>

cvtest2 == <<<<"fork", 1>>, <<"fork", 2>>, <<"P", "exit">>, <<"P", "exit">>,
             <<"destroy", "exit">>, <<"destroy", "gate">>>>
sleepthread == Rep(NLOOPS * NCVS, LAMBDA i :
                 LET k == ((i - 1) % NCVS) + 1 IN
                 <<<<"acquire", k>>, <<"V", "gate">>, <<"wait", k>>, <<"release", k>>>>)
               \o <<<<"V", "exit">>>>
wakethread == Rep(NLOOPS * NCVS, LAMBDA i :
                LET k == ((i - 1) % NCVS) + 1 IN
                <<<<"P", "gate">>, <<"acquire", k>>, <<"signal", k>>, <<"release", k>>>>)
              \o <<<<"V", "exit">>>>

(* threadtest.c: loudthread and quietthread. *)
runthreads == Forks(NTHREADS) \o Await("done", NTHREADS)
loudthread(num) == <<<<"print", num>>, <<"print", num>>, <<"V", "done">>>>

(* tt3.c: the last thread is the waker, the one before it computes. *)
runtest3 == Forks(NTHREADS) \o Await("done", NTHREADS - 1)
            \o <<<<"P", "waker">>, <<"set", 4, 1>>, <<"V", "waker">>, <<"P", "done">>>>
sleepalot_thread == Rep(NLOOPS, LAMBDA i : <<<<"wchan_sleep">>>>) \o <<<<"V", "done">>>>
compute_thread == <<<<"V", "done">>>>
waker_thread == <<<<"P", "waker">>, <<"poll">>, <<"V", "waker">>, <<"break", 7>>,
                  <<"wchan_wakeall">>, <<"goto", 1>>, <<"V", "done">>>>

(* semunit.c: a semaphore s is made with a count, and looked into.  Those  *)
(* that end with tolerated are meant to run into an assertion first.       *)
makewaiter(t) == <<<<"add", 5, 1>>, <<"fork", t>>, <<"clocksleep">>>>
waiter == <<<<"P", "s">>, <<"add", 5, -1>>>>
Interrupt(on, calls) == IF on THEN <<<<"intr">>>> \o calls \o <<<<"intr">>>> ELSE calls

do_semu89(interrupthandler) ==
  <<<<"makesem", 0>>>> \o Interrupt(interrupthandler, <<<<"V", "s">>>>)
  \o <<<<"count", 1>>, <<"destroy", "s">>>>
do_semu1011(interrupthandler) ==
  <<<<"makesem", 0>>>> \o makewaiter(1) \o <<<<"running", 1>>>>
  \o Interrupt(interrupthandler, <<<<"V", "s">>>>)
  \o <<<<"clocksleep">>, <<"count", 0>>, <<"running", 0>>, <<"destroy", "s">>>>
semu1213(interrupthandler) ==
  <<<<"makesem", 0>>>> \o makewaiter(1) \o makewaiter(2) \o <<<<"running", 2>>>>
  \o Interrupt(interrupthandler, <<<<"V", "s">>>>)
  \o <<<<"clocksleep">>, <<"count", 0>>, <<"running", 1>>, <<"V", "s">>, <<"clocksleep">>,
       <<"running", 0>>, <<"destroy", "s">>>>

semunit(k) ==
  CASE k = 1  -> <<<<"makesem", 2>>, <<"count", 2>>, <<"destroy", "s">>>>
    [] k \in {2, 3, 15, 22} -> <<<<"null">>, <<"tolerated">>>>
    [] k = 4  -> <<<<"makesem", 0>>, <<"decrement">>, <<"positive">>, <<"destroy", "s">>>>
    [] k = 5  -> <<<<"makesem", CountMod - 1>>, <<"count", CountMod - 1>>, <<"destroy", "s">>>>
    [] k = 6  -> <<<<"makesem", 0>>>> \o makewaiter(1) \o <<<<"destroy", "s">>, <<"tolerated">>>>
    [] k = 7  -> <<<<"makesem", 0>>, <<"spin">>, <<"V", "s">>, <<"V", "s">>, <<"V", "s">>,
                   <<"unspin">>, <<"destroy", "s">>>>
    [] k = 8  -> do_semu89(FALSE)
    [] k = 9  -> do_semu89(TRUE)
    [] k = 10 -> do_semu1011(FALSE)
    [] k = 11 -> do_semu1011(TRUE)
    [] k = 12 -> semu1213(FALSE)
    [] k = 13 -> semu1213(TRUE)
    [] k = 14 -> <<<<"makesem", 0>>, <<"decrement">>, <<"V", "s">>, <<"tolerated">>>>
    [] k = 16 -> <<<<"makesem", 1>>, <<"spin">>, <<"P", "s">>, <<"unspin">>, <<"destroy", "s">>>>
    [] k = 17 -> <<<<"makesem", 0>>, <<"fork", 1>>, <<"clocksleep">>, <<"asleep", 1>>,
                   <<"V", "s">>, <<"clocksleep">>, <<"destroy", "s">>>>
    [] k = 18 -> <<<<"makesem", 1>>, <<"count", 1>>, <<"P", "s">>, <<"count", 0>>>>
    [] k = 19 -> <<<<"makesem", 0>>, <<"fork", 1>>, <<"count", 0>>, <<"P", "s">>, <<"count", 0>>>>
    [] k = 20 -> <<<<"makesem", 0>>, <<"intr">>, <<"P", "s">>, <<"tolerated">>>>
    [] k = 21 -> <<<<"makesem", 1>>, <<"intr">>, <<"P", "s">>, <<"tolerated">>>>
semunit_sub(k) == CASE k = 17 -> <<<<"P", "s">>>>
                    [] k = 19 -> <<<<"clocksleep">>, <<"V", "s">>>>
                    [] OTHER  -> waiter

---------------------------------------------------------------------------
(* fstest.c.  The second argument of a call on a file is where a failure   *)
(* continues: Out is the end of the thread's work.                         *)
Out == 100

fstest_write(f, stridesize, stridepos) ==
  <<<<"open", f, IF stridesize = 1 THEN "trunc" ELSE "write", Out>>>>
  \o Rep(NCHUNKS, LAMBDA i : IF (i - 1) % stridesize = stridepos THEN <<<<"write", f, i, Out>>>> ELSE <<>>)
  \o <<<<"close">>>>
fstest_read(f) ==
  <<<<"open", f, "read", Out>>>> \o Rep(NCHUNKS, LAMBDA i : <<<<"read", i, Out>>>>) \o <<<<"close">>>>
fstest_remove(f) == <<<<"remove", f, Out>>>>

dofstest == fstest_write(0, 1, 0) \o fstest_read(0) \o fstest_remove(0)
doreadstress == fstest_write(0, 1, 0) \o Forks(NTHREADS) \o Await("done", NTHREADS) \o fstest_remove(0)
readstress_thread == fstest_read(0) \o <<<<"V", "done">>>>
dowritestress == Forks(NTHREADS) \o Await("done", NTHREADS)
dostress == Forks(NSTRESS) \o Await("done", NSTRESS)
writestress_thread(num) ==
  fstest_write(num, 1, 0) \o fstest_read(num) \o fstest_remove(num) \o <<<<"V", "done">>>>
dowritestress2 == <<<<"open", 0, "trunc", Out>>, <<"close">>>> \o Forks(NTHREADS) \o Await("done", NTHREADS)
                  \o fstest_read(0) \o fstest_remove(0)
writestress2_thread(num) == fstest_write(0, NTHREADS, num - 1) \o <<<<"V", "done">>>>
longstress_thread(num) ==
  Rep(NLOOPS, LAMBDA i : LET f == (num - 1) * NLOOPS + i IN
        fstest_write(f, 1, 0) \o fstest_read(f) \o fstest_remove(f)) \o <<<<"V", "done">>>>
(* createstress goes on with the next file when one fails. *)
createstress_thread(num) ==
  LET name(i) == (num - 1) * NLOOPS + i IN
  Rep(NLOOPS, LAMBDA i : <<<<"open", name(i), "trunc", 3>>, <<"create", name(i)>>, <<"close">>>>)
  \o Rep(NLOOPS, LAMBDA i : <<<<"open", name(i), "read", 3>>, <<"read", 1, 1>>, <<"close">>>>)
  \o Rep(NLOOPS, LAMBDA i : <<<<"remove", name(i), 1>>>>) \o <<<<"V", "done">>>>

---------------------------------------------------------------------------
(* The programs of a test. *)
Main(t, k) == CASE t = "semtest" -> semtest
             [] t = "locktest" -> locktest
             [] t = "cvtest" -> cvtest
             [] t = "cvtest2" -> cvtest2
             [] t = "threadtest" -> runthreads
             [] t = "tt3" -> runtest3
             [] t = "fs1" -> dofstest
             [] t = "fs2" -> doreadstress
             [] t = "fs3" -> dowritestress
             [] t \in {"fs5", "fs6"} -> dostress
             [] t = "fs4" -> dowritestress2
             [] t = "semu" -> semunit(k)

Worker(t, k, w) == CASE t = "semtest" -> semtestthread(w)
                  [] t = "locktest" -> locktestthread(w - 1)
                  [] t = "cvtest" -> cvtestthread(w - 1)
                  [] t = "cvtest2" -> IF w = 1 THEN sleepthread ELSE wakethread
                  [] t = "threadtest" -> loudthread(w)
                  [] t = "tt3" -> IF w = NTHREADS THEN waker_thread
                                  ELSE IF w = NTHREADS - 1 THEN compute_thread ELSE sleepalot_thread
                  [] t = "fs2" -> readstress_thread
                  [] t = "fs3" -> writestress_thread(w)
                  [] t = "fs4" -> writestress2_thread(w)
                  [] t = "fs5" -> longstress_thread(w)
                  [] t = "fs6" -> createstress_thread(w)
                  [] t = "semu" -> semunit_sub(k)
                  [] OTHER -> <<>>

Programs(t) == [w \in Threads |-> IF w = 0 THEN Main(t.name, t.k) ELSE Worker(t.name, t.k, w)]

---------------------------------------------------------------------------
Asleep(t) == \E c \in Channels : \E i \in DOMAIN sleeping[c] : sleeping[c][i] = t
Started(t) == pc[t] > 0
Over(t) == pc[t] > Len(prog[t])
Call(t) == prog[t][pc[t]]
Ready(t) == outcome = "running" /\ Started(t) /\ ~Over(t) /\ ~Asleep(t)
Runs(t, op) == Call(t)[1] = op
To(t, n) == pc' = [pc EXCEPT ![t] = n]
On(t) == To(t, pc[t] + 1)
Assert_(p, else) == outcome' = (IF p THEN outcome ELSE else)

(* Mutant: a woken thread takes it that the count is still there. *)
PNoLoop(t) ==
  /\ Runs(t, "P") /\ LET s == Call(t)[2] IN
       \/ /\ count[s] = 0 /\ sleeping' = [sleeping EXCEPT ![s] = Append(@, t)] /\ On(t)
          /\ UNCHANGED <<count, outcome>>
       \/ /\ count[s] > 0 /\ count' = [count EXCEPT ![s] = @ - 1] /\ On(t) /\ UNCHANGED <<sleeping, outcome>>
  /\ UNCHANGED <<test, prog, holder, owes, localVars, fileVars>>

(* P asserts that it is not in an interrupt handler, and sleeping that no  *)
(* other spinlock is held; a woken thread looks at the count again.        *)
P(t) ==
  /\ Runs(t, "P")
  /\ LET s == Call(t)[2] IN
     IF count[s] = 0
     THEN /\ Assert_(~(t = 0 /\ (intr \/ spins)), "asserted") /\ UNCHANGED <<pc, count>>
          /\ sleeping' = [sleeping EXCEPT ![s] = Append(@, t)]
     ELSE /\ Assert_(~(t = 0 /\ intr), "asserted") /\ On(t) /\ UNCHANGED sleeping
          /\ count' = [count EXCEPT ![s] = @ - 1]
  /\ UNCHANGED <<test, prog, holder, owes, localVars, fileVars>>

(* V asserts that the count did not wrap, and wakes the first sleeper. *)
V(t) ==
  /\ Runs(t, "V") /\ On(t)
  /\ LET s == Call(t)[2] IN
     /\ count' = [count EXCEPT ![s] = (@ + 1) % CountMod]
     /\ Assert_(count'[s] > 0, "asserted")
     /\ sleeping' = [sleeping EXCEPT ![s] = IF @ = <<>> THEN @ ELSE Tail(@)]
  /\ UNCHANGED <<test, prog, holder, owes, localVars, fileVars>>

(* Destroying a semaphore with threads asleep fails wchan_destroy's        *)
(* assertion.                                                              *)
sem_destroy(t) ==
  /\ Runs(t, "destroy") /\ On(t) /\ Assert_(sleeping[Call(t)[2]] = <<>>, "asserted")
  /\ count' = [count EXCEPT ![Call(t)[2]] = -1]
  /\ UNCHANGED <<test, prog, sleeping, holder, owes, localVars, fileVars>>

Take(t, l) == holder[l] = -1 /\ holder' = [holder EXCEPT ![l] = t]

lock_acquire(t) == /\ Runs(t, "acquire") /\ Take(t, Call(t)[2]) /\ On(t)
                   /\ UNCHANGED <<test, prog, count, sleeping, owes, localVars, fileVars, outcome>>

(* Mutant: the lock stays taken. *)
ReleaseKeeps(t) == /\ Runs(t, "release") /\ On(t)
                   /\ UNCHANGED <<test, prog, count, sleeping, holder, owes, localVars, fileVars, outcome>>

lock_release(t) == /\ Runs(t, "release") /\ holder' = [holder EXCEPT ![Call(t)[2]] = -1] /\ On(t)
                   /\ UNCHANGED <<test, prog, count, sleeping, owes, localVars, fileVars, outcome>>

(* cv_wait, and the while loop of cvtestthread around it; a woken thread   *)
(* first takes the lock back.                                              *)
CvOf(t) == IF Call(t)[1] = "turn" THEN 1 ELSE Call(t)[2]

cv_wait(t) ==
  /\ Runs(t, "wait") \/ (Runs(t, "turn") /\ val[1] # Call(t)[2])
  /\ holder' = [holder EXCEPT ![CvOf(t)] = -1] /\ owes' = owes \cup {t}
  /\ sleeping' = [sleeping EXCEPT ![Cv[CvOf(t)]] = Append(@, t)]
  /\ UNCHANGED <<test, prog, pc, count, localVars, fileVars, outcome>>

(* Mutant: the condition is not looked at again after waiting. *)
WokenGoesOn(t) ==
  /\ Take(t, CvOf(t)) /\ owes' = owes \ {t} /\ On(t)
  /\ UNCHANGED <<test, prog, count, sleeping, localVars, fileVars, outcome>>

Woken(t) ==
  /\ Take(t, CvOf(t)) /\ owes' = owes \ {t}
  /\ To(t, IF Call(t)[1] = "turn" THEN pc[t] ELSE pc[t] + 1)
  /\ UNCHANGED <<test, prog, count, sleeping, localVars, fileVars, outcome>>

MyTurn(t) == /\ Runs(t, "turn") /\ val[1] = Call(t)[2] /\ On(t)
             /\ UNCHANGED <<test, prog, synchVars, localVars, fileVars, outcome>>

cv_wake(t) ==
  /\ \/ /\ Runs(t, "signal")
        /\ sleeping' = [sleeping EXCEPT ![Cv[Call(t)[2]]] = IF @ = <<>> THEN @ ELSE Tail(@)]
     \/ Runs(t, "broadcast") /\ sleeping' = [sleeping EXCEPT ![Cv[Call(t)[2]]] = <<>>]
  /\ On(t)
  /\ UNCHANGED <<test, prog, count, holder, owes, localVars, fileVars, outcome>>

(* tt3's wait channels, chosen at random. *)
wchan_sleep(t) ==
  /\ Runs(t, "wchan_sleep") /\ On(t)
  /\ \E wc \in Wchan : sleeping' = [sleeping EXCEPT ![wc] = Append(@, t)]
  /\ UNCHANGED <<test, prog, count, holder, owes, localVars, fileVars, outcome>>

wchan_wakeall(t) ==
  /\ Runs(t, "wchan_wakeall") /\ On(t)
  /\ \E wc \in Wchan : sleeping' = [sleeping EXCEPT ![wc] = <<>>]
  /\ UNCHANGED <<test, prog, count, holder, owes, localVars, fileVars, outcome>>

(* Calls that touch only the test's own variables. *)


ValuesMatch(num) == /\ val[2] = val[1] * val[1] /\ val[2] % 3 = (val[3] * val[3]) % 3
                    /\ val[3] = val[1] % 3 /\ val[1] = num /\ val[2] = num * num /\ val[3] = num % 3

Quiet(t) == \A u \in Threads \ {t} : ~Started(u) \/ Over(u) \/ Asleep(u)

local(t) ==
  LET c == Call(t)
      Set(i, x) == val' = [val EXCEPT ![i] = x] /\ UNCHANGED <<spins, intr, printed, outcome>>
      Output(x) == printed' = Append(printed, x) /\ UNCHANGED <<val, spins, intr, outcome>>
      Check(p) == Assert_(p, "failed") /\ UNCHANGED localVars
      Spin(on) == spins' = on /\ UNCHANGED <<val, intr, printed, outcome>>
  IN
  /\ \/ Runs(t, "set") /\ Set(c[2], c[3])
     \/ Runs(t, "add") /\ Set(c[2], val[c[2]] + c[3])
     \/ Runs(t, "pass") /\ Set(1, (val[1] + NTHREADS - 1) % NTHREADS)
     \/ Runs(t, "poll") /\ Set(6, val[4])
     \/ Runs(t, "print") /\ Output(c[2])
     \/ Runs(t, "values") /\ Check(ValuesMatch(c[2]))
     \/ Runs(t, "count") /\ Check(count["s"] = c[2])
     \/ Runs(t, "positive") /\ Check(count["s"] > 0)
     \/ Runs(t, "running") /\ Check(val[5] = c[2])
     \/ Runs(t, "asleep") /\ Check(Asleep(c[2]))
     \/ Runs(t, "clocksleep") /\ Quiet(t) /\ UNCHANGED <<localVars, outcome>>
     \/ Runs(t, "spin") /\ Spin(TRUE)
     \/ Runs(t, "unspin") /\ Spin(FALSE)
     \/ Runs(t, "intr") /\ intr' = ~intr /\ UNCHANGED <<val, spins, printed, outcome>>
     \/ Runs(t, "null") /\ outcome' = "asserted" /\ UNCHANGED localVars
  /\ On(t) /\ UNCHANGED <<test, prog, synchVars, fileVars>>

(* The panic of a test whose call went through though it should not have   *)
(* (it is out of reach as long as the calls assert).                       *)
Tolerated == \E t \in Threads : Started(t) /\ ~Over(t) /\ Call(t)[1] = "tolerated" /\ outcome = "running"

control(t) ==
  /\ \/ Runs(t, "break") /\ To(t, IF val[6] = 1 THEN Call(t)[2] ELSE pc[t] + 1) /\ UNCHANGED count
     \/ Runs(t, "goto") /\ To(t, Call(t)[2]) /\ UNCHANGED count
     \/ Runs(t, "fork") /\ pc' = [pc EXCEPT ![t] = @ + 1, ![Call(t)[2]] = 1] /\ UNCHANGED count
     \/ Runs(t, "makesem") /\ On(t) /\ count' = [count EXCEPT !["s"] = Call(t)[2]]
     \/ Runs(t, "decrement") /\ On(t) /\ count' = [count EXCEPT !["s"] = (@ - 1) % CountMod]
  /\ UNCHANGED <<test, prog, sleeping, holder, owes, localVars, fileVars, outcome>>

---------------------------------------------------------------------------
(* The volume: files have an inode and a block for each chunk.  One that   *)
(* has no name and is not open gives back what it had.                     *)
NoFile == [i \in 1 .. NCHUNKS |-> 0]
Live(d, f) == ({d[n] : n \in Files} \cup {f[t] : t \in Threads}) \ {0}
Used(d, f, c) == Cardinality(Live(d, f)) + Cardinality({<<x, i>> \in Live(d, f) \X (1 .. NCHUNKS) : c[x][i] # 0})
Volume(d, f, c) == dir' = d /\ fd' = f /\ data' = [x \in Ids |-> IF x \in Live(d, f) THEN c[x] ELSE NoFile]

Skip(t, by) == LET n == Len(prog[t]) IN
               To(t, IF by = Out THEN (IF t = 0 THEN n + 1 ELSE n) ELSE pc[t] + by)
Fails(t, full, by) == trouble' = (trouble \/ full) /\ complaint' = TRUE /\ Skip(t, by)
Goes(t) == On(t) /\ UNCHANGED <<trouble, complaint>>

vfs_open(t) ==
  /\ Runs(t, "open")
  /\ LET f == Call(t)[2]
         mode == Call(t)[3]
         id == IF dir[f] # 0 THEN dir[f] ELSE CHOOSE x \in Ids : x \notin Live(dir, fd) IN
     IF dir[f] = 0 /\ (mode = "read" \/ Used(dir, fd, data) = Blocks)
     THEN Volume(dir, fd, data) /\ Fails(t, mode # "read", Call(t)[4])
     ELSE /\ Volume([dir EXCEPT ![f] = id], [fd EXCEPT ![t] = id],
                    IF mode = "trunc" THEN [data EXCEPT ![id] = NoFile] ELSE data)
          /\ Goes(t)
  /\ UNCHANGED <<test, prog, synchVars, localVars, outcome>>

(* Chunk i, which holds i in the file it belongs to; a test that cannot    *)
(* write closes and removes its file.                                      *)
VOP_WRITE(t) ==
  /\ Runs(t, "write")
  /\ LET f == Call(t)[2]
         i == Call(t)[3] IN
     IF Used(dir, fd, data) < Blocks \/ data[fd[t]][i] # 0
     THEN Volume(dir, fd, [data EXCEPT ![fd[t]][i] = i]) /\ Goes(t)
     ELSE Volume([dir EXCEPT ![f] = 0], [fd EXCEPT ![t] = 0], data) /\ Fails(t, TRUE, Call(t)[4])
  /\ UNCHANGED <<test, prog, synchVars, localVars, outcome>>

(* createstress leaves the file there. *)
WriteCreated(t) ==
  /\ Runs(t, "create")
  /\ IF Used(dir, fd, data) < Blocks
     THEN Volume(dir, fd, [data EXCEPT ![fd[t]][1] = 1]) /\ Goes(t)
     ELSE Volume(dir, fd, data) /\ Fails(t, TRUE, 1)
  /\ UNCHANGED <<test, prog, synchVars, localVars, outcome>>

VOP_READ(t) ==
  /\ Runs(t, "read")
  /\ IF data[fd[t]][Call(t)[2]] = Call(t)[2] THEN Volume(dir, fd, data) /\ Goes(t)
     ELSE /\ Volume(dir, IF Call(t)[3] = Out THEN [fd EXCEPT ![t] = 0] ELSE fd, data)
          /\ Fails(t, FALSE, Call(t)[3])
  /\ UNCHANGED <<test, prog, synchVars, localVars, outcome>>

(* Mutant: a file that has no name any more is not closed. *)
CloseKeeps(t) == /\ Runs(t, "close") /\ Goes(t) /\ Volume(dir, fd, data)
                 /\ UNCHANGED <<test, prog, synchVars, localVars, outcome>>

vfs_close(t) ==
  /\ Runs(t, "close") /\ Goes(t) /\ Volume(dir, [fd EXCEPT ![t] = 0], data)
  /\ UNCHANGED <<test, prog, synchVars, localVars, outcome>>

vfs_remove(t) ==
  /\ Runs(t, "remove")
  /\ IF dir[Call(t)[2]] = 0 THEN Volume(dir, fd, data) /\ Fails(t, FALSE, Call(t)[3])
     ELSE Volume([dir EXCEPT ![Call(t)[2]] = 0], fd, data) /\ Goes(t)
  /\ UNCHANGED <<test, prog, synchVars, localVars, outcome>>

---------------------------------------------------------------------------
Init ==
  /\ test \in Tests /\ prog = Programs(test) /\ pc = [t \in Threads |-> IF t = 0 THEN 1 ELSE 0]
  /\ count = [s \in Sems |-> IF s = "test" THEN 2 ELSE IF s = "waker" THEN 1 ELSE 0]
  /\ sleeping = [c \in Channels |-> <<>>] /\ holder = [l \in Locks |-> -1] /\ owes = {}
  /\ val = [i \in 1 .. 6 |-> 0] /\ spins = FALSE /\ intr = FALSE /\ printed = <<>>
  /\ dir = [f \in Files |-> 0] /\ data = [x \in Ids |-> NoFile] /\ fd = [t \in Threads |-> 0]
  /\ trouble = FALSE /\ complaint = FALSE /\ outcome = "running"

Step(t) ==
  /\ Ready(t)
  /\ \/ t \in owes /\ Woken(t)
     \/ /\ t \notin owes
        /\ \/ P(t) \/ V(t) \/ sem_destroy(t) \/ lock_acquire(t) \/ lock_release(t)
           \/ cv_wait(t) \/ MyTurn(t) \/ cv_wake(t) \/ wchan_sleep(t) \/ wchan_wakeall(t)
           \/ local(t) \/ control(t)
           \/ vfs_open(t) \/ VOP_WRITE(t) \/ WriteCreated(t) \/ VOP_READ(t) \/ vfs_close(t)
           \/ vfs_remove(t)

Next == \E t \in Threads : Step(t)

Spec == Init /\ [][Next]_vars
Fairness == \A t \in Threads : WF_vars(Step(t))
LiveSpec == Spec /\ Fairness

---------------------------------------------------------------------------
Expected == {2, 3, 6, 14, 15, 20, 21, 22}  \* semunit's tests that should assert
Done == Over(0) \/ outcome # "running"

(* The tests of the kernel pass on the kernel: no check of theirs fails,   *)
(* in whatever order their threads run, the calls semunit makes to see an  *)
(* assertion fail do so, and no other call does.                           *)
TestsSucceed == /\ outcome # "failed" /\ ~Tolerated
                /\ outcome = "asserted" => test.name = "semu" /\ test.k \in Expected

(* "Only one of these should print at a time": the semaphore test lets one *)
(* thread at a time through.                                               *)
OnePrints == test.name = "semtest" =>
               Cardinality({t \in Workers : pc[t] \in 2 .. 4}) <= 1

(* "Threads should print out in reverse order", round after round, though  *)
(* a broadcast wakes all of them and they take the lock in any order.      *)
ReverseOrder == test.name = "cvtest" =>
                  \A i \in DOMAIN printed : printed[i] = (NTHREADS - i) % NTHREADS

(* When a test is over its semaphores are as before, so that it can be run *)
(* again, its threads have all ended, and its locks are free.              *)
LeavesAsBefore ==
  Over(0) /\ test.name # "semu" =>
    /\ count["test"] = 2 /\ count["done"] = 0 /\ count["waker"] = 1
    /\ \A t \in Workers : Started(t) => Over(t)
    /\ \A l \in Locks : holder[l] = -1

(* The file system tests complain only when the volume was full, and leave *)
(* no file open; when they do not complain, they leave no file either.     *)
FsTestsTruthful ==
  /\ complaint => trouble
  /\ Over(0) => \A t \in Threads : fd[t] = 0
  /\ Over(0) /\ ~complaint => \A f \in Files : dir[f] = 0

(* "If this hangs, it's broken": every test of threads ends, if the        *)
(* threads are scheduled, but tt3 that depends on chance.                  *)
TestsEnd == test.name # "tt3" ~> Done
=============================================================================
