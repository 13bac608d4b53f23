------------------------------ MODULE Testbin -------------------------------
(***************************************************************************)
(* The programs of userland/bin and userland/testbin that fork, wait, and  *)
(* share files and semaphores, on the calls of the SHELL kernel            *)
(* (UserCalls.tla).  Messages that are only wording are left out; what is  *)
(* computed between the calls is not modelled (the matrices of bigfork and *)
(* parallelvm, the hash of hash).  The programs are given the sizes of the *)
(* constants below.                                                        *)
(***************************************************************************)
EXTENDS UserCalls

CONSTANTS
  Tests,     \* the programs to run, of those below
  Depth,     \* the forks of forktest and bigfork
  Jobs,      \* NUMJOBS, njobs, NJOBS, the members of a pong group
  Loops      \* LOOPS, PONGLOOPS, TMULT

Pid(i) == <<"pid1", "pid2", "pid3", "pid4">>[i]
Letter(i) == <<"A", "B", "C", "D">>[i]
Putchar(x) == Write(N(1), <<x>>, "no")

-----------------------------------------------------------------------------
(* Forking and waiting.                                                    *)
dowait(v, nowait) ==
  LET rest == IfChild(v, <<Exit(N(0))>>) \o
              (IF nowait THEN <<>> ELSE <<Waitpid(v, "0", "ok", "warn"), Want("status", 0, "warn")>>)
  IN  <<Skip("negative", v, Len(rest))>> \o rest

(* Mutant: the waits are in the order of the forks.                        *)
ForktestForwards(nowait) ==
  For(Depth, LAMBDA i : <<Fork(Pid(i), "warn"), Putchar(Letter(i))>>)
  \o For(Depth, LAMBDA i : dowait(V(Pid(i)), nowait)) \o <<Exit(N(0))>>

forktest(nowait) ==
  For(Depth, LAMBDA i : <<Fork(Pid(i), "warn"), Putchar(Letter(i))>>)
  \o For(Depth, LAMBDA i : dowait(V(Pid(Depth + 1 - i)), nowait)) \o <<Exit(N(0))>>

(* The number of failures goes up from the children to the first process.  *)
bigfork_dowait(v) ==
  LET child == <<Exit(V("failures"))>>
      other == <<Waitpid(v, "0", "ok", "warn"), Count("failures", "status")>>
  IN  <<Skip("negative", v, Len(child) + Len(other) + 2)>> \o IfChild(v, child) \o other
      \o <<Skip("always", N(0), 1), Count("failures", "one")>>

bigfork ==
  <<Count("failures", "zero")>>
  \o For(Depth, LAMBDA i : <<Fork(Pid(i), "warn"), Write(N(1), <<Letter(i)>>, "no")>>)
  \o For(Depth, LAMBDA i : bigfork_dowait(V(Pid(Depth + 1 - i)))) \o <<Exit(V("failures"))>>

forkbomb == <<Fork("pid", "no"), Call("getpid", "", "no"), Skip("always", N(0), -3)>>

-----------------------------------------------------------------------------
(* Programs on files.                                                      *)
cat(file) == <<Open("fd", file, "r", {}, "err")>> \o CopyAll(V("fd"), 2, N(1)) \o <<Close(V("fd"), "no"), Exit(N(0))>>
cat_stdin == CopyAll(N(0), 2, N(1)) \o <<Exit(N(0))>>

cp(from, to) ==
  <<Open("fromfd", from, "r", {}, "err"), Open("tofd", to, "w", {"creat", "trunc"}, "err")>>
  \o CopyAll(V("fromfd"), 2, V("tofd")) \o <<Close(V("fromfd"), "err"), Close(V("tofd"), "err"), Exit(N(0))>>

tail(file, where) ==
  <<Open("file", file, "r", {}, "err"), Lseek(V("file"), where, "SEEK_SET", "err")>>
  \o CopyAll(V("file"), 2, N(1)) \o <<Close(V("file"), "no"), Exit(N(0))>>

filetest ==
  <<Open("fd", "testfile", "w", {"creat", "trunc"}, "err"), Write(V("fd"), <<"t", "w">>, "err"),
    Close(V("fd"), "err"), Open("fd", "testfile", "r", {}, "err"), Read(V("fd"), 2, "err"),
    Close(V("fd"), "err"), Want("buf", <<"t", "w">>, "err"), Call("remove", "", "err"), Exit(N(0))>>

sparsefile(size) ==
  <<Open("fd", "sparse", "w", {"creat", "trunc"}, "err"), Lseek(V("fd"), size - 1, "SEEK_SET", "err"),
    Write(V("fd"), <<"nl">>, "err"), Want("rv", 1, "err"), Close(V("fd"), "no"), Exit(N(0))>>

bigfile(chunks) ==
  <<Open("fd", "big", "w", {"creat", "trunc"}, "err")>>
  \o For(chunks, LAMBDA i : <<Write(V("fd"), <<" ", Letter(i)>>, "err")>>) \o <<Close(V("fd"), "no"), Exit(N(0))>>

(* The positions up to 2^31 - 1, which the kernel's int has room for.      *)
try_seeking(pos, cursize) ==
  LET dolseek(p, whence, expected) == <<Lseek(V("fd"), p, whence, "err"), Want("rv", expected, "err")>>
  IN  dolseek(pos, "SEEK_SET", pos) \o dolseek(0, "SEEK_CUR", pos)
      \o (IF pos >= 10 THEN dolseek(-10, "SEEK_CUR", pos - 10) \o dolseek(20, "SEEK_CUR", pos + 10)
          ELSE dolseek(10, "SEEK_CUR", pos + 10))
      \o dolseek(pos, "SEEK_END", pos + cursize) \o dolseek(pos, "SEEK_SET", pos)

bigseek ==
  <<Open("fd", "bigseekfile", "rw", {"creat", "trunc"}, "err"), Write(V("fd"), <<"q", "u">>, "err")>>
  \o try_seeking(4, 2) \o <<Write(V("fd"), <<"q", "e">>, "err")>> \o try_seeking(0, 6)
  \o <<Read(V("fd"), 6, "err"), Want("buf", <<"q", "u", 0, 0, "q", "e">>, "err")>> \o try_seeking(4, 6)
  \o <<Read(V("fd"), 6, "err"), Want("buf", <<"q", "e">>, "err")>> \o try_seeking(32, 6)
  \o <<Read(V("fd"), 2, "err"), Want("rv", 0, "err"), Close(V("fd"), "no"), Call("remove", "", "no"), Exit(N(0))>>

(* Two readers and a writer of one file (f_read.c, f_write.c): a read      *)
(* gives one letter throughout.                                            *)
Sector(c) == <<c, c>>
subproc_read ==
  <<Open("fd", "f-testfile", "r", {}, "err")>>
  \o For(Loops, LAMBDA i : <<Read(V("fd"), 2, "err"), Want("rv", 2, "err"), Want("uniform", 0, "err")>>)
  \o <<Close(V("fd"), "no"), Exit(N(0))>>
subproc_write ==
  <<Open("fd", "f-testfile", "w", {}, "err")>> \o For(Loops, LAMBDA i : <<Write(V("fd"), Sector("w"), "no")>>)
  \o <<Close(V("fd"), "no"), Exit(N(0))>>
forkoff(v, func) == <<Fork(v, "warn")>> \o IfChild(V(v), func)
concur ==
  <<Open("fd", "f-testfile", "w", {"creat", "trunc"}, "err")>>
  \o For(Loops, LAMBDA i : <<Write(V("fd"), Sector("r"), "no")>>) \o <<Close(V("fd"), "no")>>
  \o forkoff("r1", subproc_read) \o forkoff("w1", subproc_write) \o forkoff("r2", subproc_read)
  \o dowait(V("r1"), FALSE) \o dowait(V("r2"), FALSE) \o dowait(V("w1"), FALSE)
  \o <<Call("remove", "", "err"), Exit(N(0))>>
big_file ==
  <<Open("fd", "largefile", "w", {"creat", "trunc"}, "err")>>
  \o For(Loops, LAMBDA i : <<Write(V("fd"), <<"A", "B">>, "no")>>)
  \o <<Close(V("fd"), "no"), Open("fd", "largefile", "r", {}, "err")>>
  \o For(Loops, LAMBDA i : <<Read(V("fd"), 2, "err"), Want("rv", 2, "err")>>)
  \o <<Want("buf", <<"A", "B">>, "err"), Close(V("fd"), "no"), Call("remove", "", "err"), Exit(N(0))>>
(* The kernel has no mkdir.                                                *)
dir_test == <<Call("mkdir", "t", "err"), Exit(N(0))>>

(* cat < redirect.in > redirect.out, in a child.                           *)
redirect_child ==
  <<Dup2(V("rfd"), 0, "err"), Dup2(V("wfd"), 1, "err"), Close(V("rfd"), "warn"), Close(V("wfd"), "warn"),
    Execv("none", cat_stdin, "warn"), Exit(N(1))>>
redirect ==
  <<Open("fd", "in", "w", {"creat", "trunc"}, "err"), Write(V("fd"), <<"C", "E">>, "err"), Close(V("fd"), "warn"),
    Open("rfd", "in", "r", {}, "err"), Open("wfd", "out", "w", {"creat", "trunc"}, "err"), Fork("pid", "err")>>
  \o IfChild(V("pid"), redirect_child)
  \o <<Close(V("rfd"), "warn"), Close(V("wfd"), "warn"), Waitpid(V("pid"), "0", "ok", "err"),
       Want("status", 0, "err"), Open("fd", "out", "r", {}, "err"), Read(V("fd"), 4, "err"),
       Want("rv", 2, "err"), Close(V("fd"), "warn"), Exit(N(0))>>

rmtest ==
  <<Open("file", "rmdata", "w", {"creat", "trunc"}, "no"), Write(V("file"), <<"I", "w">>, "no"), Close(V("file"), "no"),
    Open("file", "rmdata", "r", {}, "no"), Read(V("file"), 2, "warn"), Want("buf", <<"I", "w">>, "err"),
    Lseek(V("file"), 0, "SEEK_SET", "err"), Fork("pid", "err")>>
  \o IfChild(V("pid"), <<Close(V("file"), "no"), Call("remove", "", "err"), Exit(N(0))>>)
  \o <<Waitpid(V("pid"), "0", "ok", "err"), Want("status", 0, "warn"), Read(V("file"), 2, "warn"),
       Want("buf", <<"I", "w">>, "err"), Close(V("file"), "no"), Open("file", "rmdata", "r", {}, "no"),
       Want("rv", -1, "err"), Exit(N(0))>>

-----------------------------------------------------------------------------
(* Semaphores.  Every process opens them for itself.                       *)
Sem(i) == <<"sem:1", "sem:2", "sem:3", "sem:4">>[i]
semcreate(name) == <<Open("fd", name, "w", {"creat", "trunc"}, "err"), Close(V("fd"), "no")>>
usem_open(name) == <<Open(name, name, "rw", {}, "err")>>
usem_close(name) == <<Close(V(name), "warn")>>
Pn(name, n) == <<Read(V(name), n, "err"), Want("rv", n, "err")>>
Vn(name, n) == <<Write(V(name), [i \in 1 .. n |-> 0], "err"), Want("rv", n, "err")>>

(* Three hogs and a cat.                                                   *)
hog == <<Exit(N(0))>>
spawnv(v, prog) == <<Fork(v, "err")>> \o IfChild(V(v), <<Execv("none", prog, "err"), Exit(N(1))>>)
farm ==
  spawnv("pid1", hog) \o spawnv("pid2", hog) \o spawnv("pid3", hog) \o spawnv("pid4", cat("a"))
  \o For(4, LAMBDA i : <<Waitpid(V(Pid(i)), "0", "ok", "warn"), Want("status", 0, "warn")>>) \o <<Exit(N(0))>>

(* Start many programs at once.                                            *)
spawn(prog) ==
  semcreate("sem:1") \o semcreate("sem:2")
  \o For(Jobs, LAMBDA i : <<Fork(Pid(i), "warn")>> \o IfChild(V(Pid(i)),
       usem_open("sem:1") \o usem_open("sem:2") \o Vn("sem:1", 1) \o Pn("sem:2", 1)
       \o usem_close("sem:1") \o usem_close("sem:2") \o <<Execv("none", prog, "warn"), Exit(N(1))>>))
  \o usem_open("sem:1") \o usem_open("sem:2") \o Pn("sem:1", Jobs) \o Vn("sem:2", Jobs)
  \o For(Jobs, LAMBDA i : <<Waitpid(V(Pid(i)), "0", "ok", "warn"), Want("status", 0, "warn")>>)
  \o usem_close("sem:1") \o usem_close("sem:2") \o <<Call("remove", "", "no"), Exit(N(0))>>

(* parallelvm -w: the computations are left out.                           *)
makeprocs ==
  semcreate("sem:1") \o semcreate("sem:2")
  \o For(Jobs, LAMBDA i : <<Fork(Pid(i), "err")>> \o IfChild(V(Pid(i)),
       usem_open("sem:1") \o usem_open("sem:2") \o Vn("sem:1", 1) \o Pn("sem:2", 1)
       \o usem_close("sem:1") \o usem_close("sem:2") \o <<Putchar(Letter(i)), Exit(N(0))>>))
  \o usem_open("sem:1") \o usem_open("sem:2") \o Pn("sem:1", Jobs) \o Vn("sem:2", Jobs)
  \o <<Count("failcount", "zero")>>
  \o For(Jobs, LAMBDA i : <<Waitpid(V(Pid(i)), "0", "ok", "err"), Count("failcount", "failed")>>)
  \o <<Skip("nonzero", V("failcount"), 3)>> \o usem_close("sem:1") \o usem_close("sem:2")
  \o <<Exit(N(0)), Exit(N(1))>>

(* The children of usemtest speak in turn, when the parent says so.        *)
gosem(i) == Sem(2 * i - 1)
waitsem(i) == Sem(2 * i)

(* Mutant: the child says its word before it is told to.                   *)
ChildEarly(i) == For(Loops, LAMBDA k : <<Putchar(Letter(i))>> \o Pn(gosem(i), 1) \o Vn(waitsem(i), 1))

child_plain(i) == For(Loops, LAMBDA k : Pn(gosem(i), 1) \o <<Putchar(Letter(i))>> \o Vn(waitsem(i), 1))

baseparent ==
  For(2, LAMBDA i : usem_open(gosem(i)) \o usem_open(waitsem(i)))
  \o For(Loops, LAMBDA k : For(2, LAMBDA i : Vn(gosem(i), 1) \o Pn(waitsem(i), 1)) \o <<Putchar("nl")>>)
  \o For(2, LAMBDA i : usem_close(gosem(i)) \o usem_close(waitsem(i)))

basetest ==
  For(2, LAMBDA i : semcreate(gosem(i)) \o semcreate(waitsem(i)))
  \o For(2, LAMBDA i : <<Fork(Pid(i), "err")>> \o IfChild(V(Pid(i)),
       usem_open(gosem(i)) \o usem_open(waitsem(i)) \o child_plain(i)
       \o usem_close(gosem(i)) \o usem_close(waitsem(i)) \o <<Exit(N(0))>>))
  \o baseparent
  \o For(2, LAMBDA i : <<Waitpid(V(Pid(i)), "0", "ok", "warn"), Want("status", 0, "warn")>>)
  \o <<Call("remove", "", "no"), Exit(N(0))>>

(* schedpong: groups of processes, each with a director that waits for     *)
(* them and writes down when they were done.                               *)
waitstart == usem_open("sem:start") \o Pn("sem:start", 1) \o usem_close("sem:start")

pong_cyclic(id) ==
  For(Loops, LAMBDA i : (IF i > 1 \/ id > 1 THEN Pn(Sem(id), 1) ELSE <<>>)
                        \o <<Putchar(Letter(id))>> \o Vn(Sem((id % Jobs) + 1), 1))
  \o (IF id = 1 THEN Pn(Sem(id), 1) ELSE <<>>)

pong_reciprocating(id) ==
  LET fwd == IF id = Jobs THEN Jobs - 1 ELSE id + 1
      back == IF id = 1 THEN 2 ELSE id - 1
  IN  For(IF id \in {1, Jobs} THEN Loops ELSE 2 * Loops, LAMBDA i :
          (IF i > 1 \/ id > 1 THEN Pn(Sem(id), 1) ELSE <<>>)
          \o <<Putchar(Letter(id))>> \o Vn(Sem(IF i % 2 = 1 THEN fwd ELSE back), 1))
      \o (IF id = 1 THEN Pn(Sem(id), 1) ELSE <<>>)

pong(id) ==
  FlattenSeq([i \in 1 .. Jobs |-> usem_open(Sem(i))]) \o waitstart
  \o pong_cyclic(id) \o pong_reciprocating(id) \o pong_cyclic(id)
  \o FlattenSeq([i \in 1 .. Jobs |-> usem_close(Sem(i))])

putresult(group) ==
  <<Open("results", "results", "w", {}, "err"), Lseek(V("results"), 2 * group, "SEEK_SET", "err"),
    Write(V("results"), <<"secs">>, "err"), Write(V("results"), <<"nsecs">>, "err"), Close(V("results"), "warn")>>
getresult(group) ==
  <<Lseek(V("results"), 2 * group, "SEEK_SET", "err"), Read(V("results"), 1, "err"), Want("buf", <<"secs">>, "err"),
    Read(V("results"), 1, "err"), Want("buf", <<"nsecs">>, "err")>>

runtaskgroup(count, prep, task, group) ==
  prep \o For(count, LAMBDA i : <<Fork(Pid(i), "err")>> \o IfChild(V(Pid(i)), task[i] \o <<Exit(N(0))>>))
  \o <<Count("failures", "zero")>>
  \o For(count, LAMBDA i : <<Waitpid(V(Pid(i)), "0", "ok", "err"), Count("failures", "failed")>>)
  \o putresult(group) \o <<Skip("nonzero", V("failures"), 1), Exit(N(0)), Exit(N(1))>>

(* With no thinker and one pong group.                                     *)
runit ==
  LET forkem(v, count, prep, task, group) ==
        <<Fork(v, "err")>> \o IfChild(V(v), runtaskgroup(count, prep, task, group))
  IN  semcreate("sem:start") \o <<Open("fd", "results", "rw", {"creat", "trunc"}, "err"), Close(V("fd"), "warn")>>
      \o forkem("think", 0, <<>>, <<waitstart>>, 0)
      \o forkem("pong", Jobs, For(Jobs, LAMBDA i : semcreate(Sem(i))), [i \in 1 .. Jobs |-> pong(i)], 1)
      \o usem_open("sem:start") \o Vn("sem:start", Jobs)
      \o <<Waitpid(V("think"), "0", "ok", "err"), Want("status", 0, "err"),
           Waitpid(V("pong"), "0", "ok", "err"), Want("status", 0, "err")>>
      \o usem_close("sem:start") \o <<Open("results", "results", "r", {}, "err")>>
      \o getresult(0) \o getresult(1) \o <<Close(V("results"), "warn"), Exit(N(0))>>

(* psort, as far as it gets: its processes write their share of the keys   *)
(* (the last one what is left over, one key at a time); then it asks for   *)
(* the size of the file and sums it up.                                    *)
Keys == For(Jobs, LAMBDA i : <<Letter(i)>>) \o <<Letter(Jobs)>>
getmykeys(me) == IF me = Jobs THEN Len(Keys) - (Jobs - 1) ELSE Len(Keys) \div Jobs
genkeys_sub(me) ==
  <<Open("fd", "keys", "w", {}, "err"), Lseek(V("fd"), (me - 1) * (Len(Keys) \div Jobs), "SEEK_SET", "err")>>
  \o For(getmykeys(me), LAMBDA i : <<Write(V("fd"), <<Letter(me)>>, "err"), Want("rv", 1, "err")>>)
  \o <<Close(V("fd"), "err"), Exit(N(0))>>
getsize ==
  <<Call("stat", "file", "no"), Open("fd", "keys", "r", {}, "err"), Call("fstat", "", "err"), Close(V("fd"), "no"),
    Want("st_size", 0, "err")>>
checksum_file == <<Open("fd", "keys", "r", {}, "err"), Read(V("fd"), 3, "err"), Skip("always", N(0), -2)>>
genkeys ==
  <<Open("fd", "keys", "w", {"creat", "trunc"}, "err"), Close(V("fd"), "err")>>
  \o For(Jobs, LAMBDA i : <<Fork(Pid(i), "warn")>> \o IfChild(V(Pid(i)), genkeys_sub(i)))
  \o For(Jobs, LAMBDA i : <<Waitpid(V(Pid(i)), "0", "ok", "warn"), Want("status", 0, "err")>>)
  \o getsize \o checksum_file

-----------------------------------------------------------------------------
Programs ==
  [forktest |-> forktest(FALSE), forktest_w |-> forktest(TRUE), bigfork |-> bigfork,
   forkbomb |-> forkbomb, farm |-> farm,
   cat |-> cat("a"), cp |-> cp("a", "b"), tail |-> tail("a", 1), filetest |-> filetest,
   sparsefile |-> sparsefile(3), bigfile |-> bigfile(2), bigseek |-> bigseek, f_test1 |-> big_file,
   f_test3 |-> concur, multiexec |-> spawn(cat("a")), parallelvm |-> makeprocs,
   usemtest |-> basetest, schedpong |-> runit, rmtest |-> rmtest, redirect |-> redirect, f_test2 |-> dir_test,
   psort |-> genkeys]

Files == [x \in {"a"} |-> <<"x", "y", "z">>]

Init == \E name \in Tests : test = name /\ Loaded(Programs[name], Files)
Spec == Init /\ [][Run]_vars

-----------------------------------------------------------------------------
(* The programs whose tests the kernel does not pass: it has no mkdir, its *)
(* remove does nothing, and its fork does not copy the file table.         *)
Unsupported == {"f_test2", "rmtest", "redirect"}

(* The programs that read a file up to its end, and those that run cat:    *)
(* the read that should return 0 is EFAULT, and the program gives up.      *)
ReadsToTheEnd == {"cat", "cp", "tail", "bigseek", "farm", "multiexec", "psort"}

(* No other program complains, or ends with another status than 0, however *)
(* its processes are interleaved; and these complain of nothing but that   *)
(* read, the size that fstat does not tell, and the status of cat.         *)
ProgramsSucceed ==
  /\ test \notin Unsupported \cup ReadsToTheEnd =>
       complaints = {} /\ \A p \in Pids : proc[p].state = "zombie" => proc[p].status = 0
  /\ test \in ReadsToTheEnd => complaints \subseteq {"read", "want"}
  /\ test \in {"cat", "cp", "tail", "bigseek"} => complaints \subseteq {"read"}

(* A program that waits for its children leaves none behind, and has been  *)
(* told of each of them.                                                   *)
ChildrenReaped ==
  /\ proc[1].state = "zombie" /\ test \notin {"forktest_w"}
  => \A p \in Pids \ {1} : proc[p].state = "none"

(* What comes out, when all is done: forktest's letters double at every    *)
(* fork; the words of usemtest and the marks of a pong group come in turn; *)
(* cat and tail print the file.                                            *)
Times(x) == Cardinality({i \in DOMAIN out : out[i] = x})
Cycle == For(Loops, LAMBDA i : [id \in 1 .. Jobs |-> Letter(id)])
Turns == For(Loops, LAMBDA i : <<"A", "B", "nl">>)
OutputRight ==
  /\ test \in {"forktest", "forktest_w"} /\ AllEnded => \A i \in 1 .. Depth : Times(Letter(i)) = 2 ^ i
  /\ test = "usemtest" => IsPrefix(out, Turns)
  /\ test = "schedpong" => IsPrefix(SubSeq(out, 1, Min({Len(out), Len(Cycle)})), Cycle)
  /\ test \in {"cat", "tail"} /\ AllEnded => out = IF test = "cat" THEN Files["a"] ELSE Tail(Files["a"])

(* The semaphores are used up when the program ends, and what was written  *)
(* is in the files: nothing is left over for the next run.                 *)
NothingLeftOver ==
  AllEnded => /\ \A s \in DOMAIN sem : sem[s] = 0
              /\ test = "cp" => disk["b"] = Files["a"]
              /\ test = "psort" => disk["keys"] = Keys
              /\ test = "sparsefile" => disk["sparse"] = <<0, 0, "nl">>
              /\ test = "bigfile" => disk["big"] = <<" ", "A", " ", "B">>
              /\ test = "schedpong" => disk["results"] = <<"secs", "nsecs", "secs", "nsecs">>
              /\ test = "f_test3" => \A i \in DOMAIN disk["f-testfile"] : disk["f-testfile"][i] = "w"

(* redirect.c passes: cat in a child, with the files that the parent       *)
(* opened.                                                                 *)
RedirectWorks == test = "redirect" => complaints = {}
=============================================================================
