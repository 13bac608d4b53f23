----------------------------- MODULE UserCalls ------------------------------
(***************************************************************************)
(* What the programs of userland meet: processes that run programs, and    *)
(* the system calls of the SHELL kernel as the C library hands them on     *)
(* (syscall.c, file_syscalls.c, proc_syscalls.c).  A program is a sequence *)
(* of instructions, each a system call with its arguments or a test of its *)
(* result; a call is one step, but for waitpid, which looks at the child   *)
(* first and goes to sleep later.  (OpenFile, Process and Semfs have the   *)
(* steps within the calls.)  As fork does not copy the file table, an open *)
(* file belongs to one process; the model keeps it there.                  *)
(*                                                                         *)
(* A file is a sequence of data; the semaphores of sem: are counts.  A     *)
(* call that fails is handled the way the program says: it complains and   *)
(* exits (err), complains (warn), or goes on.                              *)
(***************************************************************************)
EXTENDS Integers, Sequences, FiniteSets, FiniteSetsExt, SequencesExt

CONSTANTS MAX_PROC, OPEN_MAX

VARIABLES test,     \* the program that the menu started
          proc,     \* [1 .. MAX_PROC -> a process: its program, its file table, the files it has open]
          last_pid,
          disk,     \* the files there are, with their contents
          sem,      \* the semaphores there are, with their counts
          out,      \* what has been written to the console
          complaints \* the complaints of the programs

vars == <<test, proc, last_pid, disk, sem, out, complaints>>

Pids == 1 .. MAX_PROC
Fds == 0 .. OPEN_MAX - 1
NULL == 0
(* The three console files that std_init gives every new process.         *)
Consoles == {-1, -2, -3}
Sems == {"sem:1", "sem:2", "sem:3", "sem:4", "sem:start"}

-----------------------------------------------------------------------------
(* Instructions.  A handle or a pid is in a variable of the program, or a  *)
(* number.                                                                 *)
V(name) == [name |-> name, n |-> 0]
N(n) == [name |-> "", n |-> n]

Open(to, name, mode, flags, bad) ==
  [op |-> "open", to |-> to, name |-> name, mode |-> mode, flags |-> flags, bad |-> bad]
Close(fd, bad) == [op |-> "close", to |-> "", fd |-> fd, bad |-> bad]
Read(fd, n, bad) == [op |-> "read", to |-> "", fd |-> fd, n |-> n, bad |-> bad]
Write(fd, data, bad) == [op |-> "write", to |-> "", fd |-> fd, data |-> data, bad |-> bad]
WriteBuf(fd, bad) == [op |-> "writebuf", to |-> "", fd |-> fd, bad |-> bad]
Lseek(fd, pos, whence, bad) ==
  [op |-> "lseek", to |-> "", fd |-> fd, pos |-> pos, whence |-> whence, bad |-> bad]
Dup2(fd, new, bad) == [op |-> "dup2", to |-> "", fd |-> fd, new |-> new, bad |-> bad]
Fork(to, bad) == [op |-> "fork", to |-> to, bad |-> bad]
Waitpid(pid, options, how, bad) ==
  [op |-> "waitpid", to |-> "", pid |-> pid, options |-> options, status |-> how, bad |-> bad]
Execv(error, code, bad) == [op |-> "execv", to |-> "", error |-> error, code |-> code, bad |-> bad]
Exit(x) == [op |-> "exit", x |-> x]
Call(name, arg, bad) == [op |-> "call", to |-> "", name |-> name, arg |-> arg, bad |-> bad]
(* A test of the last result, of the data read, or of a child's status.    *)
Want(what, x, bad) == [op |-> "want", what |-> what, x |-> x, bad |-> bad]
(* Set a variable to 0, to the other pid of the two in the buffer, or add  *)
(* to it 1, the status, or 1 if it failed.                                 *)
Count(to, how) == [op |-> "count", to |-> to, how |-> how]
(* Go n instructions on, or back, if ...                                   *)
Skip(when, v, n) == [op |-> "skip", when |-> when, v |-> v, n |-> n]
Check(errors) == [op |-> "check", errors |-> errors]
(* The buffer, filled with the variables.                                  *)
Fill(vs) == [op |-> "fill", vs |-> vs]

IfChild(v, body) == <<Skip("nonzero", v, Len(body))>> \o body
For(n, f(_)) == FlattenSeq([i \in 1 .. n |-> f(i)])
(* while ((len = read(fd, buf, n)) > 0) write(to, buf, len)                *)
CopyAll(fd, n, to) == <<Read(fd, n, "err"), Skip("no data", N(0), 2), WriteBuf(to, "err"),
                        Skip("always", N(0), -4)>>

-----------------------------------------------------------------------------
std_init == [f \in Fds |-> IF f < 3 THEN -1 - f ELSE NULL]
NoProc == [code |-> <<>>, pc |-> 0, state |-> "none", var |-> <<>>, table |-> std_init, rv |-> 0,
           errno |-> "none", files |-> <<>>, buf |-> <<>>, left |-> 0, seen |-> 0, status |-> 0, kids |-> {}]
Started(code) == [NoProc EXCEPT !.code = code, !.pc = 1, !.state = "run"]

Instr(p) == proc[p].code[proc[p].pc]
At(p, op) == proc[p].state = "run" /\ Instr(p).op = op
Value(p, x) == IF x.name = "" THEN x.n
               ELSE IF x.name \in DOMAIN proc[p].var THEN proc[p].var[x.name] ELSE -1

(* The call returns r, or fails with e (and r is -1).                      *)
Failed(q, i) == IF i.bad = "err" THEN [q EXCEPT !.code = <<Exit(N(1))>>, !.pc = 1] ELSE [q EXCEPT !.pc = @ + 1]
Set(var, to, r) == IF to = "" THEN var
                   ELSE [v \in DOMAIN var \cup {to} |-> IF v = to THEN r ELSE var[v]]
Returned(q, i, r, e) ==
  IF r < 0 THEN Failed([q EXCEPT !.rv = r, !.errno = e, !.var = Set(@, i.to, r)], i)
  ELSE [q EXCEPT !.rv = r, !.var = Set(@, i.to, r), !.pc = @ + 1]
Complain(i, bad) == complaints' = IF bad /\ i.bad \in {"err", "warn"} THEN complaints \cup {i.op} ELSE complaints
Return(p, q, r, e) == /\ proc' = [proc EXCEPT ![p] = Returned(q, Instr(p), r, e)]
                      /\ Complain(Instr(p), r < 0)
Answer(p, r, e) == Return(p, proc[p], r, e)

-----------------------------------------------------------------------------
(* Open files.                                                             *)
FreeSlots(q) == {s \in DOMAIN q.files : q.files[s].countRef = 0}
FreeFds(p) == {f \in Fds : f > 2 /\ proc[p].table[f] = NULL}

(* vfs_open: names are looked up, and what is not there is made if asked   *)
(* for; "" is no name, and the null device wants no flags.  (No program    *)
(* here fills a table; OpenFile has the tables at their limits.)           *)
OpenError(i) == IF i.name \in {"NULL", "invalid", "kernel"} THEN "EFAULT"
                ELSE IF i.name = "" \/ (i.name = "null:" /\ i.flags # {}) THEN "EINVAL"
                ELSE IF i.name \in DOMAIN disk \cup DOMAIN sem \cup {"null:"} \/ "creat" \in i.flags
                     THEN "none"
                ELSE "ENOENT"

Opened(q, file, fd) ==
  IF FreeSlots(q) = {}
  THEN [q EXCEPT !.files = Append(@, file), !.table[fd] = Len(q.files) + 1]
  ELSE [q EXCEPT !.files[Min(FreeSlots(q))] = file, !.table[fd] = Min(FreeSlots(q))]

sys_open(p) ==
  /\ At(p, "open") /\ UNCHANGED <<test, last_pid, out>>
  /\ LET i == Instr(p) IN
     \/ /\ OpenError(i) # "none" /\ Answer(p, -1, OpenError(i))
        /\ UNCHANGED <<disk, sem>>
     \/ /\ OpenError(i) = "none"
        /\ disk' = IF i.name \notin Sems /\ i.flags # {}
                   THEN Set(disk, i.name, IF "trunc" \in i.flags \/ i.name \notin DOMAIN disk
                                          THEN <<>> ELSE disk[i.name])
                   ELSE disk
        /\ sem' = IF i.name \in Sems \ DOMAIN sem THEN Set(sem, i.name, 0) ELSE sem
        /\ Return(p, Opened(proc[p], [name |-> i.name, mode |-> i.mode, offset |-> 0, countRef |-> 1],
                            Min(FreeFds(p))), Min(FreeFds(p)), "none")

(* EBADF: no handle, or one that was not opened for this.                  *)
ModeOf(p, x) == IF x = -1 THEN "r" ELSE IF x \in Consoles THEN "w" ELSE proc[p].files[x].mode
Bad(p, fd, mode) ==
  IF fd \notin Fds THEN TRUE
  ELSE proc[p].table[fd] # NULL => mode # "" /\ ModeOf(p, proc[p].table[fd]) \notin {mode, "rw"}

Slot(p, fd) == proc[p].table[fd]
OpenFile(p, fd) == proc[p].files[Slot(p, fd)]
NameOf(p, fd) == IF Slot(p, fd) \in Consoles THEN "con:" ELSE OpenFile(p, fd).name

Ref(q, slot, n) == IF slot \in Consoles \cup {NULL} THEN q ELSE [q EXCEPT !.files[slot].countRef = @ + n]

sys_close(p) ==
  /\ At(p, "close") /\ UNCHANGED <<test, last_pid, disk, sem, out>>
  /\ LET fd == Value(p, Instr(p).fd) IN
     IF Bad(p, fd, "") THEN Answer(p, -1, "EBADF")
     ELSE Return(p, [Ref(proc[p], Slot(p, fd), -1) EXCEPT !.table[fd] = NULL], 0, "none")

sys_dup2(p) ==
  /\ At(p, "dup2") /\ UNCHANGED <<test, last_pid, disk, sem, out>>
  /\ LET old == Value(p, Instr(p).fd)
         new == Instr(p).new
         wrong == Bad(p, old, "") \/ new \notin Fds
     IN  \/ wrong /\ Answer(p, -1, "EBADF")
         \/ ~wrong /\ old = new /\ Answer(p, new, "none")
         \/ /\ ~wrong /\ old # new
            /\ Return(p, [Ref(Ref(proc[p], Slot(p, new), -1), Slot(p, old), 1) EXCEPT !.table[new] = Slot(p, old)],
                      new, "none")

(* Reading.  A file gives what it has at the offset.  At its end that is   *)
(* nothing, and copyout of nothing is EFAULT: sys_read fails with the lock *)
(* of the open file held (the programs here exit then, and touch it no     *)
(* more).  A semaphore takes its count down, waiting until it has come to  *)
(* all that was asked for.                                                 *)
Moved(q, slot, n) == [q EXCEPT !.files[slot].offset = @ + n]

sys_read(p) ==
  /\ At(p, "read") /\ UNCHANGED <<test, last_pid, disk, out>>
  /\ LET i == Instr(p)
         fd == Value(p, i.fd)
         name == NameOf(p, fd)
         left == IF proc[p].left > 0 THEN proc[p].left ELSE i.n
         got == SubSeq(disk[name], OpenFile(p, fd).offset + 1, Min({Len(disk[name]), OpenFile(p, fd).offset + i.n}))
     IN  \/ Bad(p, fd, "r") /\ Answer(p, -1, "EBADF") /\ UNCHANGED sem
         \/ /\ ~Bad(p, fd, "r") /\ i.bad = "EFAULT" /\ Answer(p, -1, "EFAULT") /\ UNCHANGED sem
         \/ /\ ~Bad(p, fd, "r") /\ i.bad # "EFAULT" /\ name \in DOMAIN sem /\ sem[name] > 0
            /\ sem' = [sem EXCEPT ![name] = Max({0, @ - left})]
            /\ \/ left <= sem[name] /\ Return(p, [proc[p] EXCEPT !.left = 0], i.n, "none")
               \/ /\ left > sem[name] /\ proc' = [proc EXCEPT ![p].left = left - sem[name]]
                  /\ UNCHANGED complaints
         \/ /\ ~Bad(p, fd, "r") /\ i.bad # "EFAULT" /\ name \in DOMAIN disk /\ UNCHANGED sem
            /\ \/ got = <<>> /\ Answer(p, -1, "EFAULT")
               \/ /\ got # <<>>
                  /\ Return(p, Moved([proc[p] EXCEPT !.buf = got], Slot(p, fd), Len(got)), Len(got), "none")

(* Writing over what is there, with a hole of zeros if it begins behind    *)
(* the end.  (copyin of nothing is EFAULT.)                                *)
Over(s, off, data) ==
  [k \in 1 .. Max({Len(s), off + Len(data)}) |->
     IF k > off /\ k <= off + Len(data) THEN data[k - off] ELSE IF k <= Len(s) THEN s[k] ELSE 0]

(* The handle OPEN_MAX passes sys_write's test, and the word behind the    *)
(* table, the last of struct proc, is taken for an open file: it is 0, or  *)
(* what is left there of an earlier use of the memory, and then the kernel *)
(* faults.                                                                 *)
sys_write(p) ==
  /\ At(p, "write") \/ At(p, "writebuf")
  /\ UNCHANGED <<test, last_pid>>
  /\ LET i == Instr(p)
         fd == Value(p, i.fd)
         name == NameOf(p, fd)
         data == IF i.op = "write" THEN i.data ELSE proc[p].buf
     IN  \/ /\ fd = OPEN_MAX /\ complaints' = complaints \cup {"panic"}
            /\ UNCHANGED <<proc, disk, sem, out>>
         \/ /\ Bad(p, fd, "w") \/ i.bad = "EFAULT" \/ data = <<>>
            /\ Answer(p, -1, IF Bad(p, fd, "w") THEN "EBADF" ELSE "EFAULT") /\ UNCHANGED <<disk, sem, out>>
         \/ /\ ~(Bad(p, fd, "w") \/ i.bad = "EFAULT" \/ data = <<>>)
            /\ sem' = IF name \in DOMAIN sem THEN [sem EXCEPT ![name] = @ + Len(data)] ELSE sem
            /\ out' = IF name = "con:" THEN out \o data ELSE out
            /\ disk' = IF name \in DOMAIN disk
                       THEN [disk EXCEPT ![name] = Over(@, OpenFile(p, fd).offset, data)] ELSE disk
            /\ Return(p, IF name \in DOMAIN disk THEN Moved(proc[p], Slot(p, fd), Len(data)) ELSE proc[p],
                      Len(data), "none")

(* Only files on a disk can be seeked.                                     *)
SeekTo(p, fd, i) ==
  IF i.whence = "SEEK_SET" THEN i.pos
  ELSE IF i.whence = "SEEK_CUR" THEN OpenFile(p, fd).offset + i.pos
  ELSE Len(disk[NameOf(p, fd)]) + i.pos

sys_lseek(p) ==
  /\ At(p, "lseek") /\ UNCHANGED <<test, last_pid, disk, sem, out>>
  /\ LET i == Instr(p)
         fd == Value(p, i.fd)
         error == IF Bad(p, fd, "") THEN "EBADF"
                  ELSE IF NameOf(p, fd) \notin DOMAIN disk THEN "ESPIPE"
                  ELSE IF i.whence \notin {"SEEK_SET", "SEEK_CUR", "SEEK_END"} THEN "EINVAL"
                  ELSE IF SeekTo(p, fd, i) < 0 THEN "EINVAL" ELSE "none"
     IN  \/ error # "none" /\ Answer(p, -1, error)
         \/ /\ error = "none"
            /\ Return(p, [proc[p] EXCEPT !.files[Slot(p, fd)].offset = SeekTo(p, fd, i)], SeekTo(p, fd, i), "none")

-----------------------------------------------------------------------------
(* Processes.  The search for a pid goes around from last_pid + 1, and     *)
(* never takes last_pid itself.                                            *)
FreePids == {q \in Pids \ {last_pid} : proc[q].state = "none"}
NextPid == CHOOSE q \in FreePids :
             \A r \in FreePids : (q - last_pid - 1) % MAX_PROC <= (r - last_pid - 1) % MAX_PROC

(* The child: a copy of the parent, where fork returns 0; its handles are  *)
(* those that proc_create_runprogram opens, on the console.                *)
Child(q, i) == [Returned(q, i, 0, "none") EXCEPT !.kids = {}, !.table = std_init, !.files = <<>>]

sys_fork(p) ==
  /\ At(p, "fork") /\ UNCHANGED <<test, disk, sem, out>>
  /\ \/ FreePids = {} /\ Answer(p, -1, "ENPROC") /\ UNCHANGED last_pid
     \/ /\ FreePids # {} /\ last_pid' = NextPid /\ UNCHANGED complaints
        /\ proc' = [proc EXCEPT ![NextPid] = Child(proc[p], Instr(p)),
                                ![p] = [Returned(@, Instr(p), NextPid, "none") EXCEPT !.kids = @ \cup {NextPid}]]

(* waitpid: the answers it has at once.                                    *)
WaitError(p, i) ==
  IF Value(p, i.pid) = p THEN "ECHILD"
  ELSE IF i.status = "NULL" THEN "none"
  ELSE IF i.status \in {"invalid", "kernel", "unaligned"} THEN "EFAULT"
  ELSE IF Value(p, i.pid) \notin proc[p].kids THEN "ECHILD"
  ELSE IF i.options \notin {"0", "WNOHANG"} THEN "EINVAL"
  ELSE "none"

(* Mutant: the status is given, but the child stays.                       *)
ReapedNot(p, q) == [proc EXCEPT ![p] = Returned([@ EXCEPT !.kids = @ \ {q}, !.seen = proc[q].status, !.state = "run"],
                                                Instr(p), q, "none")]

(* The status is given, and proc_destroy takes the child away.             *)
Reaped(p, q) == [proc EXCEPT ![q] = NoProc,
                   ![p] = Returned([@ EXCEPT !.kids = @ \ {q}, !.seen = proc[q].status, !.state = "run"],
                                   Instr(p), q, "none")]

sys_waitpid(p) ==
  /\ At(p, "waitpid") /\ UNCHANGED <<test, last_pid, disk, sem, out>>
  /\ LET i == Instr(p)
         q == Value(p, i.pid)
     IN  \/ WaitError(p, i) # "none" /\ Answer(p, -1, WaitError(p, i))
         \/ /\ WaitError(p, i) = "none" /\ (i.status = "NULL" \/ i.options = "WNOHANG")
            /\ Return(p, [proc[p] EXCEPT !.seen = IF i.status = "NULL" THEN @ ELSE 0], q, "none")
         \/ /\ WaitError(p, i) = "none" /\ i.status # "NULL" /\ i.options # "WNOHANG"
            /\ proc' = IF proc[q].state = "zombie" THEN Reaped(p, q) ELSE [proc EXCEPT ![p].state = "waiting"]
            /\ UNCHANGED complaints

(* cv_wait, once; a signal that came before is lost.                       *)
WaitSleep(p) == /\ proc[p].state = "waiting" /\ proc' = [proc EXCEPT ![p].state = "asleep"]
                /\ UNCHANGED <<test, last_pid, disk, sem, out, complaints>>
WaitDone(p) == /\ proc[p].state = "woken" /\ proc' = Reaped(p, Value(p, Instr(p).pid))
               /\ UNCHANGED <<test, last_pid, disk, sem, out, complaints>>

(* The status is set and whoever waits is woken.  (The open files stay     *)
(* open, and nobody has a handle for them any more.)                       *)
sys__exit(p) ==
  /\ At(p, "exit") /\ UNCHANGED <<test, last_pid, disk, sem, out, complaints>>
  /\ proc' = [q \in Pids |->
       IF q = p THEN [proc[p] EXCEPT !.state = "zombie", !.status = Value(p, Instr(p).x), !.code = <<>>,
                                     !.var = <<>>, !.buf = <<>>, !.pc = 0, !.rv = 0,
                                     !.files = <<>>, !.table = std_init]
       ELSE IF proc[q].state = "asleep" /\ Value(q, Instr(q).pid) = p THEN [proc[q] EXCEPT !.state = "woken"]
       ELSE proc[q]]

(* execv: another program in the same process, with the same handles.      *)
sys_execv(p) ==
  /\ At(p, "execv") /\ UNCHANGED <<test, last_pid, disk, sem, out>>
  /\ IF Instr(p).error # "none" THEN Answer(p, -1, Instr(p).error)
     ELSE /\ proc' = [proc EXCEPT ![p] = [@ EXCEPT !.code = Instr(p).code, !.pc = 1, !.var = <<>>]]
          /\ UNCHANGED complaints

(* The calls that need no state here: remove and fstat do nothing and      *)
(* succeed; a call that the kernel does not have is ENOSYS.                *)
OtherError(i) ==
  IF i.name \in {"remove", "fstat", "getpid"} \/ i.arg = "" THEN "none"
  ELSE IF i.name = "reboot" THEN "EINVAL"
  ELSE IF i.name \in {"chdir", "__getcwd", "__time"} THEN (IF i.arg = "empty" THEN "EINVAL" ELSE "EFAULT")
  ELSE "ENOSYS"

syscall(p) ==
  /\ At(p, "call") /\ UNCHANGED <<test, last_pid, disk, sem, out>>
  /\ Answer(p, IF OtherError(Instr(p)) = "none" THEN 0 ELSE -1, OtherError(Instr(p)))

-----------------------------------------------------------------------------
(* What the program does with the results.                                 *)
Holds(p, i) == IF i.what = "rv" THEN proc[p].rv = i.x
               ELSE IF i.what = "status" THEN proc[p].seen = i.x
               ELSE IF i.what = "uniform" THEN Cardinality(ToSet(proc[p].buf)) = 1
               ELSE proc[p].buf = i.x

(* What fstat was to fill in and did not may be anything.                  *)
Test(p) ==
  /\ At(p, "want") /\ UNCHANGED <<test, last_pid, disk, sem, out>>
  /\ \E right \in IF Instr(p).what = "st_size" THEN BOOLEAN ELSE {Holds(p, Instr(p))} :
       /\ proc' = [proc EXCEPT ![p] = IF right THEN [@ EXCEPT !.pc = @ + 1] ELSE Failed(@, Instr(p))]
       /\ Complain(Instr(p), ~right)

Jump(p) ==
  /\ At(p, "skip") /\ UNCHANGED <<test, last_pid, disk, sem, out, complaints>>
  /\ LET i == Instr(p)
         x == Value(p, i.v)
     IN  proc' = [proc EXCEPT ![p].pc =
           IF \/ i.when = "always" \/ (i.when = "nonzero" /\ x # 0) \/ (i.when = "negative" /\ x < 0)
              \/ (i.when = "no data" /\ proc[p].rv <= 0)
           THEN @ + 1 + i.n ELSE @ + 1]

Increment(p, how) == IF how = "one" THEN 1
                     ELSE IF how = "status" THEN proc[p].seen
                     ELSE IF proc[p].rv < 0 \/ proc[p].seen # 0 THEN 1 ELSE 0

Tally(p) ==
  /\ At(p, "count") /\ UNCHANGED <<test, last_pid, disk, sem, out, complaints>>
  /\ LET i == Instr(p) IN
     proc' = [proc EXCEPT ![p].pc = @ + 1,
                ![p].var = Set(@, i.to, IF i.how = "zero" THEN 0
                                      ELSE IF i.how = "other" THEN CHOOSE q \in ToSet(proc[p].buf) : q # p
                                      ELSE @[i.to] + Increment(p, i.how))]

Filled(p) ==
  /\ At(p, "fill") /\ UNCHANGED <<test, last_pid, disk, sem, out, complaints>>
  /\ proc' = [proc EXCEPT ![p].pc = @ + 1, ![p].buf = [i \in DOMAIN Instr(p).vs |-> Value(p, Instr(p).vs[i])]]

(* report_check: the error is one of those expected, or the call is not    *)
(* implemented and the test is skipped.                                    *)
report_check(p) ==
  /\ At(p, "check") /\ UNCHANGED <<test, last_pid, disk, sem, out>>
  /\ proc' = [proc EXCEPT ![p].pc = @ + 1]
  /\ complaints' = IF (IF proc[p].rv < 0 THEN proc[p].errno ELSE "none") \in Instr(p).errors \cup {"ENOSYS"}
                   THEN complaints ELSE complaints \cup {"FAILURE"}

Steps(p) ==
  \/ sys_open(p) \/ sys_close(p) \/ sys_read(p) \/ sys_write(p) \/ sys_lseek(p) \/ sys_dup2(p)
  \/ sys_fork(p) \/ sys_waitpid(p) \/ WaitSleep(p) \/ WaitDone(p) \/ sys__exit(p) \/ sys_execv(p)
  \/ syscall(p) \/ Test(p) \/ Jump(p) \/ Tally(p) \/ Filled(p) \/ report_check(p)

(* A step that no other process can see, or change the outcome of, goes    *)
(* first: it makes no difference when it is taken.                         *)
Alone(p) ==
  /\ proc[p].state = "run"
  /\ \/ Instr(p).op \in {"want", "skip", "count", "fill", "check", "call", "close", "dup2", "lseek", "execv"}
     \/ Instr(p).op = "open" /\ Instr(p).flags = {} /\ Instr(p).name \in DOMAIN disk \cup DOMAIN sem

Run == /\ "panic" \notin complaints
       /\ IF \E p \in Pids : Alone(p) THEN Steps(Min({p \in Pids : Alone(p)})) ELSE \E p \in Pids : Steps(p)

(* The menu starts the program, in the first process.                      *)
Loaded(code, files) ==
  /\ proc = [p \in Pids |-> IF p = 1 THEN Started(code) ELSE NoProc]
  /\ last_pid = 1 /\ disk = files /\ sem = <<>>
  /\ out = <<>> /\ complaints = {}

AllEnded == \A p \in Pids : proc[p].state \in {"none", "zombie"}
=============================================================================
