------------------------------ MODULE Badcall -------------------------------
(***************************************************************************)
(* The programs of testbin/badcall: every system call, called with handles *)
(* that are not open, pointers to nowhere, pids of nobody and arguments    *)
(* out of range, on the calls of the SHELL kernel (UserCalls.tla).  Each   *)
(* call must fail with the error the test expects, or be one the kernel    *)
(* does not have.                                                          *)
(***************************************************************************)
EXTENDS UserCalls

CONSTANT Ops  \* the entries of the menu to run

CLOSED_FD == OPEN_MAX - 2
IMPOSSIBLE_FD == 99
MAGIC_STATUS == 107
NONEXIST_PID == 99
Pointers == <<"NULL", "invalid", "kernel">>
For3(f(_)) == For(3, LAMBDA i : f(Pointers[i]))

-----------------------------------------------------------------------------
(* driver.c                                                                *)
open_testfile(string) ==
  <<Open("fd", "testfile", "rw", {"creat", "trunc"}, "warn")>>
  \o (IF string = <<>> THEN <<>>
      ELSE <<Write(V("fd"), string, "warn"), Lseek(V("fd"), 0, "SEEK_SET", "warn")>>)
create_testfile == open_testfile(<<>>) \o <<Close(V("fd"), "warn")>>
reopen_testfile(mode) == <<Open("fd", "testfile", mode, {"creat"}, "warn")>>
create_testlink == <<Call("symlink", "testlink", "no")>>
CloseRemove == <<Close(V("fd"), "no"), Call("remove", "testfile", "no")>>

(* A call that goes to the kernel as it is, and what may come of it.       *)
Bad1(name, arg, errors) == <<Call(name, arg, "no"), Check(errors)>>
(* What is tried only if mkdir has made the directory.                     *)
create_testdir(then) == <<Call("mkdir", "testdir", "no"), Skip("no data", N(0), Len(then))>> \o then

-----------------------------------------------------------------------------
(* common_fds.c: the handles -1, -5, one that is closed, one far too big,  *)
(* and OPEN_MAX; then one that was not opened for this.                    *)
badfd(call, fd) ==
  CASE call = "read" -> Read(fd, 2, "no")
    [] call = "write" -> Write(fd, <<"a">>, "no")
    [] call = "close" -> Close(fd, "no")
    [] call = "lseek" -> Lseek(fd, 0, "SEEK_SET", "no")
    [] call = "dup2" -> Dup2(fd, CLOSED_FD + 1, "no")
    [] OTHER -> Call(call, "fd", "no")

any_badfd(call, fd) ==
  <<badfd(call, fd), Check({"EBADF"})>> \o (IF call = "dup2" THEN <<Close(N(CLOSED_FD + 1), "no")>> ELSE <<>>)

runtest(call, rw) ==
  any_badfd(call, N(-1)) \o any_badfd(call, N(-5)) \o any_badfd(call, N(CLOSED_FD))
  \o any_badfd(call, N(IMPOSSIBLE_FD)) \o any_badfd(call, N(OPEN_MAX))
  \o (IF rw = "none" THEN <<>>
      ELSE reopen_testfile(rw) \o any_badfd(call, V("fd")) \o <<Close(V("fd"), "no")>>)

(* common_path.c: the three bad pointers for a path, with a file made      *)
(* before (mk) and removed behind (rm).                                    *)
common_badpath(call, mk, rm, path) ==
  (IF mk THEN create_testfile ELSE <<>>)
  \o <<IF call = "open" THEN Open("fd", path, "r", {}, "no") ELSE Call(call, path, "no"), Check({"EFAULT"})>>
  \o (IF mk \/ rm THEN <<Call("remove", "testfile", "no")>> ELSE <<>>)

test_path(call) == For3(LAMBDA path : common_badpath(call, FALSE, FALSE, path))
test_paths(call) == For3(LAMBDA path : common_badpath(call, FALSE, TRUE, path))
                    \o For3(LAMBDA path : common_badpath(call, TRUE, TRUE, path))

(* common_buf.c: the same for a buffer.                                    *)
test_buf(setup, op, cleanup) == For3(LAMBDA buf : setup \o <<op, Check({"EFAULT"})>> \o cleanup)

-----------------------------------------------------------------------------
(* bad_execv.c: the call is made in a child, that says how it ended.       *)
exec_common_fork(child) ==
  <<Fork("pid", "warn")>> \o IfChild(V("pid"), child \o <<Exit(N(MAGIC_STATUS))>>)
  \o <<Waitpid(V("pid"), "0", "ok", "warn"), Want("status", MAGIC_STATUS, "warn")>>

exec_bad(error, expected) == exec_common_fork(<<Execv(error, <<>>, "no"), Check(expected)>>)
test_execv ==
  For(3, LAMBDA i : exec_bad("EFAULT", {"EFAULT"})) \o exec_bad("EINVAL", {"EINVAL", "EISDIR"})
  \o For(5, LAMBDA i : exec_bad("EFAULT", {"EFAULT"}))

(* bad_waitpid.c                                                           *)
wait_badpid(pid) == <<Waitpid(N(pid), "0", "ok", "no"), Check({"ESRCH", "ECHILD"})>>

wait_forked(calls) == <<Fork("pid", "warn")>> \o IfChild(V("pid"), <<Exit(N(0))>>) \o calls
wait_again == <<Waitpid(V("pid"), "0", "ok", "no")>>

wait_nullstatus == wait_forked(<<Waitpid(V("pid"), "0", "NULL", "no"), Check({"none"})>> \o wait_again)
wait_badstatus(ptr) == wait_forked(<<Waitpid(V("pid"), "0", ptr, "no"), Check({"EFAULT"})>> \o wait_again)
wait_unaligned == wait_forked(<<Waitpid(V("pid"), "0", "unaligned", "no"), Skip("no data", N(0), 1),
                                Skip("always", N(0), 1)>> \o wait_again)
wait_badflags == wait_forked(<<Waitpid(V("pid"), "309429", "ok", "no"), Check({"EINVAL"})>> \o wait_again)

wait_self == <<Waitpid(N(1), "0", "ok", "no")>>
wait_parent ==
  <<Fork("pid", "warn")>> \o IfChild(V("pid"), <<Waitpid(N(1), "0", "ok", "no"), Exit(N(0))>>) \o wait_again

wait_siblings_child ==
  <<Open("semfd", "sem:1", "r", {}, "warn"), Read(V("semfd"), 1, "warn"), Close(V("semfd"), "no"),
    Open("fd", "testfile", "r", {}, "warn"),
    Lseek(V("fd"), 0, "SEEK_SET", "warn"), Read(V("fd"), 2, "warn"), Skip("no data", N(0), -3),
    Count("other", "other"), Close(V("fd"), "no"), Waitpid(V("other"), "0", "ok", "no")>>

wait_siblings ==
  LET child == <<Close(V("fd"), "no"), Close(V("semfd"), "no")>> \o wait_siblings_child \o <<Exit(N(0))>>
  IN  <<Open("semfd", "sem:1", "w", {"creat", "trunc"}, "warn")>> \o open_testfile(<<>>)
      \o <<Fork("pid1", "warn")>> \o IfChild(V("pid1"), child)
      \o <<Fork("pid2", "warn")>> \o IfChild(V("pid2"), child)
      \o <<Fill(<<V("pid1"), V("pid2")>>), WriteBuf(V("fd"), "warn"), Want("rv", 2, "warn"),
           Write(V("semfd"), <<" ", " ">>, "warn"),
           Waitpid(V("pid1"), "0", "ok", "warn"), Waitpid(V("pid2"), "0", "ok", "warn"),
           Close(V("fd"), "no"), Close(V("semfd"), "no"), Call("remove", "sem:1", "no"),
           Call("remove", "testfile", "no")>>

test_waitpid ==
  wait_badpid(-8) \o wait_badpid(-1) \o wait_badpid(0) \o wait_badpid(NONEXIST_PID)
  \o wait_nullstatus \o wait_badstatus("invalid") \o wait_badstatus("kernel")
  \o wait_unaligned \o wait_badflags \o wait_self \o wait_parent \o wait_siblings

-----------------------------------------------------------------------------
(* Files.                                                                  *)
test_open ==
  test_path("open")
  \o <<Open("fd", "null:", "rw", {"trunc"}, "no"), Check({"EINVAL"}),
       Open("fd", "", "r", {}, "no"), Check({"EINVAL"}), Skip("no data", N(0), 1), Close(V("fd"), "no")>>
test_read == runtest("read", "w") \o test_buf(open_testfile(<<"g", "h">>), Read(V("fd"), 2, "EFAULT"), CloseRemove)
test_write == runtest("write", "r") \o test_buf(open_testfile(<<>>), Write(V("fd"), <<"a">>, "EFAULT"), CloseRemove)
test_close == runtest("close", "none")

lseek_fd_device == <<Open("fd", "null:", "r", {}, "warn"), Lseek(V("fd"), 309, "SEEK_SET", "no"),
                     Check({"ESPIPE"}), Close(V("fd"), "no")>>
lseek_file_stdin ==
  <<Fork("pid", "warn")>>
  \o IfChild(V("pid"),
       open_testfile(<<>>)
       \o <<Dup2(V("fd"), 0, "err"), Want("rv", 0, "err"), Close(V("fd"), "no"),
            Write(N(0), <<"s", "t">>, "err"), Want("rv", 2, "err"),
            Lseek(N(0), 0, "SEEK_SET", "no"), Check({"none"}),
            Lseek(N(0), 0, "SEEK_END", "no"), Check({"none"}), Call("remove", "testfile", "no"), Exit(N(0))>>)
  \o <<Waitpid(V("pid"), "0", "ok", "warn"), Want("status", 0, "warn")>>
lseek_bad(pos, whence) ==
  open_testfile(<<>>) \o <<Lseek(V("fd"), pos, whence, "no"), Check({"EINVAL"})>> \o CloseRemove
lseek_loc_pasteof ==
  open_testfile(<<"b", "l">>)
  \o <<Lseek(V("fd"), 7, "SEEK_SET", "warn"), Want("rv", 7, "warn"),
       Lseek(V("fd"), -3, "SEEK_CUR", "warn"), Want("rv", 4, "warn"),
       Lseek(V("fd"), 0, "SEEK_END", "warn"), Want("rv", 2, "warn")>> \o CloseRemove
test_lseek == runtest("lseek", "none") \o lseek_fd_device \o lseek_file_stdin \o lseek_bad(-4, "SEEK_SET")
              \o lseek_loc_pasteof \o lseek_bad(0, "3594")

dup2_fd2(fd) == <<Dup2(N(0), fd, "no"), Check({"EBADF"}), Skip("no data", N(0), 1), Close(N(fd), "no")>>
dup2_self == <<Dup2(N(0), CLOSED_FD, "warn"), Dup2(N(CLOSED_FD), CLOSED_FD, "warn"), Want("rv", CLOSED_FD, "warn"),
               Call("fstat", "fd", "warn"), Close(N(CLOSED_FD), "no")>>
test_dup2 == runtest("dup2", "none") \o dup2_fd2(-1) \o dup2_fd2(-5) \o dup2_fd2(IMPOSSIBLE_FD)
             \o dup2_fd2(OPEN_MAX) \o dup2_self

(* The calls that keep no state, and those that the kernel does not have.  *)
test_ftruncate ==
  runtest("ftruncate", "r")
  \o <<Open("fd", "null:", "rw", {}, "warn")>> \o Bad1("ftruncate", "device", {"EINVAL"}) \o <<Close(V("fd"), "no")>>
  \o open_testfile(<<>>) \o Bad1("ftruncate", "negative", {"EINVAL"}) \o CloseRemove
test_getdirentry ==
  runtest("getdirentry", "w")
  \o test_buf(<<Open("fd", ".", "r", {}, "warn")>>, Call("getdirentry", "buf", "no"), <<Close(V("fd"), "no")>>)
test_stat(call) == test_path(call) \o Bad1(call, "empty", {"none", "EINVAL"})
                   \o test_buf(<<>>, Call(call, "buf", "no"), <<>>)
test_fstat == runtest("fstat", "none") \o test_buf(<<>>, Call("fstat", "buf", "no"), <<>>)
test_remove ==
  test_path("remove") \o create_testdir(Bad1("remove", "testdir", {"EISDIR"}) \o <<Call("rmdir", "testdir", "no")>>)
  \o For(3, LAMBDA i : Bad1("remove", <<".", "..", "empty">>[i], {"EISDIR", "EINVAL"}))
test_rename ==
  test_paths("rename") \o For(2, LAMBDA i : Bad1("rename", <<".", "..">>[i], {"EINVAL"}))
  \o Bad1("rename", "empty", {"EISDIR", "EINVAL"})
  \o create_testdir(Bad1("rename", "empty", {"EISDIR", "EINVAL"}) \o <<Call("rmdir", "testdir", "no")>>)
test_link ==
  test_paths("link") \o Bad1("link", ".", {"EINVAL"}) \o Bad1("link", "empty", {"EINVAL"})
  \o create_testdir(Bad1("link", "empty", {"EINVAL"}) \o <<Call("rmdir", "testdir", "no")>>)
test_mkdir == test_path("mkdir") \o Bad1("mkdir", ".", {"EEXIST"}) \o Bad1("mkdir", "..", {"EEXIST"})
              \o Bad1("mkdir", "empty", {"EINVAL"})
test_rmdir ==
  test_path("rmdir") \o create_testfile \o Bad1("rmdir", "testfile", {"ENOTDIR"}) \o <<Call("remove", "testfile", "no")>>
  \o Bad1("rmdir", ".", {"EINVAL"}) \o Bad1("rmdir", "..", {"EINVAL", "ENOTEMPTY"}) \o Bad1("rmdir", "empty", {"EINVAL"})
test_symlink == test_paths("symlink") \o Bad1("symlink", "empty", {"none", "EINVAL"})
                \o <<Call("remove", "testlink", "no")>> \o Bad1("symlink", "empty", {"EINVAL"})
test_readlink ==
  test_path("readlink")
  \o test_buf(create_testlink, Call("readlink", "buf", "no"), <<Call("remove", "testlink", "no")>>)
  \o open_testfile(<<"t">>) \o <<Close(V("fd"), "no")>> \o Bad1("readlink", "testfile", {"EINVAL"})
  \o <<Call("remove", "testfile", "no")>>
  \o Bad1("readlink", ".", {"EISDIR"}) \o Bad1("readlink", "empty", {"EISDIR", "EINVAL"})
test_chdir == test_path("chdir") \o Bad1("chdir", "empty", {"EINVAL", "none"})
test_pipe == For3(LAMBDA ptr : Bad1("pipe", ptr, {"EFAULT"})) \o <<Call("pipe", "unaligned", "no")>>
test_time == For(4, LAMBDA i : Bad1("__time", "pointer", {"EFAULT"}))
test_sbrk == Bad1("sbrk", "negative", {"EINVAL"}) \o Bad1("sbrk", "huge", {"ENOMEM"}) \o Bad1("sbrk", "huge negative", {"EINVAL"})
             \o For(2, LAMBDA i : Bad1("sbrk", "unaligned", {"none", "EINVAL"}))

ops ==
  [execv |-> test_execv, waitpid |-> test_waitpid, open |-> test_open, read |-> test_read,
   write |-> test_write, close |-> test_close, reboot |-> Bad1("reboot", "15353", {"EINVAL"}), sbrk |-> test_sbrk,
   ioctl |-> runtest("ioctl", "none") \o Bad1("ioctl", "12345", {"EIOCTL"}), lseek |-> test_lseek,
   fsync |-> runtest("fsync", "none"), ftruncate |-> test_ftruncate, fstat |-> test_fstat,
   remove |-> test_remove, rename |-> test_rename, link |-> test_link, mkdir |-> test_mkdir,
   rmdir |-> test_rmdir, chdir |-> test_chdir, getdirentry |-> test_getdirentry,
   symlink |-> test_symlink, readlink |-> test_readlink, dup2 |-> test_dup2, pipe |-> test_pipe,
   time |-> test_time, getcwd |-> test_buf(<<>>, Call("__getcwd", "buf", "no"), <<>>),
   stat |-> test_stat("stat"), lstat |-> test_stat("lstat")]

Files == [x \in {"."} |-> <<>>]

(* runit: one choice of the menu, and quit.                                *)
Init == \E name \in Ops : test = name /\ Loaded(ops[name] \o <<Exit(N(0))>>, Files)
Spec == Init /\ [][Run]_vars

-----------------------------------------------------------------------------
(* No test reports a failure or is aborted, whatever child runs when; but  *)
(* fstat and remove, which do nothing here and so never fail (and that     *)
(* write may not be survived at all is TestsSurvived).                     *)
ErrorsAsExpected == test \notin {"fstat", "remove"} => complaints \subseteq {"panic"}

(* A test leaves nothing for the next one: when it is over no child is     *)
(* left, and the handles are the console, as before.                       *)
NothingLeftOpen ==
  proc[1].state = "run" /\ Instr(1).op = "exit"
  => /\ \A p \in Pids \ {1} : proc[p].state = "none"
     /\ proc[1].table = std_init /\ \A s \in DOMAIN proc[1].files : proc[1].files[s].countRef = 0

(* The kernel outlives every test.                                         *)
TestsSurvived == "panic" \notin complaints
=============================================================================
