----------------------------- MODULE MCPrograms -----------------------------
(***************************************************************************)
(* The programs, each by itself: those of testbin that the kernel can run  *)
(* (Testbin), badcall (Badcall) and the shell (Shell).  A behaviour is one *)
(* of one program; "which" says whose.                                     *)
(***************************************************************************)
EXTENDS Naturals, Sequences, FiniteSets

VARIABLES which, test, proc, last_pid, disk, sem, out, complaints, lines, buf,
          bgpids, child, sh, ei, said, failed

vars == <<which, test, proc, last_pid, disk, sem, out, complaints, lines, buf,
          bgpids, child, sh, ei, said, failed>>

TestbinSet ==
  {"forktest", "forktest_w", "bigfork", "forkbomb", "farm", "cat", "cp", "tail", "filetest",
   "sparsefile", "bigfile", "bigseek", "f_test1", "f_test2", "f_test3", "multiexec",
   "parallelvm", "usemtest", "schedpong", "rmtest", "redirect", "psort"}
BadcallOps ==
  {"execv", "waitpid", "open", "read", "write", "close", "reboot", "sbrk", "ioctl", "lseek",
   "fsync", "ftruncate", "fstat", "remove", "rename", "link", "mkdir", "rmdir", "chdir",
   "getdirentry", "symlink", "readlink", "dup2", "pipe", "time", "getcwd", "stat", "lstat"}
ShellStatus == [x \in {"true", "false"} |-> IF x = "true" THEN 0 ELSE 1]
ShellLines ==
  {<<>>, <<"true">>, <<"false">>, <<"none">>, <<"true", "&">>, <<"false", "&">>, <<"wait">>,
   <<"wait", "2">>, <<"wait", "3">>, <<"wait", "2", "3">>, <<"cd", "d">>, <<"chdir">>, <<"exit">>,
   <<"exit", "1", "2">>}
ShellPath == <<[x \in {"false"} |-> "ENOEXEC"], [x \in {"true", "false"} |-> "ok"]>>

T == INSTANCE Testbin WITH MAX_PROC <- 6, OPEN_MAX <- 9, Depth <- 2,
  Tests <- TestbinSet, Jobs <- 3, Loops <- 2
B == INSTANCE Badcall WITH MAX_PROC <- 4, OPEN_MAX <- 7, Ops <- BadcallOps
S == INSTANCE Shell WITH Status <- ShellStatus, Path <- ShellPath, Pids <- {2, 3, 4},
  MAXBG <- 2, Lines <- ShellLines, MaxLines <- 4

(* The components that are not looked at have nothing to show. *)
Unused == 0

TInit ==
  /\ which = "testbin" /\ T!Init
  /\ lines = Unused /\ buf = Unused /\ bgpids = Unused /\ child = Unused
  /\ sh = Unused /\ ei = Unused /\ said = Unused /\ failed = Unused
TNext ==
  /\ which = "testbin" /\ T!Run
  /\ UNCHANGED <<which, lines, buf, bgpids, child, sh, ei, said, failed>>

BInit ==
  /\ which = "badcall" /\ B!Init
  /\ lines = Unused /\ buf = Unused /\ bgpids = Unused /\ child = Unused
  /\ sh = Unused /\ ei = Unused /\ said = Unused /\ failed = Unused
BNext ==
  /\ which = "badcall" /\ B!Run
  /\ UNCHANGED <<which, lines, buf, bgpids, child, sh, ei, said, failed>>

SInit ==
  /\ which = "shell" /\ S!Init
  /\ test = Unused /\ proc = Unused /\ disk = Unused /\ sem = Unused /\ out = Unused
  /\ complaints = Unused
SNext ==
  /\ which = "shell" /\ S!Next
  /\ UNCHANGED <<which, test, proc, disk, sem, out, complaints>>

Init == TInit \/ BInit \/ SInit
Next == TNext \/ BNext \/ SNext

Spec == /\ Init /\ [][Next]_vars

(* On the system calls of this kernel no test program that the kernel can  *)
(* support reports a failure, prints the wrong thing, leaves a child or a  *)
(* file behind; the others fail where they must, and with all they did     *)
(* before in place; wrong calls fail with the errors expected of them.     *)
ProgramsDoTheirWork ==
  /\ which = "testbin" => /\ T!ProgramsSucceed
                          /\ T!ChildrenReaped
                          /\ T!OutputRight
                          /\ T!NothingLeftOver
  /\ which = "badcall" => /\ B!ErrorsAsExpected
                          /\ B!NothingLeftOpen

(* The shell waits for the commands it runs in the foreground and tells    *)
(* how they ended, whatever its other children do; the jobs it remembers   *)
(* are children that can be waited for, and it drops none without a word.  *)
ShellKeepsTrack ==
  /\ which = "shell" => /\ S!ForegroundIsOver
                        /\ S!StatusIsTheCommands
                        /\ S!JobsAreChildren

=============================================================================
