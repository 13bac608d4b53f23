------------------------------- MODULE Shell --------------------------------
(***************************************************************************)
(* userland/bin/sh: the commands it runs in the foreground and in the      *)
(* background, and what it says of how they ended, on the fork, waitpid    *)
(* and _exit of the SHELL kernel, at the prompt or with -c.                *)
(*                                                                         *)
(* A line is a sequence of words; a program is known by its name and ends  *)
(* with the status of the constant Status, sooner or later.                *)
(***************************************************************************)
EXTENDS Integers, Sequences, FiniteSets, FiniteSetsExt, SequencesExt, TLC

CONSTANTS
  Status,   \* [programs -> the codes they exit with]
  Path,     \* the directories of PATH: a sequence of [programs -> "ok" or an error]
  Pids,     \* the pids that processes other than the shell can have: 2 .. n
  MAXBG,    \* background jobs
  Lines,    \* the lines that are typed, or given with -c
  MaxLines  \* how many of them

VARIABLES lines,    \* how many lines have been read
          buf,      \* the line
          bgpids,   \* [1 .. MAXBG -> a pid or 0]
          child,    \* [Pids -> [state, prog, status, bg]]
          last_pid,
          sh,       \* where the shell is: [at, pid, slot, dashc]
          ei,       \* the exitinfo of the last command
          said,     \* the pids of whose end something was said
          failed    \* an assertion has failed

vars == <<lines, buf, bgpids, child, last_pid, sh, ei, said, failed>>

Programs == DOMAIN Status
Numbers == ("2" :> 2) @@ ("3" :> 3) @@ ("4" :> 4)
Builtins == {"wait", "cd", "chdir", "exit"}
Slots == 1 .. MAXBG
NoChild == [state |-> "none", prog |-> "", status |-> 0, bg |-> FALSE]
At(at) == sh.at = at

-----------------------------------------------------------------------------
(* The kernel.                                                             *)
Free == {q \in Pids \ {last_pid} : child[q].state = "none"}
NextPid == CHOOSE q \in Free : \A r \in Free :
             (q - last_pid - 1) % (Max(Pids) + 1) <= (r - last_pid - 1) % (Max(Pids) + 1)

(* The children that have not been waited for. *)
Kids == {q \in Pids : child[q].state # "none"}

(* proc_destroy                                                            *)
Reap(q) == child' = [child EXCEPT ![q] = NoChild]

-----------------------------------------------------------------------------
(* The line that is typed at the prompt. *)
getcmd ==
  /\ At("getcmd") /\ lines < MaxLines /\ lines' = lines + 1
  /\ buf' \in Lines /\ sh' = [sh EXCEPT !.at = "docommand"]
  /\ UNCHANGED <<bgpids, child, last_pid, ei, said, failed>>

-----------------------------------------------------------------------------
(* Background jobs.                                                        *)
can_bg == \E i \in Slots : bgpids[i] = 0

remember_bg(pid) ==
  /\ bgpids' = IF can_bg THEN [bgpids EXCEPT ![Min({i \in Slots : bgpids[i] = 0})] = pid] ELSE bgpids
  /\ failed' = (failed \/ ~can_bg)

(* The eight bits that struct exitinfo has for the value.                  *)
readstatus(status) == status % 256

Finish(val) == /\ ei' = val /\ sh' = [sh EXCEPT !.at = "status"]

(* wait: for one pid, or for all the jobs, one after the other.            *)
cmd_wait ==
  /\ At("docommand") /\ buf # <<>> /\ Head(buf) = "wait"
  /\ UNCHANGED <<lines, buf, bgpids, child, last_pid, said, failed>>
  /\ \/ Len(buf) > 2 /\ Finish(1)
     \/ /\ Len(buf) <= 2 /\ UNCHANGED ei
        /\ sh' = IF Len(buf) = 1 THEN [sh EXCEPT !.at = "wait all", !.slot = 1]
                 ELSE [sh EXCEPT !.at = "wait one", !.slot = 0,
                                 !.pid = IF buf[2] \in DOMAIN Numbers THEN Numbers[buf[2]] ELSE 0]

WaitAll ==
  /\ At("wait all") /\ UNCHANGED <<lines, buf, bgpids, child, last_pid, said, failed>>
  /\ \/ sh.slot > MAXBG /\ Finish(0)
     \/ /\ sh.slot <= MAXBG /\ UNCHANGED ei
        /\ sh' = IF bgpids[sh.slot] = 0 THEN [sh EXCEPT !.slot = @ + 1]
                 ELSE [sh EXCEPT !.at = "wait one", !.pid = bgpids[sh.slot]]

(* The slots that a wait for the pid clears, and what comes next.          *)
Waited(pid) ==
  IF sh.slot = 0 THEN /\ bgpids' = [i \in Slots |-> IF bgpids[i] = pid THEN 0 ELSE bgpids[i]] /\ Finish(0)
  ELSE /\ bgpids' = [bgpids EXCEPT ![sh.slot] = 0] /\ UNCHANGED ei
       /\ sh' = [sh EXCEPT !.at = "wait all", !.slot = @ + 1]

(* dowait: waitpid fails, has the child at once, or goes to sleep and has  *)
(* it later; a signal between the look at the child and the sleep is lost. *)
dowait ==
  /\ At("wait one") /\ UNCHANGED <<lines, buf, last_pid, failed>>
  /\ \/ sh.pid \notin Kids /\ Waited(sh.pid) /\ UNCHANGED <<child, said>>
     \/ /\ sh.pid \in Kids
        /\ IF child[sh.pid].state = "zombie"
           THEN /\ Waited(sh.pid) /\ Reap(sh.pid) /\ said' = said \cup {sh.pid}
           ELSE sh' = [sh EXCEPT !.at = "waiting"] /\ UNCHANGED <<bgpids, child, ei, said>>

Sleep == /\ sh.at \in {"waiting", "fg waiting"}
         /\ sh' = [sh EXCEPT !.at = IF @ = "waiting" THEN "asleep" ELSE "fg asleep"]
         /\ UNCHANGED <<lines, buf, bgpids, child, last_pid, ei, said, failed>>

Woken == /\ At("woken") /\ UNCHANGED <<lines, buf, last_pid, failed>>
         /\ Waited(sh.pid) /\ Reap(sh.pid) /\ said' = said \cup {sh.pid}

(* waitpoll: after every line, WNOHANG for every job.  The kernel's answer *)
(* to WNOHANG is the pid and the status 0, whether or not the child has    *)
(* ended, and the child stays.                                             *)
Polled == {i \in Slots : bgpids[i] \in Kids}
waitpoll ==
  /\ At("poll") /\ UNCHANGED <<lines, child, last_pid, ei, failed>>
  /\ said' = said \cup {bgpids[i] : i \in Polled}
  /\ bgpids' = [i \in Slots |-> IF i \in Polled THEN 0 ELSE bgpids[i]]
  /\ buf' = <<>> /\ sh' = [sh EXCEPT !.at = "getcmd"]

-----------------------------------------------------------------------------
cmd_chdir == /\ At("docommand") /\ buf # <<>> /\ Head(buf) \in {"cd", "chdir"}
             /\ UNCHANGED <<lines, buf, bgpids, child, last_pid, said, failed>>
             /\ \E val \in (IF Len(buf) = 2 THEN {0, 1} ELSE {1}) : Finish(val)

cmd_exit == /\ At("docommand") /\ buf # <<>> /\ Head(buf) = "exit"
            /\ UNCHANGED <<lines, buf, bgpids, child, last_pid, said, failed>>
            /\ \/ Len(buf) <= 2 /\ sh' = [sh EXCEPT !.at = "exited"] /\ UNCHANGED ei
               \/ Len(buf) > 2 /\ Finish(1)

Background == Last(buf) = "&"

(* Too many jobs, or too many processes.                                   *)
TooMany == Background /\ ~can_bg
CannotRun == TooMany \/ Free = {}

(* Run it: fork, and wait unless it is for the background.                 *)
docommand ==
  /\ At("docommand")
  /\ buf # <<>> => Head(buf) \notin Builtins
  /\ UNCHANGED <<lines, buf>>
  /\ \/ buf = <<>> /\ Finish(0) /\ UNCHANGED <<bgpids, child, last_pid, said, failed>>
     \/ /\ buf # <<>> /\ CannotRun /\ Finish(IF TooMany THEN 1 ELSE 255)
        /\ UNCHANGED <<bgpids, child, last_pid, said, failed>>
     \/ /\ buf # <<>> /\ ~CannotRun
        /\ last_pid' = NextPid /\ said' = said \ {NextPid}
        /\ child' = [child EXCEPT ![NextPid] =
                       [state |-> "exec", prog |-> Head(buf), status |-> 0, bg |-> Background]]
        /\ IF Background THEN remember_bg(NextPid) /\ Finish(0)
           ELSE /\ sh' = [sh EXCEPT !.at = "fg", !.pid = NextPid] /\ UNCHANGED <<bgpids, ei, failed>>

(* Mutant: the status is taken without a look whether there is one.        *)
ForegroundAtOnce ==
  /\ At("fg") /\ UNCHANGED <<lines, buf, bgpids, last_pid, said, failed>>
  /\ Reap(sh.pid) /\ Finish(readstatus(child[sh.pid].status))

Foreground ==
  /\ At("fg") /\ UNCHANGED <<lines, buf, bgpids, last_pid, said, failed>>
  /\ IF child[sh.pid].state = "zombie"
     THEN Reap(sh.pid) /\ Finish(readstatus(child[sh.pid].status))
     ELSE sh' = [sh EXCEPT !.at = "fg waiting"] /\ UNCHANGED <<child, ei>>

ForegroundWoken ==
  /\ At("fg woken") /\ UNCHANGED <<lines, buf, bgpids, last_pid, said, failed>>
  /\ Reap(sh.pid) /\ Finish(readstatus(child[sh.pid].status))

(* The status is printed if it is not 0; then the prompt again, after a    *)
(* look at the jobs, or with -c the end, with 1 for anything but 0.        *)
interactive ==
  /\ At("status") /\ ~sh.dashc /\ sh' = [sh EXCEPT !.at = "poll"]
  /\ UNCHANGED <<lines, buf, bgpids, child, last_pid, ei, said, failed>>

main ==
  /\ At("status") /\ sh.dashc /\ sh' = [sh EXCEPT !.at = "exited"]
  /\ ei' = (IF ei = 0 THEN 0 ELSE 1)
  /\ UNCHANGED <<lines, buf, bgpids, child, last_pid, said, failed>>

-----------------------------------------------------------------------------
(* The children.  execvp tries the directories of PATH in turn, and goes   *)
(* on to the next only if the program is not there.                        *)
Routine == {"ENOENT", "ENOTDIR", "ENOEXEC"}
execvp(prog) ==
  LET found == {d \in DOMAIN Path : prog \in DOMAIN Path[d] /\ Path[d][prog] \notin Routine}
  IN  IF found = {} THEN "ENOENT" ELSE Path[Min(found)][prog]

(* _exit: the status, and a signal for the shell if it sleeps.             *)
Exit(q, status) ==
  /\ child' = [child EXCEPT ![q].state = "zombie", ![q].status = status]
  /\ sh' = IF sh.pid = q /\ sh.at \in {"asleep", "fg asleep"}
           THEN [sh EXCEPT !.at = IF @ = "asleep" THEN "woken" ELSE "fg woken"] ELSE sh

Child(q) ==
  /\ UNCHANGED <<lines, buf, bgpids, last_pid, ei, said, failed>>
  /\ \/ /\ child[q].state = "exec"
        /\ IF child[q].prog \in Programs /\ execvp(child[q].prog) = "ok"
           THEN child' = [child EXCEPT ![q].state = "run"] /\ UNCHANGED sh
           ELSE Exit(q, 1)
     \/ child[q].state = "run" /\ Exit(q, Status[child[q].prog])

-----------------------------------------------------------------------------
Init ==
  /\ lines = 0 /\ bgpids = [i \in Slots |-> 0] /\ child = [q \in Pids |-> NoChild] /\ last_pid = 1
  /\ ei = 0 /\ said = {} /\ failed = FALSE
  /\ \/ buf = <<>> /\ sh = [at |-> "getcmd", pid |-> 0, slot |-> 0, dashc |-> FALSE]
     \/ buf \in Lines /\ sh = [at |-> "docommand", pid |-> 0, slot |-> 0, dashc |-> TRUE]

Next ==
  \/ getcmd \/ docommand \/ cmd_wait \/ cmd_chdir \/ cmd_exit \/ WaitAll \/ dowait \/ Sleep \/ Woken
  \/ Foreground \/ ForegroundWoken \/ interactive \/ main \/ waitpoll
  \/ \E q \in Pids : Child(q)

Spec == Init /\ [][Next]_vars

-----------------------------------------------------------------------------
(* A line without "&" is over when its program is: at the prompt, and when *)
(* sh -c ends, every child there still is was started for the background.  *)
ForegroundIsOver == (At("status") \/ At("getcmd") \/ At("exited")) => \A q \in Kids : child[q].bg

(* The status of such a line is the one its own program ended with, 1 if   *)
(* it could not be run, and 255 only if there was no process for it,       *)
(* whatever other children end meanwhile.                                  *)
Runs(line) == line # <<>> /\ Head(line) \notin Builtins /\ Last(line) # "&"
StatusIsTheCommands ==
  At("status") /\ Runs(buf) =>
    \/ ei = 255 /\ Free = {}
    \/ ei = IF Head(buf) \in Programs /\ execvp(Head(buf)) = "ok"
            THEN readstatus(Status[Head(buf)]) ELSE 1

(* The jobs that are remembered are children that have not been waited     *)
(* for, so wait can have them all; and of a child that is not remembered   *)
(* any more something has been said.                                       *)
JobsAreChildren ==
  /\ \A i \in Slots : bgpids[i] # 0 => bgpids[i] \in Kids
  /\ ~failed
  /\ \A q \in Kids : child[q].bg => q \in said \/ \E i \in Slots : bgpids[i] = q

(* "without an arg it will wait for all the background jobs": when wait is *)
(* done, no program is running.                                            *)
WaitWaits == At("status") /\ buf = <<"wait">> => \A q \in Pids : child[q].state \notin {"exec", "run"}
=============================================================================
