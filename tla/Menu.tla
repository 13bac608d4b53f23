-------------------------------- MODULE Menu --------------------------------
(***************************************************************************)
(* The kernel's life on its first thread: boot (main.c), the command menu  *)
(* (menu.c) on the lines kgets.c returns, their tokenizer (strtok_r.c),    *)
(* the programs it starts (runprogram.c), and the shutdown.                *)
(*                                                                         *)
(* A line is a buffer of words and separators that ends with NUL; strtok_r *)
(* cuts it up in place, and the arguments of a command are positions in    *)
(* it.  How a line is typed and erased is left out.  Of the volumes it     *)
(* matters who refers to them: the menu's current directory, the boot file *)
(* system, the program's current directory, or open files and the other    *)
(* processes the program has forked.                                       *)
(***************************************************************************)
EXTENDS Integers, Sequences, FiniteSets, SequencesExt, FiniteSetsExt, TLC

CONSTANTS Lines,     \* what may be typed in
          MaxLen,    \* the size of the menu's buffer (64)
          MAXMENUARGS,
          ArgLines,  \* the lines the bootloader may pass
          Volume,    \* the disks with a file system
          MaxLines   \* bound on the lines typed

VARIABLES phase, todo,        \* what the first thread is doing, and its next steps
          booted,             \* what has been initialized
          buf, lines,         \* the line, and how many were typed
          isargs, context,    \* menu_execute: is it the kernel's line, and where it goes on
          args,               \* cmd_dispatch: where the words are
          typed, ran,         \* the line as it was, and the commands run of it
          shown,              \* the commands the last help menu named
          mounted, bootfs, cwd, \* volumes; cwd of the menu
          unsynced,           \* volumes that could not be synced in the shutdown
          child,              \* the program: [st, name, cwd, at (where its name is), want]
          refs                \* volumes of open files and of the program's own children

vars == <<phase, todo, booted, buf, lines, isargs, context, args, typed, ran, shown, mounted,
          bootfs, cwd, unsynced, child, refs>>
parser == <<isargs, context, typed>>
volumes == <<mounted, bootfs, cwd, unsynced>>
programs == <<child, refs>>

NUL == "NUL"
None == "none"
NULL == 0 - 1
NoChild == [st |-> None, name |-> <<>>, cwd |-> None, at |-> NULL, want |-> <<>>]


(***************************************************************************)
(* Boot.                                                                   *)
(***************************************************************************)
boot == <<"ram", "proc", "thread", "hardclock", "vfs", "mainbus", "pseudo", "vm", "kprintf",
          "cpus", "bootfs">>

(* What each step uses: kmalloc, the kernel's process, the current thread, *)
(* lbolt, the list of devices; and kprintf_bootstrap "must be called       *)
(* before ... enabling a second CPU".                                      *)
Uses ==
  [ram |-> {}, proc |-> {"ram"}, thread |-> {"ram", "proc"}, hardclock |-> {"ram"},
   vfs |-> {"ram", "thread"}, mainbus |-> {"thread", "hardclock", "vfs"},
   pseudo |-> {"vfs", "thread"}, vm |-> {"ram"}, kprintf |-> {"ram"},
   cpus |-> {"mainbus", "thread", "kprintf"}, bootfs |-> {"vfs", "thread"}]

Line(s, n) == [i \in 0 .. n - 1 |-> IF i < Len(s) THEN s[i + 1] ELSE NUL]
StringAt(b, i) == LET end == Min({j \in DOMAIN b : j >= i /\ b[j] = NUL} \cup {Cardinality(DOMAIN b)})
                  IN  [k \in 1 .. end - i |-> b[i + k - 1]]

Init ==
  /\ phase = "boot" /\ todo = boot /\ booted = {}
  /\ \E l \in ArgLines : buf = Line(l, Len(l) + 1) /\ typed = l
  /\ lines = 0 /\ isargs = TRUE /\ context = 0 /\ args = <<>> /\ ran = <<>> /\ shown = {}
  /\ mounted = {} /\ bootfs = None /\ cwd = None /\ unsynced = {} /\ child = NoChild
  /\ refs = {}

BootStep ==
  /\ phase = "boot" /\ booted' = booted \cup {Head(todo)} /\ todo' = Tail(todo)
  /\ phase' = (IF Len(todo) = 1 THEN "execute" ELSE phase)
  /\ UNCHANGED <<buf, lines, parser, args, ran, shown, volumes, programs>>

(* The prompt, and the line kgets returns for it: one that fits the buffer *)
(* with its NUL, empty after ^C.                                           *)
menu ==
  /\ phase = "prompt" /\ lines < MaxLines /\ lines' = lines + 1
  /\ \E l \in Lines : Len(l) < MaxLen /\ buf' = Line(l, MaxLen) /\ typed' = l
  /\ phase' = "execute" /\ isargs' = FALSE /\ context' = 0 /\ ran' = <<>>
  /\ UNCHANGED <<todo, booted, args, shown, volumes, programs>>

(***************************************************************************)
(* strtok_r, on a buffer it writes NULs into: the word's position, or NULL *)
(* when there is none, and the context for the next call.                  *)
(***************************************************************************)
strtok_r(b, ctx, seps) ==
  IF ctx = NULL THEN [buf |-> b, context |-> NULL, word |-> NULL]
  ELSE LET head == Min({i \in DOMAIN b : i >= ctx /\ b[i] \notin seps})
           tail == Min({i \in DOMAIN b : i >= head /\ (b[i] = NUL \/ b[i] \in seps)})
       IN  IF b[head] = NUL THEN [buf |-> b, context |-> NULL, word |-> NULL]
           ELSE [buf |-> [b EXCEPT ![tail] = NUL],
                 context |-> IF b[tail] = NUL THEN NULL ELSE tail + 1, word |-> head]

RECURSIVE Words(_, _, _)
Words(b, ctx, found) ==
  LET t == strtok_r(b, ctx, {" "})
  IN  IF t.word = NULL THEN [buf |-> t.buf, args |-> found, result |-> "OK"]
      ELSE IF Len(found) >= MAXMENUARGS THEN [buf |-> t.buf, args |-> found, result |-> "E2BIG"]
      ELSE Words(t.buf, t.context, Append(found, t.word))

(* A command has ended: the next, or, if it was one of the kernel's line,  *)
(* a panic when it failed.                                                 *)
Result(err) == phase' = IF err # "OK" /\ isargs THEN "panic" ELSE "execute"

(* menu_execute takes the next command, and cmd_dispatch its words. *)
cmdtable ==
  [x \in {"?", "h", "help"} |-> "mainmenu"] @@ ("?o" :> "opsmenu") @@ ("?t" :> "testmenu")
  @@ ("s" :> "shell") @@ ("p" :> "prog") @@ ("mount" :> "mount") @@ ("unmount" :> "unmount")
  @@ ("bootfs" :> "bootfs") @@ ("cd" :> "chdir") @@ ("panic" :> "panic")
  @@ ("deadlock" :> "deadlock") @@ [x \in {"q", "exit", "halt"} |-> "quit"]
  @@ [x \in {"pf", "pwd", "sync", "debug", "kh", "khgen", "khdump"} |-> "other"]
  @@ [x \in {"at", "at2", "bt", "tlt", "km1", "km2", "km3", "km4", "tt1", "tt2", "tt3",
             "sy1", "sy2", "sy3", "sy4", "semu1", "fs1", "fs2", "fs3", "fs4", "fs5",
             "fs6"} |-> "other"]

Handler(a) == IF Len(StringAt(buf, a[1])) = 1 /\ buf[a[1]] \in DOMAIN cmdtable
              THEN cmdtable[buf[a[1]]] ELSE "unknown"

cmd_dispatch(b, cmd) ==
  LET w == Words(b, cmd, <<>>)
      words == [i \in DOMAIN w.args |-> StringAt(w.buf, w.args[i])]
  IN  /\ buf' = w.buf
      /\ \/ /\ w.result = "OK" /\ w.args = <<>> /\ Result("OK") /\ UNCHANGED <<args, ran>>
         \/ /\ w.result = "OK" /\ w.args # <<>>
            /\ phase' = "run" /\ args' = w.args /\ ran' = Append(ran, words)
         \/ w.result # "OK" /\ Result(w.result) /\ UNCHANGED <<args, ran>>

menu_execute ==
  /\ phase = "execute"
  /\ LET t == strtok_r(buf, context, {";"})
     IN  /\ context' = t.context
         /\ \/ t.word = NULL /\ phase' = "prompt" /\ UNCHANGED <<buf, args, ran>>
            \/ t.word # NULL /\ cmd_dispatch(t.buf, t.word)
  /\ UNCHANGED <<todo, booted, lines, isargs, typed, shown, volumes, programs>>

(***************************************************************************)
(* The commands.                                                           *)
(***************************************************************************)
mainmenu == {"?o", "?t", "kh", "khgen", "khdump", "q"}
opsmenu == {"s", "p", "mount", "unmount", "bootfs", "pf", "cd", "pwd", "sync", "debug",
            "panic", "deadlock", "q"}
testmenu == {"at", "at2", "bt", "tlt", "km1", "km2", "km3", "km4", "tt1", "tt2", "tt3",
             "sy1", "sy2", "sy3", "sy4", "semu1", "fs1", "fs2", "fs3", "fs4", "fs5", "fs6"}

showmenu(h) ==
  /\ h \in {"mainmenu", "opsmenu", "testmenu"}
  /\ shown' = (CASE h = "mainmenu" -> mainmenu [] h = "opsmenu" -> opsmenu
                 [] h = "testmenu" -> testmenu)
  /\ Result("OK") /\ UNCHANGED <<todo, buf, volumes, programs>>

Simple(h) == h \in {"other", "unknown"} /\ Result(IF h = "other" THEN "OK" ELSE "EINVAL")
             /\ UNCHANGED <<todo, buf, shown, volumes, programs>>

(* A colon after the name of a device is cut off, in place. *)
DeviceAt(i) == LET s == StringAt(buf, i)
               IN  IF Last(s) = ":" THEN Front(s) ELSE s
CutColon(i) == LET n == Len(StringAt(buf, i))
               IN  [buf EXCEPT ![i + n - 1] = IF @ = ":" THEN NUL ELSE @]
Named(s) == IF Len(s) = 1 THEN s[1] ELSE None

InUse(v) == v \in {bootfs, cwd, child.cwd} \cup refs

(* Each of these may be refused, or fail on the disk. *)
cmd_mount(h) ==
  /\ h = "mount"
  /\ \/ Len(args) # 3 /\ Result("EINVAL") /\ UNCHANGED <<buf, mounted>>
     \/ /\ Len(args) = 3 /\ buf' = CutColon(args[3])
        /\ LET v == Named(DeviceAt(args[3]))
           IN  \/ /\ Named(StringAt(buf, args[2])) = "sfs" /\ v \in Volume \ mounted
                  /\ mounted' = mounted \cup {v} /\ Result("OK")
               \/ UNCHANGED mounted /\ Result("EINVAL")
  /\ UNCHANGED <<todo, shown, bootfs, cwd, unsynced, programs>>

cmd_unmount(h) ==
  /\ h = "unmount"
  /\ \/ Len(args) # 2 /\ Result("EINVAL") /\ UNCHANGED <<buf, mounted>>
     \/ /\ Len(args) = 2 /\ buf' = CutColon(args[2])
        /\ LET v == Named(DeviceAt(args[2]))
           IN  \/ /\ v \in mounted /\ ~InUse(v)
                  /\ mounted' = mounted \ {v} /\ Result("OK")
               \/ UNCHANGED mounted /\ Result("EBUSY")
  /\ UNCHANGED <<todo, shown, bootfs, cwd, unsynced, programs>>

cmd_bootfs(h) ==
  /\ h = "bootfs"
  /\ \/ Len(args) # 2 /\ Result("EINVAL") /\ UNCHANGED <<buf, bootfs>>
     \/ /\ Len(args) = 2 /\ buf' = CutColon(args[2])
        /\ LET v == Named(DeviceAt(args[2]))
           IN  \/ v \in mounted /\ bootfs' = v /\ Result("OK")
               \/ UNCHANGED bootfs /\ Result("ENODEV")
  /\ UNCHANGED <<todo, shown, mounted, cwd, unsynced, programs>>

cmd_chdir(h) ==
  /\ h = "chdir"
  /\ LET v == IF Len(args) = 2 /\ Last(StringAt(buf, args[2])) = ":"
              THEN Named(DeviceAt(args[2])) ELSE None
     IN  \/ v \in mounted /\ cwd' = v /\ Result("OK")
         \/ UNCHANGED cwd /\ Result("EINVAL")
  /\ UNCHANGED <<todo, buf, shown, mounted, bootfs, unsynced, programs>>

(* The user's wish; or two threads that take two locks in either order,    *)
(* for ever or until they wedge.  There may be no memory for the locks; if *)
(* there is none for the thread, a lock is released that nobody holds,     *)
(* which is a panic too.                                                   *)
cmd_deadlock(h) ==
  /\ h \in {"panic", "deadlock"}
  /\ \/ phase' = "panic"
     \/ h = "deadlock" /\ Result("ENOMEM")
     \/ h = "deadlock" /\ phase' = "wedged"
  /\ UNCHANGED <<todo, buf, shown, volumes, programs>>

(***************************************************************************)
(* Programs.  The new thread reads the program's name out of the menu's    *)
(* line, so the menu must not go on to another.                            *)
(***************************************************************************)
NewChild(h) ==
  [st |-> "new", name |-> <<>>, cwd |-> cwd, at |-> IF h = "shell" THEN NULL ELSE args[2],
   want |-> IF h = "shell" THEN <<"/bin/sh">> ELSE Last(ran)[2]]

common_prog(h) ==
  /\ h \in {"shell", "prog"}
  /\ LET bad == IF h = "shell" THEN Len(args) # 1 ELSE Len(args) < 2
     IN  \/ bad /\ Result("EINVAL") /\ UNCHANGED child
         \/ ~bad /\ Result("ENOMEM") /\ UNCHANGED child     \* no process, or no thread
         \/ /\ ~bad /\ phase' = "waitpid"
            /\ child' = NewChild(h)
  /\ UNCHANGED <<todo, buf, shown, volumes, refs>>

(* The name of the shell is a constant, not in the line. *)
cmd_progthread ==
  /\ child.st = "new"
  /\ child' = [child EXCEPT !.st = "running",
                 !.name = IF child.at = NULL THEN <<"/bin/sh">> ELSE StringAt(buf, child.at)]
  /\ UNCHANGED <<phase, todo, booted, buf, lines, parser, args, ran, shown, volumes, refs>>

(* The program cannot be run: its thread leaves, and nobody tells the      *)
(* menu; or it exits, and sys_waitpid returns; or it changes to a volume.  *)
runprogram ==
  /\ child.st = "running" /\ phase # "reboot"
  /\ \/ child' = NoChild /\ phase' = "stuck"
     \/ child' = NoChild /\ phase' = "execute"
     \/ \E v \in mounted : v # child.cwd /\ child' = [child EXCEPT !.cwd = v] /\ UNCHANGED phase
  /\ UNCHANGED <<todo, booted, buf, lines, parser, args, ran, shown, volumes, refs>>

(* A file is opened or closed by the program, or by a process it forked,   *)
(* which may outlive it; or such a process comes and goes with its current *)
(* directory.  They go on until the volumes are unmounted.                 *)
Processes ==
  /\ child.st = "running" \/ refs # {}
  /\ phase \in {"waitpid", "execute", "run", "prompt", "stuck"} \/ Len(todo) > 1
  /\ \E v \in mounted : refs' \in {refs \cup {v}, refs \ {v}} \ {refs}
  /\ UNCHANGED <<phase, todo, booted, buf, lines, parser, args, ran, shown, volumes, child>>

(***************************************************************************)
(* Shutting down, by the menu's command or by the program's reboot.        *)
(***************************************************************************)
shutdown == <<"clearbootfs", "clearcurdir", "unmountall", "off">>

cmd_quit(h) ==
  /\ h = "quit" /\ phase' = "down" /\ todo' = shutdown
  /\ UNCHANGED <<buf, shown, volumes, programs>>

(* Codes other than the three known ones are refused. *)
sys_reboot ==
  /\ child.st = "running" /\ phase = "waitpid" /\ phase' = "reboot" /\ todo' = shutdown
  /\ UNCHANGED <<booted, buf, lines, parser, args, ran, shown, volumes, programs>>

(* vfs_unmountall: a volume that cannot be synced, the second time either, *)
(* or that somebody refers to, stays mounted.                              *)
vfs_unmountall ==
  /\ unsynced' \in SUBSET mounted
  /\ mounted' = {v \in mounted : InUse(v) \/ v \in unsynced'}

(* vfs_clearcurdir is for the process that shuts down. *)
ShutdownStep ==
  /\ phase \in {"down", "reboot"} /\ todo' = Tail(todo)
  /\ phase' = (IF Head(todo) = "off" THEN "off" ELSE phase)
  /\ bootfs' = (IF Head(todo) = "clearbootfs" THEN None ELSE bootfs)
  /\ cwd' = (IF Head(todo) = "clearcurdir" /\ phase = "down" THEN None ELSE cwd)
  /\ child' = (IF Head(todo) = "clearcurdir" /\ phase = "reboot"
               THEN [child EXCEPT !.cwd = None] ELSE child)
  /\ \/ Head(todo) = "unmountall" /\ vfs_unmountall
     \/ Head(todo) # "unmountall" /\ UNCHANGED <<mounted, unsynced>>
  /\ UNCHANGED <<booted, buf, lines, parser, args, ran, shown, refs>>

Run(h) == \/ showmenu(h) \/ Simple(h) \/ cmd_mount(h) \/ cmd_unmount(h) \/ cmd_bootfs(h)
          \/ cmd_chdir(h) \/ cmd_deadlock(h) \/ common_prog(h) \/ cmd_quit(h)
Command == /\ phase = "run" /\ Run(Handler(args))
           /\ UNCHANGED <<booted, lines, parser, args, ran>>

Next == \/ BootStep \/ menu \/ menu_execute \/ Command \/ cmd_progthread \/ runprogram
        \/ Processes \/ sys_reboot \/ ShutdownStep

Spec == Init /\ [][Next]_vars

(***************************************************************************)
(* Properties.                                                             *)
(***************************************************************************)
(* Every step of the boot finds what it uses initialized. *)
BootInOrder == phase = "boot" => Uses[Head(todo)] \subseteq booted

(* The commands run are those of the line, in order: its parts between     *)
(* semicolons, in words, apart from blank ones and those with too many     *)
(* words.  That commands are cut up, and a colon cut off, in the line      *)
(* itself does not disturb the ones to come.                               *)
Tokens(s, seps) ==
  LET starts == {i \in DOMAIN s : s[i] \notin seps /\ (i = 1 \/ s[i - 1] \in seps)}
      end(i) == Min({j \in DOMAIN s : j > i /\ s[j] \in seps} \cup {Len(s) + 1})
      order == SetToSortSeq(starts, <)
  IN  [k \in DOMAIN order |-> SubSeq(s, order[k], end(order[k]) - 1)]
Asked == LET cs == Tokens(typed, {";"})
         IN  SelectSeq([k \in DOMAIN cs |-> Tokens(cs[k], {" "})],
                       LAMBDA w : Len(w) \in 1 .. MAXMENUARGS)
CommandsAsTyped ==
  /\ IsPrefix(ran, Asked)
  /\ (phase = "prompt" => ran = Asked)

(* The program that runs is the one whose name was given.                  *)
RunsWhatWasTyped == child.st = "running" => child.name = child.want

(* Every command a help menu names is one cmd_dispatch knows.              *)
MenusAreTrue == shown \subseteq DOMAIN cmdtable

(* When the power goes off a volume is still mounted only if it could not  *)
(* be synced, or for a process other than the one that shuts down: the     *)
(* boot file system and the current directory of that one do not keep it.  *)
UnmountedAtOff == phase = "off" => mounted \subseteq {cwd, child.cwd} \cup refs \cup unsynced
=============================================================================
