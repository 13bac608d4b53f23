------------------------------- MODULE Clock -------------------------------
(***************************************************************************)
(* Time: the clock of the timer card, read by ltimer_gettime               *)
(* (kern/dev/lamebus/ltimer.c) through gettime (kern/dev/generic/          *)
(* rtclock.c), the arithmetic of kern/lib/time.c, and clocksleep, which    *)
(* counts the once-a-second broadcasts of timerclock on lbolt              *)
(* (kern/thread/clock.c).                                                  *)
(*                                                                         *)
(* A second has Second units.  The card's registers are read one after the *)
(* other while its clock runs on, with interrupts off: at most Delay units *)
(* pass from the first read to the last, fewer than Small.                 *)
(***************************************************************************)
EXTENDS Integers, FiniteSets

CONSTANTS Threads, Second, Delay,
          Small,        \* the 5000000 of ltimer_gettime, in units
          MaxTime, MaxSleep

VARIABLES now,                 \* the card's clock, in units
          pc, began,           \* per thread; when its reading or its sleep began
          secs1, tv_nsec,      \* per thread: registers as read
          ts,                  \* per thread: the last time it was given
          num_secs,            \* per thread: seconds left in clocksleep
          wanted,              \* per thread: seconds asked for
          lbolt,               \* the threads asleep on lbolt
          tick                 \* timer interrupt asserted

vars == <<now, pc, began, secs1, tv_nsec, ts, num_secs, wanted, lbolt, tick>>

Time(u) == [sec |-> u \div Second, nsec |-> u % Second]
Units(t) == t.sec * Second + t.nsec

(***************************************************************************)
(* kern/lib/time.c.                                                        *)
(***************************************************************************)
timespec_add(ts1, ts2) ==
  IF ts1.nsec + ts2.nsec >= Second
  THEN [sec |-> ts1.sec + ts2.sec + 1, nsec |-> ts1.nsec + ts2.nsec - Second]
  ELSE [sec |-> ts1.sec + ts2.sec, nsec |-> ts1.nsec + ts2.nsec]

(* Mutant: nothing is borrowed from the seconds. *)
SubNoBorrow(ts1, ts2) == [sec |-> ts1.sec - ts2.sec, nsec |-> ts1.nsec - ts2.nsec]
timespec_sub(ts1, ts2) ==
  IF ts1.nsec < ts2.nsec
  THEN [sec |-> ts1.sec - 1 - ts2.sec, nsec |-> ts1.nsec + Second - ts2.nsec]
  ELSE [sec |-> ts1.sec - ts2.sec, nsec |-> ts1.nsec - ts2.nsec]

Init ==
  /\ now = 0 /\ tick = FALSE /\ lbolt = {}
  /\ pc = [t \in Threads |-> "run"] /\ began = [t \in Threads |-> 0]
  /\ secs1 = [t \in Threads |-> 0] /\ tv_nsec = [t \in Threads |-> 0]
  /\ ts = [t \in Threads |-> Time(0)]
  /\ num_secs = [t \in Threads |-> 0] /\ wanted = [t \in Threads |-> 0]

Goto(t, l) == pc' = [pc EXCEPT ![t] = l]

(* The clock runs; once a second the card interrupts.  A reading in        *)
(* progress is not kept waiting longer than Delay.                         *)
Run ==
  /\ now < MaxTime /\ ~tick
  /\ \A t \in Threads : pc[t] \in {"nsec", "secs2"} => now < began[t] + Delay
  /\ now' = now + 1 /\ tick' = ((now + 1) % Second = 0)
  /\ UNCHANGED <<pc, began, secs1, tv_nsec, ts, num_secs, wanted, lbolt>>

(***************************************************************************)
(* ltimer_gettime: seconds, nanoseconds, seconds again.                    *)
(***************************************************************************)
ReadSecs(t) ==
  /\ pc[t] = "run" /\ secs1' = [secs1 EXCEPT ![t] = now \div Second]
  /\ began' = [began EXCEPT ![t] = now] /\ Goto(t, "nsec")
  /\ UNCHANGED <<now, tv_nsec, ts, num_secs, wanted, lbolt, tick>>

ReadNsec(t) ==
  /\ pc[t] = "nsec" /\ tv_nsec' = [tv_nsec EXCEPT ![t] = now % Second]
  /\ Goto(t, "secs2") /\ UNCHANGED <<now, began, secs1, ts, num_secs, wanted, lbolt, tick>>

(* Mutant: the earlier value of the seconds is used. *)
GettimeEarlier(t) ==
  /\ pc[t] = "secs2" /\ Goto(t, "run")
  /\ ts' = [ts EXCEPT ![t] = [nsec |-> tv_nsec[t], sec |-> secs1[t]]]
  /\ UNCHANGED <<now, began, secs1, tv_nsec, num_secs, wanted, lbolt, tick>>
ltimer_gettime(t) ==
  /\ pc[t] = "secs2" /\ Goto(t, "run")
  /\ ts' = [ts EXCEPT ![t] =
              [nsec |-> tv_nsec[t],
               sec |-> IF tv_nsec[t] < Small THEN now \div Second ELSE secs1[t]]]
  /\ UNCHANGED <<now, began, secs1, tv_nsec, num_secs, wanted, lbolt, tick>>

(***************************************************************************)
(* clocksleep and timerclock, under lbolt_lock.                            *)
(***************************************************************************)
clocksleep(t) ==
  /\ pc[t] = "run" /\ \E n \in 1 .. MaxSleep :
       num_secs' = [num_secs EXCEPT ![t] = n] /\ wanted' = [wanted EXCEPT ![t] = n]
  /\ began' = [began EXCEPT ![t] = now] /\ lbolt' = lbolt \cup {t} /\ Goto(t, "asleep")
  /\ UNCHANGED <<now, secs1, tv_nsec, ts, tick>>

(* ltimer_irq calls timerclock, which wakes everybody on lbolt. *)
timerclock ==
  /\ tick /\ tick' = FALSE /\ lbolt' = {}
  /\ UNCHANGED <<now, pc, began, secs1, tv_nsec, ts, num_secs, wanted>>

(* Awake again, possibly much later.  Mutant: the sleeper leaves at the    *)
(* first broadcast.                                                        *)
SleepOnce(t) ==
  /\ pc[t] = "asleep" /\ t \notin lbolt
  /\ num_secs' = [num_secs EXCEPT ![t] = 0] /\ Goto(t, "run") /\ UNCHANGED lbolt
  /\ UNCHANGED <<now, began, secs1, tv_nsec, ts, wanted, tick>>
SleepLoop(t) ==
  /\ pc[t] = "asleep" /\ t \notin lbolt
  /\ num_secs' = [num_secs EXCEPT ![t] = @ - 1]
  /\ IF num_secs[t] > 1 THEN lbolt' = lbolt \cup {t} /\ UNCHANGED pc
     ELSE Goto(t, "run") /\ UNCHANGED lbolt
  /\ UNCHANGED <<now, began, secs1, tv_nsec, ts, wanted, tick>>

Reads(t) == ReadNsec(t) \/ ltimer_gettime(t)
Next == \/ Run \/ timerclock
        \/ \E t \in Threads : ReadSecs(t) \/ Reads(t) \/ clocksleep(t) \/ SleepLoop(t)

Spec == Init /\ [][Next]_vars

(***************************************************************************)
(* Properties.                                                             *)
(***************************************************************************)
(* gettime gives a time the clock really showed while it was being read,   *)
(* even when the nanoseconds turned over in between.                       *)
TimeShown == \A t \in Threads : pc[t] = "secs2" /\ pc'[t] = "run" =>
               Units(ts'[t]) \in began[t] .. now
TimeWasShown == [][TimeShown]_vars

(* Of two times, the difference added to the earlier gives the later, with *)
(* the nanoseconds always within a second.                                 *)
DifferenceAddsUp ==
  \A t, u \in Threads : Units(ts[t]) >= Units(ts[u]) =>
    LET d == timespec_sub(ts[t], ts[u])
    IN  /\ d.nsec \in 0 .. Second - 1 /\ d.sec >= 0
        /\ timespec_add(ts[u], d) = ts[t]
        /\ Units(d) = Units(ts[t]) - Units(ts[u])

(* clocksleep(n), "suspend execution for n seconds", comes back after at   *)
(* least n - 1 of them: the first broadcast may follow at once.            *)
SleptLongEnough == \A t \in Threads : pc[t] = "asleep" /\ pc'[t] = "run" =>
                     now - began[t] >= (wanted[t] - 1) * Second
SleepsLongEnough == [][SleptLongEnough]_vars
=============================================================================
