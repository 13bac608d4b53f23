------------------------------ MODULE Console ------------------------------
(***************************************************************************)
(* The system console: kern/dev/generic/console.c over the serial port     *)
(* driver kern/dev/lamebus/lser.c.                                         *)
(*                                                                         *)
(* User processes read and write through con_io, one reader and one writer *)
(* at a time (con_userlock_read, con_userlock_write); their output is      *)
(* paced by interrupts and cs_wsem.  Code that may not sleep (interrupt    *)
(* handlers, holders of spinlocks) prints by polling the port between two  *)
(* of those characters.  A character is "x", "nl" (newline) or "cr".       *)
(***************************************************************************)
EXTENDS Naturals, Sequences, FiniteSets, SequencesExt

CONSTANTS Writer, Reader,       \* user threads in con_io
          Kernel,               \* contexts that print by polling
          Line,                 \* the characters a writer writes
          BufferSize,           \* CONSOLE_INPUT_BUFFER_SIZE
          DelaySize,            \* DELAYBUFSIZE
          MaxInput, MaxPrints   \* bounds on input and on polled characters

VARIABLES the_console, delayed,       \* attached yet?  characters kept until then
          pc, todo,                   \* per thread: where; characters left to do
          rlock, wlock,               \* con_userlock_read, con_userlock_write
          cs_wsem, cs_rsem, ring, head, tail,
          ls_lock, ls_wbusy, pending, \* lser; pending: irqpending, per printer
          wirq, sending,              \* the port: [en, act, force]; transmitting
          rx, nin,                    \* a received character, how many so far
          out, accepted, taken, overrun, panicked

vars == <<the_console, delayed, pc, todo, rlock, wlock, cs_wsem, cs_rsem, ring,
          head, tail, ls_lock, ls_wbusy, pending, wirq, sending, rx, nin, out,
          accepted, taken, overrun, panicked>>

Thread == Writer \cup Reader \cup Kernel
input == <<cs_rsem, ring, head, tail, rx, nin, accepted, taken>>
port == <<ls_lock, ls_wbusy, pending, wirq, sending, out, overrun, panicked>>
boot == <<the_console, delayed>>
Quiet == [en |-> TRUE, act |-> FALSE, force |-> FALSE]

Init ==
  /\ the_console = FALSE /\ delayed = <<>>
  /\ pc = [t \in Thread |-> "user"]
  /\ todo = [t \in Thread |-> IF t \in Kernel THEN MaxPrints ELSE 0]
  /\ rlock = 0 /\ wlock = 0 /\ cs_wsem = 0 /\ cs_rsem = 0
  /\ ring = [i \in 0 .. BufferSize - 1 |-> "none"] /\ head = 0 /\ tail = 0
  /\ ls_lock = 0 /\ ls_wbusy = FALSE /\ pending = [k \in Kernel |-> FALSE]
  /\ wirq = Quiet /\ sending = FALSE /\ rx = "none" /\ nin = 0
  /\ out = <<>> /\ accepted = <<>> /\ taken = <<>> /\ overrun = FALSE /\ panicked = FALSE

Goto(t, l) == pc' = [pc EXCEPT ![t] = l]

(* The transmitter takes a character; one that it is still sending is lost. *)
Transmit(t, c) == /\ out' = Append(out, [by |-> t, c |-> c]) /\ sending' = TRUE
                  /\ overrun' = (overrun \/ sending)

(***************************************************************************)
(* Before there is a console, putch keeps what is printed.                 *)
(***************************************************************************)
putch_delayed ==
  /\ ~the_console /\ Len(delayed) <= DelaySize
  /\ IF Len(delayed) < DelaySize
     THEN delayed' = Append(delayed, [by |-> 0, c |-> "x"]) /\ UNCHANGED panicked
     ELSE panicked' = TRUE /\ UNCHANGED delayed
  /\ UNCHANGED <<the_console, pc, todo, rlock, wlock, cs_wsem, input, ls_lock, ls_wbusy,
                 pending, wirq, sending, out, overrun>>

config_con ==
  /\ ~the_console /\ ~panicked /\ the_console' = TRUE
  /\ cs_wsem' = 1 /\ out' = delayed /\ delayed' = <<>>
  /\ UNCHANGED <<pc, todo, rlock, wlock, input, ls_lock, ls_wbusy, pending, wirq,
                 sending, overrun, panicked>>

(***************************************************************************)
(* Output paced by interrupts.                                             *)
(***************************************************************************)
(* Mutant: users write without the lock. *)
WriteUnlocked(t) ==
  /\ the_console /\ pc[t] = "user" /\ todo[t] = 0
  /\ wlock' = wlock /\ todo' = [todo EXCEPT ![t] = 1] /\ Goto(t, "putch")
  /\ UNCHANGED <<boot, rlock, cs_wsem, input, port>>
con_io_write(t) ==
  /\ the_console /\ pc[t] = "user" /\ todo[t] = 0 /\ wlock = 0
  /\ wlock' = t /\ todo' = [todo EXCEPT ![t] = 1] /\ Goto(t, "putch")
  /\ UNCHANGED <<boot, rlock, cs_wsem, input, port>>

(* The next character is copied in; a newline is preceded by a return.     *)
(* At the end, or when the user's buffer cannot be read, con_io returns.   *)
WriteLoop(t) ==
  /\ pc[t] = "putch" /\ t \in Writer
  /\ \/ /\ todo[t] <= Len(Line) /\ Goto(t, IF Line[todo[t]] = "nl" THEN "cr" ELSE "ch")
        /\ UNCHANGED wlock
     \/ wlock' = 0 /\ Goto(t, "done")
  /\ UNCHANGED <<boot, todo, rlock, cs_wsem, input, port>>

putch_intr(t) ==
  /\ pc[t] \in {"cr", "ch"} /\ cs_wsem > 0 /\ cs_wsem' = cs_wsem - 1
  /\ Goto(t, IF pc[t] = "cr" THEN "send_cr" ELSE "send_ch")
  /\ UNCHANGED <<boot, todo, rlock, wlock, input, port>>

lser_write(t) ==
  /\ pc[t] \in {"send_cr", "send_ch"} /\ ls_lock = 0
  /\ panicked' = ls_wbusy /\ ls_wbusy' = TRUE
  /\ Transmit(t, IF pc[t] = "send_cr" THEN "cr" ELSE Line[todo[t]])
  /\ IF pc[t] = "send_cr" THEN Goto(t, "ch") /\ UNCHANGED todo
     ELSE Goto(t, "putch") /\ todo' = [todo EXCEPT ![t] = @ + 1]
  /\ UNCHANGED <<boot, rlock, wlock, cs_wsem, input, ls_lock, pending, wirq>>

(***************************************************************************)
(* Output by polling, all of it under ls_lock.                             *)
(***************************************************************************)
lser_writepolled(k) ==
  /\ the_console /\ pc[k] = "user" /\ todo[k] > 0 /\ ls_lock = 0 /\ ls_lock' = k
  /\ pending' = [pending EXCEPT ![k] = ls_wbusy]
  /\ IF ls_wbusy THEN Goto(k, "drain") /\ UNCHANGED wirq
     ELSE Goto(k, "poke") /\ wirq' = [en |-> FALSE, act |-> FALSE, force |-> FALSE]
  /\ UNCHANGED <<boot, todo, rlock, wlock, cs_wsem, input, ls_wbusy, sending, out,
                 overrun, panicked>>

(* lser_poll_until_write, then the ready condition is cleared with the     *)
(* interrupt left on.                                                      *)
Drain(k) ==
  /\ pc[k] = "drain" /\ wirq.act
  /\ wirq' = [en |-> TRUE, act |-> FALSE, force |-> TRUE] /\ Goto(k, "poke")
  /\ UNCHANGED <<boot, todo, rlock, wlock, cs_wsem, input, ls_lock, ls_wbusy, pending,
                 sending, out, overrun, panicked>>

PollSend(k) ==
  /\ pc[k] = "poke" /\ Transmit(k, "x") /\ Goto(k, "poll")
  /\ UNCHANGED <<boot, todo, rlock, wlock, cs_wsem, input, ls_lock, ls_wbusy, pending,
                 wirq, panicked>>

(* Mutant: the ready condition is cleared whether or not an interrupt was  *)
(* due.                                                                    *)
PollDoneClears(k) ==
  /\ pc[k] = "poll" /\ wirq.act /\ ls_lock' = 0
  /\ wirq' = Quiet
  /\ todo' = [todo EXCEPT ![k] = @ - 1] /\ Goto(k, "user")
  /\ UNCHANGED <<boot, rlock, wlock, cs_wsem, input, ls_wbusy, pending, sending, out,
                 overrun, panicked>>
PollDone(k) ==
  /\ pc[k] = "poll" /\ wirq.act /\ ls_lock' = 0
  /\ wirq' = (IF pending[k] THEN wirq ELSE Quiet)
  /\ todo' = [todo EXCEPT ![k] = @ - 1] /\ Goto(k, "user")
  /\ UNCHANGED <<boot, rlock, wlock, cs_wsem, input, ls_wbusy, pending, sending, out,
                 overrun, panicked>>

(***************************************************************************)
(* The port, and its interrupt.                                            *)
(***************************************************************************)
Sent == /\ sending /\ sending' = FALSE /\ wirq' = [wirq EXCEPT !.act = TRUE]
        /\ UNCHANGED <<boot, pc, todo, rlock, wlock, cs_wsem, input, ls_lock, ls_wbusy,
                       pending, out, overrun, panicked>>

Receive ==
  /\ the_console /\ rx = "none" /\ nin < MaxInput /\ nin' = nin + 1
  /\ rx' \in {"x", "cr"}
  /\ UNCHANGED <<boot, pc, todo, rlock, wlock, cs_wsem, cs_rsem, ring, head, tail,
                 accepted, taken, port>>

(* con_input keeps a character unless the ring is full. *)
(* Mutant: it does not look. *)
InputOverwrites(c) ==
  /\ ring' = [ring EXCEPT ![head] = c] /\ head' = (head + 1) % BufferSize
  /\ cs_rsem' = cs_rsem + 1 /\ accepted' = Append(accepted, c)
con_input(c) ==
  IF (head + 1) % BufferSize = tail THEN UNCHANGED <<ring, head, cs_rsem, accepted>>
  ELSE /\ ring' = [ring EXCEPT ![head] = c] /\ head' = (head + 1) % BufferSize
       /\ cs_rsem' = cs_rsem + 1 /\ accepted' = Append(accepted, c)

(* Mutant: lser_irq calls ls_start but leaves ls_wbusy. *)
IrqStaysBusy ==
  /\ ls_lock = 0 /\ wirq.act /\ wirq' = Quiet /\ cs_wsem' = cs_wsem + 1
  /\ UNCHANGED <<rx, ring, head, cs_rsem, accepted, ls_wbusy>>
  /\ UNCHANGED <<boot, pc, todo, rlock, wlock, tail, nin, taken, ls_lock, pending,
                 sending, out, overrun, panicked>>
lser_irq ==
  /\ ls_lock = 0 /\ ((wirq.en /\ wirq.act) \/ wirq.force \/ rx # "none")
  /\ IF wirq.act
     THEN wirq' = Quiet /\ ls_wbusy' = FALSE /\ cs_wsem' = cs_wsem + 1
     ELSE UNCHANGED <<wirq, ls_wbusy, cs_wsem>>
  /\ IF rx # "none" THEN rx' = "none" /\ con_input(rx)
     ELSE UNCHANGED <<rx, ring, head, cs_rsem, accepted>>
  /\ UNCHANGED <<boot, pc, todo, rlock, wlock, tail, nin, taken, ls_lock, pending,
                 sending, out, overrun, panicked>>

(***************************************************************************)
(* Input: up to a newline, which a carriage return stands for.             *)
(***************************************************************************)
con_io_read(t) ==
  /\ the_console /\ pc[t] = "user" /\ rlock = 0
  /\ rlock' = t /\ Goto(t, "getch") /\ UNCHANGED <<boot, todo, wlock, cs_wsem, input, port>>

getch_intr(t) ==
  /\ pc[t] = "getch" /\ cs_rsem > 0 /\ cs_rsem' = cs_rsem - 1 /\ Goto(t, "take")
  /\ UNCHANGED <<boot, todo, rlock, wlock, cs_wsem, ring, head, tail, rx, nin, accepted,
                 taken, port>>

(* The character leaves the ring; con_io goes on unless it was the end of  *)
(* a line, the request is complete or the user's buffer cannot be written. *)
ReadLoop(t) ==
  /\ pc[t] = "take"
  /\ taken' = Append(taken, ring[tail]) /\ tail' = (tail + 1) % BufferSize
  /\ \/ ring[tail] # "cr" /\ Goto(t, "getch") /\ UNCHANGED rlock
     \/ rlock' = 0 /\ Goto(t, "user")
  /\ UNCHANGED <<boot, todo, wlock, cs_wsem, cs_rsem, ring, head, rx, nin, accepted, port>>

Writes(t) == WriteLoop(t) \/ putch_intr(t) \/ lser_write(t)
Polls(k) == Drain(k) \/ PollSend(k) \/ PollDone(k)
Reads(t) == getch_intr(t) \/ ReadLoop(t)

Next == /\ ~panicked
        /\ \/ putch_delayed \/ config_con \/ Sent \/ Receive \/ lser_irq
           \/ \E t \in Writer : con_io_write(t) \/ Writes(t)
           \/ \E k \in Kernel : lser_writepolled(k) \/ Polls(k)
           \/ \E t \in Reader : con_io_read(t) \/ Reads(t)

(* The port sends what it is given, its interrupt is delivered, and        *)
(* threads that can run do.  Nobody need type.                             *)
Spec == /\ Init /\ [][Next]_vars
        /\ \A t \in Writer : WF_vars(Writes(t))
        /\ \A k \in Kernel : WF_vars(Polls(k))
        /\ \A t \in Reader : WF_vars(Reads(t))
        /\ WF_vars(Sent) /\ WF_vars(lser_irq)

(***************************************************************************)
(* Properties.                                                             *)
(***************************************************************************)
(* However polled output comes in between, no character is put into a port *)
(* that is still sending, lser_write never finds it "not clear to write",  *)
(* and there is at most one permission to write about.                     *)
PortNotOverrun ==
  /\ ~overrun /\ (the_console => ~panicked)
  /\ the_console =>
       cs_wsem + Cardinality({t \in Writer : pc[t] \in {"send_cr", "send_ch"}})
               + (IF ls_wbusy THEN 1 ELSE 0) = 1

(* What one user writes comes out in one piece, apart from the kernel's    *)
(* polled output, complete and in order up to where the write stopped.     *)
UserOutput == SelectSeq(out, LAMBDA o : o.by \in Writer)
Expanded == FlattenSeq([i \in 1 .. Len(Line) |->
                          IF Line[i] = "nl" THEN <<"cr", "nl">> ELSE <<Line[i]>>])
WritesInOnePiece ==
  /\ \A i \in 2 .. Len(UserOutput) :
       UserOutput[i].by # UserOutput[i - 1].by =>
         \A j \in i .. Len(UserOutput) : UserOutput[j].by # UserOutput[i - 1].by
  /\ \A t \in Writer :
       LET mine == SelectSeq(out, LAMBDA o : o.by = t)
       IN  [i \in 1 .. Len(mine) |-> mine[i].c] = SubSeq(Expanded, 1, Len(mine))

(* Readers get the characters con_input kept, each of them once and in the *)
(* order they arrived.                                                     *)
InputInOrder ==
  /\ IsPrefix(taken, accepted)
  /\ cs_rsem + Cardinality({t \in Reader : pc[t] = "take"}) = Len(accepted) - Len(taken)

(* A write to the console returns.                                         *)
Writing(t) == pc[t] = "putch"
Written(t) == pc[t] = "done"
WritesReturn == \A t \in Writer : Writing(t) ~> Written(t)
=============================================================================
