-------------------------------- MODULE Lhd --------------------------------
(***************************************************************************)
(* The LAMEbus disk (kern/dev/lamebus/lhd.c) under its two kinds of        *)
(* clients: SFS, whose sfs_rwblock repeats a transfer that failed with     *)
(* EIO, and users of the raw device, whose buffer may be unmapped.         *)
(*                                                                         *)
(* The disk card has one sector buffer and one pair of registers; lh_clear *)
(* admits one thread at a time to them, lh_done is given up by the         *)
(* interrupt handler.  A sector's contents are [s |-> the sector they were *)
(* meant for, by |-> the thread that wrote them].                          *)
(***************************************************************************)
EXTENDS Naturals, FiniteSets

CONSTANTS Thread, Sector,
          Sfs,        \* the threads that come through sfs_rwblock
          Tries,      \* how often sfs_rwblock repeats (10)
          MaxRequests, MaxFaults  \* bounds on requests per thread and media errors

VARIABLES pc, req,            \* per thread: where it is, [w, s] what it wants
          resid,              \* uio_resid, in sectors
          tries, result, got, \* retries made, code returned, data read
          done,               \* per thread: the device has carried its transfer out
          nreq,               \* requests made
          stat, sect, buf,    \* the card: state register, sector, buffer
          owner,              \* whose request the card works on
          platter,            \* what is on the disk
          lh_clear, lh_done, lh_result,
          faults

vars == <<pc, req, resid, tries, result, got, done, nreq, stat, sect, buf,
          owner, platter, lh_clear, lh_done, lh_result, faults>>
card == <<stat, sect, owner, platter, faults>>
sems == <<lh_clear, lh_done, lh_result>>

None == [s |-> 0, by |-> 0]
Blank(s) == [s |-> s, by |-> 0]

Init ==
  /\ pc = [t \in Thread |-> "user"] /\ req = [t \in Thread |-> [w |-> FALSE, s |-> 0]]
  /\ resid = [t \in Thread |-> 0] /\ tries = [t \in Thread |-> 0]
  /\ result = [t \in Thread |-> "OK"] /\ got = [t \in Thread |-> None]
  /\ done = [t \in Thread |-> FALSE] /\ nreq = [t \in Thread |-> 0]
  /\ stat = "idle" /\ sect = 0 /\ buf = None /\ owner = 0
  /\ platter = [s \in Sector |-> Blank(s)]
  /\ lh_clear = 1 /\ lh_done = 0 /\ lh_result = "OK" /\ faults = 0

Goto(t, l) == pc' = [pc EXCEPT ![t] = l]

(* sfs_readblock, sfs_writeblock or a read or write of the raw device sets *)
(* up a uio for one sector.                                                *)
Request(t) ==
  /\ pc[t] = "user" /\ nreq[t] < MaxRequests
  /\ \E w \in BOOLEAN, s \in Sector \cup (IF t \in Sfs THEN {} ELSE {0}) :
       req' = [req EXCEPT ![t] = [w |-> w, s |-> s]]
  /\ resid' = [resid EXCEPT ![t] = 1] /\ tries' = [tries EXCEPT ![t] = 0]
  /\ done' = [done EXCEPT ![t] = FALSE] /\ nreq' = [nreq EXCEPT ![t] = @ + 1]
  /\ got' = [got EXCEPT ![t] = None]
  /\ Goto(t, "io") /\ UNCHANGED <<result, buf, card, sems>>

Returns(t, code) == Goto(t, "ret") /\ result' = [result EXCEPT ![t] = code]

(* lhd_io works out from the uio how many sectors there are to do.  Those  *)
(* beyond the disk, 0 here, are refused, unless sector+len does not fit in *)
(* 32 bits and the check lets them through.                                *)
lhd_io(t) ==
  /\ pc[t] = "io"
  /\ \/ req[t].s \notin Sector /\ Returns(t, "EINVAL")
     \/ resid[t] = 0 /\ Returns(t, "OK")
     \/ resid[t] > 0 /\ Goto(t, "clear") /\ UNCHANGED result
  /\ UNCHANGED <<req, resid, tries, got, done, nreq, buf, card, sems>>

(* P(lh_clear). *)
Clear(t) ==
  /\ pc[t] = "clear" /\ lh_clear > 0 /\ lh_clear' = lh_clear - 1 /\ Goto(t, "fill")
  /\ UNCHANGED <<req, resid, tries, result, got, done, nreq, buf, card, lh_done, lh_result>>

(* Mutant: lh_clear is kept when uiomove fails. *)
FillKeepsCard(t) ==
  /\ pc[t] = "fill"
  /\ \/ ~req[t].w /\ Goto(t, "sect") /\ UNCHANGED <<resid, buf, result>>
     \/ /\ req[t].w /\ buf' = [s |-> req[t].s, by |-> t] /\ resid' = [resid EXCEPT ![t] = 0]
        /\ Goto(t, "sect") /\ UNCHANGED result
     \/ /\ req[t].w /\ t \notin Sfs
        /\ Returns(t, "EFAULT") /\ UNCHANGED <<buf, resid>>
  /\ UNCHANGED <<req, tries, got, done, nreq, card, sems>>
(* The data of a write goes to the card's buffer; when uiomove fails, the  *)
(* card is given up.                                                       *)
Fill(t) ==
  /\ pc[t] = "fill"
  /\ \/ ~req[t].w /\ Goto(t, "sect") /\ UNCHANGED <<resid, buf, result, lh_clear>>
     \/ /\ req[t].w /\ buf' = [s |-> req[t].s, by |-> t] /\ resid' = [resid EXCEPT ![t] = 0]
        /\ Goto(t, "sect") /\ UNCHANGED <<result, lh_clear>>
     \/ /\ req[t].w /\ t \notin Sfs /\ lh_clear' = lh_clear + 1
        /\ Returns(t, "EFAULT") /\ UNCHANGED <<buf, resid>>
  /\ UNCHANGED <<req, tries, got, done, nreq, card, lh_done, lh_result>>

SelectSector(t) ==
  /\ pc[t] = "sect" /\ sect' = req[t].s /\ Goto(t, "start")
  /\ UNCHANGED <<req, resid, tries, result, got, done, nreq, stat, buf, owner,
                 platter, faults, sems>>

StartTransfer(t) ==
  /\ pc[t] = "start" /\ stat' = "working" /\ owner' = t /\ Goto(t, "wait")
  /\ UNCHANGED <<req, resid, tries, result, got, done, nreq, sect, buf, platter,
                 faults, sems>>

(* The card finishes: it has no such sector, or the transfer is made, or   *)
(* the medium fails.                                                       *)
Finish ==
  /\ stat = "working"
  /\ \/ /\ sect \notin Sector /\ stat' = "invsect"
        /\ UNCHANGED <<buf, platter, done, faults>>
     \/ /\ sect \in Sector /\ stat' = "ok" /\ done' = [done EXCEPT ![owner] = TRUE]
        /\ IF req[owner].w
           THEN platter' = [platter EXCEPT ![sect] = buf] /\ UNCHANGED buf
           ELSE buf' = platter[sect] /\ UNCHANGED platter
        /\ UNCHANGED faults
     \/ /\ sect \in Sector /\ faults < MaxFaults /\ stat' = "media" /\ faults' = faults + 1
        /\ UNCHANGED <<buf, platter, done>>
  /\ UNCHANGED <<pc, req, resid, tries, result, got, nreq, sect, owner, sems>>

lhd_code_to_errno(code) ==
  CASE code = "media" -> "EIO" [] code = "invsect" -> "EINVAL" [] OTHER -> "OK"

(* Mutant: the handler wakes the thread before the card is done. *)
IrqAnytime ==
  /\ stat # "idle"
  /\ stat' = "idle" /\ lh_result' = lhd_code_to_errno(stat) /\ lh_done' = lh_done + 1
  /\ UNCHANGED <<pc, req, resid, tries, result, got, done, nreq, sect, buf, owner,
                 platter, faults, lh_clear>>
lhd_irq ==
  /\ stat \in {"ok", "invsect", "media"}
  /\ stat' = "idle" /\ lh_result' = lhd_code_to_errno(stat) /\ lh_done' = lh_done + 1
  /\ UNCHANGED <<pc, req, resid, tries, result, got, done, nreq, sect, buf, owner,
                 platter, faults, lh_clear>>

Awake(t) ==
  /\ pc[t] = "wait" /\ lh_done > 0
  /\ lh_done' = lh_done - 1 /\ Goto(t, "collect")
  /\ UNCHANGED <<req, resid, tries, result, got, done, nreq, buf, card, lh_clear,
                 lh_result>>

(* The result; a read that succeeded takes the data out of the buffer. *)
Collect(t) ==
  /\ pc[t] = "collect"
  /\ \/ /\ lh_result = "OK" /\ ~req[t].w
        /\ got' = [got EXCEPT ![t] = buf] /\ resid' = [resid EXCEPT ![t] = 0]
        /\ result' = [result EXCEPT ![t] = "OK"]
     \/ /\ lh_result = "OK" /\ ~req[t].w /\ t \notin Sfs
        /\ result' = [result EXCEPT ![t] = "EFAULT"] /\ UNCHANGED <<got, resid>>
     \/ /\ lh_result # "OK" \/ req[t].w
        /\ result' = [result EXCEPT ![t] = lh_result] /\ UNCHANGED <<got, resid>>
  /\ Goto(t, "vclear")
  /\ UNCHANGED <<req, tries, done, nreq, buf, card, sems>>

GiveUp(t) ==
  /\ pc[t] = "vclear" /\ lh_clear' = lh_clear + 1 /\ Goto(t, "ret")
  /\ UNCHANGED <<req, resid, tries, result, got, done, nreq, buf, card, lh_done,
                 lh_result>>

(* Back in sfs_rwblock, which calls DEVOP_IO again with the same uio after *)
(* EIO; everybody else hands the code on.                                  *)
sfs_rwblock(t) ==
  /\ pc[t] = "ret"
  /\ IF t \in Sfs /\ result[t] = "EIO" /\ tries[t] < Tries
     THEN tries' = [tries EXCEPT ![t] = @ + 1] /\ Goto(t, "io")
     ELSE Goto(t, "user") /\ UNCHANGED tries
  /\ UNCHANGED <<req, resid, result, got, done, nreq, buf, card, sems>>

Step(t) == \/ lhd_io(t) \/ Clear(t) \/ Fill(t) \/ SelectSector(t) \/ StartTransfer(t)
           \/ Awake(t) \/ Collect(t) \/ GiveUp(t) \/ sfs_rwblock(t)

Finished == /\ \A t \in Thread : pc[t] = "user" /\ nreq[t] = MaxRequests
            /\ UNCHANGED vars

Next == \/ \E t \in Thread : Request(t) \/ Step(t)
        \/ Finish \/ lhd_irq \/ Finished

(* Threads that can run do; the card always finishes and its interrupt is  *)
(* delivered.                                                              *)
Spec == /\ Init /\ [][Next]_vars
        /\ \A t \in Thread : WF_vars(Step(t))
        /\ WF_vars(Finish) /\ WF_vars(lhd_irq)

(***************************************************************************)
(* Properties.                                                             *)
(***************************************************************************)
(* No transfer is mixed up with another: what is on a sector was written   *)
(* to that sector, and a thread that returns from a read of the disk has   *)
(* the contents of its own sector.                                         *)
SectorsNotMixed ==
  /\ \A s \in Sector : platter[s].s = s
  /\ \A t \in Thread : got[t] # None => got[t].s = req[t].s

(* A read, retried or not, and a write that is not retried, return success *)
(* only after the card has carried them out.                               *)
SuccessIsReal ==
  \A t \in Thread :
    pc[t] = "user" /\ nreq[t] > 0 /\ result[t] = "OK" /\ (req[t].w => tries[t] = 0)
      => done[t] /\ (~req[t].w => got[t] # None)

(* What sfs_rwblock says: "Read or write a block, retrying I/O errors": a  *)
(* transfer it reports as successful was made.                             *)
RetriedWritesLand ==
  \A t \in Thread : pc[t] = "user" /\ nreq[t] > 0 /\ result[t] = "OK" => done[t]

(* Every request returns: the card is given up on every path, and nobody   *)
(* waits for an interrupt that does not come.                              *)
Asked(t) == pc[t] # "user"
Answered(t) == pc[t] = "user"
RequestsReturn == \A t \in Thread : Asked(t) ~> Answered(t)
=============================================================================
