----------------------------- MODULE FileSystem -----------------------------
(***************************************************************************)
(* What a file system promises its users: names, files with contents, and  *)
(* open files, each changed only by the operation that is meant to change  *)
(* it, and all of it still there after the volume was unmounted and        *)
(* mounted again.  Only a machine that stops, or a block write that is     *)
(* lost, may lose something.                                               *)
(***************************************************************************)
EXTENDS Naturals, Sequences

CONSTANTS Name, Proc, Id

VARIABLES dir,   \* [Name -> Id or 0]: the file a name stands for
          data,  \* the contents of each file there is
          open,  \* [Proc -> Id or 0]: the file a process has open
          mode,  \* "mounted", "clean" (unmounted), "stale" or stopped
          faults \* how many block transfers have failed

avars == <<dir, data, open, mode, faults>>

(* The files some name or some process refers to; the others are gone. *)
Referred == ({dir[n] : n \in Name} \cup {open[p] : p \in Proc}) \ {0}

Overwrite(s, off, len) ==
  [n \in 1 .. (IF off + len > Len(s) THEN off + len ELSE Len(s)) |->
     IF n > off /\ n <= off + len THEN 1
     ELSE IF n <= Len(s) THEN s[n] ELSE 0]

Cut(s, len) == [n \in 1 .. len |-> IF n <= Len(s) THEN s[n] ELSE 0]

(* Changes of names. *)
Create(p, n) ==
  /\ dir[n] = 0 /\ open[p] = 0
  /\ \E x \in Id \ DOMAIN data :
       /\ dir' = [dir EXCEPT ![n] = x] /\ open' = [open EXCEPT ![p] = x]
       /\ data' = [y \in DOMAIN data \cup {x} |-> IF y = x THEN <<>> ELSE data[y]]

MakeLink(p, n) ==
  /\ open[p] # 0 /\ dir[n] = 0
  /\ dir' = [dir EXCEPT ![n] = open[p]] /\ UNCHANGED <<open, data>>

Delete(n) ==
  /\ dir[n] # 0 /\ dir' = [dir EXCEPT ![n] = 0]
  /\ UNCHANGED open /\ data' = [x \in Referred' |-> data[x]]

Move(n1, n2) ==
  /\ dir[n1] # 0 /\ dir[n2] = 0
  /\ dir' = [dir EXCEPT ![n1] = 0, ![n2] = dir[n1]] /\ UNCHANGED <<open, data>>

(* Changes of what is open. *)
Open(p, n) ==
  /\ dir[n] # 0 /\ open[p] = 0
  /\ open' = [open EXCEPT ![p] = dir[n]] /\ UNCHANGED data

Close(p) ==
  /\ open[p] # 0 /\ open' = [open EXCEPT ![p] = 0] /\ data' = [x \in Referred' |-> data[x]]

(* Changes of contents.  A write may be cut short, by a full volume or a   *)
(* block that cannot be read, and a truncation that meets such a block has *)
(* given up some of the contents and not the length.                       *)
Put(p, off, len) ==
  \E done \in 1 .. len :
    data' = [data EXCEPT ![open[p]] = Overwrite(@, off, done)]

SetLength(p, len) == data' = [data EXCEPT ![open[p]] = Cut(@, len)]

Fault(p) ==
  /\ faults' > faults
  /\ \E lost \in SUBSET DOMAIN data[open[p]] :
       data' = [data EXCEPT ![open[p]] =
                  [n \in DOMAIN @ |-> IF n \in lost THEN 0 ELSE @[n]]]

Mounted(Writes, Lengths) ==
  /\ mode = "mounted" /\ mode' = "mounted"
  /\ \/ /\ UNCHANGED <<open, dir>>
        /\ \/ UNCHANGED data
           \/ \E p \in Proc :
                /\ open[p] # 0
                /\ \/ Fault(p)
                   \/ \E w \in Writes : Put(p, w[1], w[2])
                   \/ \E len \in Lengths : SetLength(p, len)
     \/ /\ open' # open /\ UNCHANGED dir
        /\ \/ \E p \in Proc : Close(p)
           \/ \E p \in Proc, n \in Name : Open(p, n)
     \/ /\ dir' # dir
        /\ \/ \E p \in Proc, n \in Name : Create(p, n) \/ MakeLink(p, n)
           \/ \E n \in Name : Delete(n)
           \/ \E n1, n2 \in Name : Move(n1, n2)

(* Unmounting and mounting, and checking a volume in between. *)
Unmounted ==
  /\ mode # "crashed" /\ mode' # "crashed" /\ <<mode, mode'>> # <<"mounted", "mounted">>
  /\ mode' = "clean" => \A p \in Proc : open[p] = 0
  /\ UNCHANGED <<dir, data, open>>

(* The machine stops, and what a repair makes of the volume is another     *)
(* matter; or a block write is lost.                                       *)
Stopped == \/ mode = "mounted" /\ mode' \in {"crashed", "stale"}
           \/ mode = "crashed" /\ mode' # "mounted"
=============================================================================
