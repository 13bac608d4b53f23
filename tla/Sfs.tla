-------------------------------- MODULE Sfs --------------------------------
(***************************************************************************)
(* The Simple File System (kern/fs/sfs): a volume of blocks, the copies of *)
(* inodes and of the free-block map that the kernel keeps in memory, and   *)
(* the operations of processes on the one directory and its files.         *)
(*                                                                         *)
(* Every operation runs under vfs_biglock, so two operations never         *)
(* interleave, and each is written as an operator from a state record to a *)
(* state record.  What does interleave: a process holds a reference to the *)
(* directory and to a file between its operations; VOP_DECREF decides      *)
(* outside the big lock that a vnode is to be reclaimed; and the machine   *)
(* can stop between any two block writes, which the record logs.           *)
(*                                                                         *)
(* A block is a tagged record: "zero" (cleared), "inode", "ind" (indirect  *)
(* block), "dir" (directory entries), "data" (BLOCKSIZE units of file      *)
(* contents) or "map" (the free-block map: the set of blocks in use).      *)
(* The superblock is never written by the kernel and has no variable.      *)
(***************************************************************************)
EXTENDS Integers, Sequences, FiniteSets, SequencesExt

CONSTANTS MaxBlocks, \* the size of the largest volume
          NDIRECT,   \* SFS_NDIRECT
          DBPERIDB,  \* SFS_DBPERIDB
          BLOCKSIZE, \* units of file data in a block
          DIRENTS,   \* directory entries in a block
          Name,      \* the file names processes use
          Proc,      \* processes
          Plans      \* the workloads, one of which is chosen at the start:
                     \*  [nblocks] the size of the volume (sb_nblocks),
                     \*  [procs, names] at work, [writes] their offsets and
                     \*  lengths, [lengths] files are truncated to, [syncs]
                     \*  whether they call fsync and sync, [crashes] and
                     \*  [faults] how often the machine stops and a block
                     \*  cannot be read or written

VARIABLES disk,     \* [blocks -> contents]
          freemap,  \* sfs_freemap: the blocks in use
          mapdirty, \* sfs_freemapdirty
          vnodes,   \* sfs_vnodes: inode number -> [i, dirty, ref]
          handle,   \* per process: the vnodes it holds and is reclaiming
          mode,     \* "mounted", "clean" (unmounted), "crashed", "stale" (a
                    \* block write was lost), "crosslinked"
          panicked, \* the kernel called panic or failed an assertion
          crashes, faults, \* how many there have been
          lost,     \* the vnodes whose reclaim failed
          leaked,   \* blocks sfsck dropped and yet left marked in use
          plan      \* the workload

vars == <<disk, freemap, mapdirty, vnodes, handle, mode, panicked, crashes,
          faults, lost, leaked, plan>>

ROOT == 1
FREEMAP == 2
NBLOCKS == plan.nblocks
Blocks == 1 .. NBLOCKS - 1
NoEntry == [ino |-> 0, name |-> ""]

Zero == [k |-> "zero"]
BlankInode == [type |-> "inval", size |-> 0, links |-> 0,
               direct |-> [n \in 1 .. NDIRECT |-> 0], indirect |-> 0]

(* What a reader makes of a block: a cleared block reads as an unused      *)
(* inode, as an indirect block without entries, or as zeros; any other     *)
(* contents are no inode.                                                  *)
AsInode(c) == CASE c.k = "inode" -> c.i
                [] c.k = "zero" -> BlankInode
                [] OTHER -> [BlankInode EXCEPT !.type = "none"]
AsInd(c) == IF c.k = "ind" THEN c.e ELSE [j \in 1 .. DBPERIDB |-> 0]
AsDir(c) == IF c.k = "dir" THEN c.e ELSE [j \in 1 .. DIRENTS |-> NoEntry]
AsData(c) == IF c.k = "data" THEN c.b ELSE [j \in 1 .. BLOCKSIZE |-> 0]

(* The disk block that holds block fb of the file with inode i, 0 if none. *)
BlockOf(d, i, fb) ==
  IF fb < NDIRECT THEN i.direct[fb + 1]
  ELSE IF fb < NDIRECT + DBPERIDB /\ i.indirect # 0
       THEN AsInd(d[i.indirect])[fb - NDIRECT + 1] ELSE 0

(***************************************************************************)
(* The state an operation works on.  err is the code it returns, ret what  *)
(* it hands back, log the block writes it made, io the transfers so far    *)
(* and fail the number of the one that fails (0: none).                    *)
(***************************************************************************)
Start(fail) ==
  [disk |-> disk, map |-> freemap, mapdirty |-> mapdirty, vn |-> vnodes,
   log |-> <<>>, io |-> 0, fail |-> fail, err |-> "OK", ret |-> 0,
   panic |-> FALSE, stale |-> FALSE, lost |-> lost]

Fails(s, code) == [s EXCEPT !.err = code]
Panic(s) == [s EXCEPT !.err = "PANIC", !.panic = TRUE]
Then(s, F(_)) == IF s.err = "OK" THEN F(s) ELSE s

(* sfs_rwblock gives EIO eleven tries.  A read is tried again in earnest   *)
(* and fails when all of them do.  A write is not: lhd_io moves the data   *)
(* out of the uio before it starts the disk, so that the second try finds  *)
(* nothing left to move and returns 0.  One failure and the write is lost, *)
(* with the caller told that it succeeded.                                 *)
sfs_rwblock(s) == [s EXCEPT !.io = @ + 1]
sfs_readblock(s) ==
  [sfs_rwblock(s) EXCEPT !.err = IF s.io + 1 = s.fail THEN "EIO" ELSE "OK"]
sfs_writeblock(s, b, c) ==
  IF s.io + 1 = s.fail THEN [sfs_rwblock(s) EXCEPT !.stale = TRUE]
  ELSE [sfs_rwblock(s) EXCEPT !.disk[b] = c, !.log = Append(@, <<b, c>>)]

MinOf(S) == CHOOSE x \in S : \A y \in S : x <= y

(* The block is marked, then cleared. *)
(* Mutant: the block is handed out as it was left by its last owner. *)
ClearNothing(s, b) ==
  [s EXCEPT !.map = @ \cup {b}, !.mapdirty = TRUE, !.ret = b]
sfs_clearblock(s, b) ==
  [sfs_writeblock([s EXCEPT !.map = @ \cup {b}, !.mapdirty = TRUE], b, Zero)
   EXCEPT !.ret = b]
sfs_balloc(s) == IF Blocks \subseteq s.map THEN Fails(s, "ENOSPC")
                 ELSE sfs_clearblock(s, MinOf(Blocks \ s.map))

(* Blocks that are freed must be in use (bitmap_unmark).  *)
(* Mutant: the map is not marked as changed. *)
BfreeForgets(s, B) ==
  IF B \subseteq s.map THEN [s EXCEPT !.map = @ \ B] ELSE Panic(s)
sfs_bfree(s, B) ==
  IF B \subseteq s.map THEN [s EXCEPT !.map = @ \ B, !.mapdirty = @ \/ B # {}]
  ELSE Panic(s)

(* Hand back block b of a file; a mapped block must be in use. *)
Mapped(s, b) == IF b # 0 /\ b \notin s.map THEN Panic(s)
                ELSE [s EXCEPT !.ret = b]

(* The indirect block of ino, allocated if there is none, read otherwise. *)
GetIndirect(s, ino) ==
  IF s.vn[ino].i.indirect # 0 THEN sfs_readblock(s)
  ELSE Then(sfs_balloc(s),
            LAMBDA t : [t EXCEPT !.vn[ino].i.indirect = t.ret,
                                 !.vn[ino].dirty = TRUE])

(* Entry j of the indirect block whose entries are e. *)
InIndirect(s, id, e, j, doalloc) ==
  IF e[j] # 0 \/ ~doalloc THEN Mapped(s, e[j])
  ELSE Then(sfs_balloc(s), LAMBDA t :
         sfs_writeblock(t, id, [k |-> "ind", e |-> [e EXCEPT ![j] = t.ret]]))

(* The disk block of block fb of vnode ino, allocated first if doalloc. *)
sfs_bmap(s, ino, fb, doalloc) ==
  LET i == s.vn[ino].i IN
  CASE fb >= NDIRECT + DBPERIDB -> Fails(s, "EFBIG")
    [] fb < NDIRECT /\ (BlockOf(s.disk, i, fb) # 0 \/ ~doalloc) ->
         Mapped(s, BlockOf(s.disk, i, fb))
    [] fb < NDIRECT /\ BlockOf(s.disk, i, fb) = 0 /\ doalloc ->
         Then(sfs_balloc(s),
              LAMBDA t : [t EXCEPT !.vn[ino].i.direct[fb + 1] = t.ret,
                                   !.vn[ino].dirty = TRUE])
    [] fb \in NDIRECT .. NDIRECT + DBPERIDB - 1 /\ i.indirect = 0 /\ ~doalloc ->
         [s EXCEPT !.ret = 0]
    [] OTHER ->
         Then(GetIndirect(s, ino), LAMBDA t :
           InIndirect(t, t.vn[ino].i.indirect,
                      AsInd(IF i.indirect = 0 THEN Zero ELSE t.disk[i.indirect]),
                      fb - NDIRECT + 1, doalloc))

DivRoundUp(n) == (n + BLOCKSIZE - 1) \div BLOCKSIZE

(* Give up the direct blocks past a length in blocks. *)
TruncDirect(s, ino, past) ==
  IF past = {} THEN s
  ELSE [sfs_bfree(s, {s.vn[ino].i.direct[n] : n \in past})
        EXCEPT !.vn[ino].i.direct =
                 [n \in 1 .. NDIRECT |-> IF n \in past THEN 0 ELSE @[n]],
               !.vn[ino].dirty = TRUE]

(* The indirect block id, with entries old, keeps the entries new. *)
TruncIndirect(s, ino, id, old, new) ==
  IF \A j \in 1 .. DBPERIDB : new[j] = 0
  THEN [sfs_bfree(s, ({old[j] : j \in 1 .. DBPERIDB} \ {0}) \cup {id})
        EXCEPT !.vn[ino].i.indirect = 0, !.vn[ino].dirty = TRUE]
  ELSE IF new # old
       THEN sfs_writeblock(sfs_bfree(s, {old[j] : j \in {k \in 1 .. DBPERIDB :
                                                         old[k] # new[k]}}),
                           id, [k |-> "ind", e |-> new])
       ELSE s

(* Give up the blocks past length len.  An entry of the indirect block goes *)
(* only when its block number is above the length in blocks, and the       *)
(* indirect block is looked at only when the length is below its last block.*)
TruncBlocks(s, ino, id, blocklen) ==
  IF id # 0 /\ blocklen < NDIRECT + DBPERIDB - 1
  THEN Then(sfs_readblock(s), LAMBDA t :
         TruncIndirect(t, ino, id, AsInd(t.disk[id]),
           [j \in 1 .. DBPERIDB |-> IF blocklen < NDIRECT + j - 1 THEN 0
                                    ELSE AsInd(t.disk[id])[j]]))
  ELSE s

(* Mutant: only the size changes, the blocks stay. *)
ItruncSizeOnly(s, ino, len) ==
  [s EXCEPT !.vn[ino].i.size = len, !.vn[ino].dirty = TRUE]
sfs_itrunc(s, ino, len) ==
  Then(TruncBlocks(TruncDirect(s, ino, {n \in 1 .. NDIRECT : n > DivRoundUp(len) /\
                                          s.vn[ino].i.direct[n] # 0}),
                   ino, s.vn[ino].i.indirect, DivRoundUp(len)),
       LAMBDA t : [t EXCEPT !.vn[ino].i.size = len, !.vn[ino].dirty = TRUE])

(***************************************************************************)
(* Vnodes.                                                                 *)
(***************************************************************************)
sfs_sync_inode(s, ino) ==
  IF ~s.vn[ino].dirty THEN s
  ELSE [sfs_writeblock(s, ino, [k |-> "inode", i |-> s.vn[ino].i])
        EXCEPT !.vn[ino].dirty = FALSE]

(* The last reference was dropped: erase the file if nothing on disk names *)
(* it, write the inode, drop the vnode.  If a read fails on the way the     *)
(* vnode stays in the table with its count of one ("lost").                *)
Reclaimed(s, ino) ==
  IF s.err = "OK"
  THEN [s EXCEPT !.vn = [x \in DOMAIN s.vn \ {ino} |-> s.vn[x]]]
  ELSE [s EXCEPT !.lost = @ \cup {ino}]
EraseIfUnnamed(s, ino) ==
  IF s.vn[ino].i.links # 0 THEN sfs_sync_inode(s, ino)
  ELSE Then(Then(sfs_itrunc(s, ino, 0), LAMBDA t : sfs_sync_inode(t, ino)),
            LAMBDA t : sfs_bfree(t, {ino}))
sfs_reclaim(s, ino) ==
  IF s.vn[ino].ref # 1 THEN [s EXCEPT !.vn[ino].ref = @ - 1]
  ELSE Reclaimed(EraseIfUnnamed(s, ino), ino)

(* VOP_DECREF inside an operation; it returns nothing. *)
Keeping(s, err) == [s EXCEPT !.err = err]
vnode_decref(s, ino) ==
  IF s.vn[ino].ref > 1 THEN [s EXCEPT !.vn[ino].ref = @ - 1]
  ELSE Keeping(sfs_reclaim([s EXCEPT !.err = "OK"], ino), s.err)

(* A vnode for the inode i that was read; a new object (forcetype) must be *)
(* in a cleared block, and any other be a file or a directory.             *)
Load(s, ino, i, forcetype) ==
  IF IF forcetype = "inval" THEN i.type \notin {"file", "dir"} ELSE i.type # "inval"
  THEN Panic(s)
  ELSE [s EXCEPT !.ret = ino,
                 !.vn = [x \in DOMAIN s.vn \cup {ino} |->
                           CASE x # ino -> s.vn[x]
                             [] x = ino /\ forcetype = "inval" ->
                                  [i |-> i, ref |-> 1, dirty |-> FALSE]
                             [] OTHER -> [i |-> [i EXCEPT !.type = forcetype],
                                          ref |-> 1, dirty |-> TRUE]]]
sfs_loadvnode(s, ino, forcetype) ==
  CASE ~(DOMAIN s.vn \subseteq s.map) -> Panic(s)
    [] DOMAIN s.vn \subseteq s.map /\ ino \in DOMAIN s.vn ->
         IF forcetype # "inval" THEN Panic(s)
         ELSE [s EXCEPT !.vn[ino].ref = @ + 1, !.ret = ino]
    [] DOMAIN s.vn \subseteq s.map /\ ino \notin s.map -> Panic(s)
    [] OTHER -> Then(sfs_readblock(s),
                     LAMBDA t : Load(t, ino, AsInode(t.disk[ino]), forcetype))

(* The block of a new object is given back if it cannot be loaded. *)
sfs_makeobj(s) ==
  Then(sfs_balloc(s), LAMBDA t :
    LET u == sfs_loadvnode(t, t.ret, "file")
    IN  IF u.err = "OK" THEN u ELSE Keeping(sfs_bfree(u, {t.ret}), u.err))

sfs_getroot(s) == sfs_loadvnode(s, ROOT, "inval")

(***************************************************************************)
(* The directory: a file of entries, written through to the disk.          *)
(***************************************************************************)
Entry(d, i, slot) ==
  LET b == BlockOf(d, i, slot \div DIRENTS)
  IN  IF b = 0 THEN NoEntry ELSE AsDir(d[b])[(slot % DIRENTS) + 1]

Slots(d, i) == {<<n, Entry(d, i, n)>> : n \in 0 .. i.size - 1}
RootSlots(s) == Slots(s.disk, s.vn[ROOT].i)

(* The slots that hold a name, and the slot a search reports as empty: the *)
(* last one, or the end.                                                   *)
SlotsOf(s, name) == {e[1] : e \in {x \in RootSlots(s) : x[2].ino # 0
                                                         /\ x[2].name = name}}
SlotOf(s, name) == MinOf(SlotsOf(s, name))
LastOr(S, end) == IF S = {} THEN end ELSE CHOOSE x \in S : \A y \in S : y <= x
EmptySlot(s) == LastOr({e[1] : e \in {x \in RootSlots(s) : x[2].ino = 0}},
                       s.vn[ROOT].i.size)

(* The search reads every slot, so every directory block must be in use,   *)
(* and asserts that no name is there twice.  One of the reads may fail.    *)
DirBlocks(d, i) == {BlockOf(d, i, n \div DIRENTS) : n \in 0 .. i.size - 1} \ {0}
FindAmong(s, hits) ==
  CASE Cardinality(hits) > 1 -> Panic(s)
    [] hits = {} -> Fails(s, "ENOENT")
    [] OTHER -> [s EXCEPT !.ret = Entry(s.disk, s.vn[ROOT].i, MinOf(hits)).ino]
sfs_dir_findname(s, name) ==
  CASE DirBlocks(s.disk, s.vn[ROOT].i) = {} -> FindAmong(s, {})
    [] ~(DirBlocks(s.disk, s.vn[ROOT].i) \subseteq s.map) -> Panic(s)
    [] OTHER -> Then(sfs_readblock(s), LAMBDA t : FindAmong(t, SlotsOf(t, name)))

(* Directory contents are written through, the block allocated if needed   *)
(* and read before it is changed.                                          *)
sfs_metaio(s, slot, entry) ==
  LET Put(t, b) ==
        Then(sfs_readblock(t), LAMBDA u :
          sfs_writeblock(u, b, [k |-> "dir",
            e |-> [AsDir(u.disk[b]) EXCEPT ![(slot % DIRENTS) + 1] = entry]]))
      Grow(t) == IF slot < t.vn[ROOT].i.size THEN t
                 ELSE [t EXCEPT !.vn[ROOT].i.size = slot + 1,
                                !.vn[ROOT].dirty = TRUE]
  IN  Then(Then(sfs_bmap(s, ROOT, slot \div DIRENTS, TRUE),
                LAMBDA t : Put(t, t.ret)), Grow)

sfs_writedir(s, slot, entry) == sfs_metaio(s, slot, entry)

LinkUnless(found, name, ino) ==
  CASE found.err = "OK" -> Fails(found, "EEXIST")
    [] found.err = "ENOENT" ->
         sfs_writedir([found EXCEPT !.err = "OK"], EmptySlot(found),
                      [ino |-> ino, name |-> name])
    [] OTHER -> found
sfs_dir_link(s, name, ino) == LinkUnless(sfs_dir_findname(s, name), name, ino)

sfs_dir_unlink(s, slot) == sfs_writedir(s, slot, NoEntry)

sfs_lookonce(s, name) ==
  Then(Then(sfs_dir_findname(s, name),
            LAMBDA t : sfs_loadvnode(t, t.ret, "inval")),
       LAMBDA t : IF t.vn[t.ret].i.links = 0 THEN Panic(t) ELSE t)

AddLinks(s, ino, n) == [s EXCEPT !.vn[ino].i.links = @ + n,
                                 !.vn[ino].dirty = TRUE]

(***************************************************************************)
(* The vnode operations.                                                   *)
(***************************************************************************)
Entered(s, ino) == IF s.err # "OK" THEN vnode_decref(s, ino)
                   ELSE [AddLinks(s, ino, 1) EXCEPT !.ret = ino]
CreatUnless(found, name, excl) ==
  CASE found.err = "OK" /\ excl -> Fails(found, "EEXIST")
    [] found.err = "OK" /\ ~excl -> sfs_loadvnode(found, found.ret, "inval")
    [] found.err = "ENOENT" ->
         Then(sfs_makeobj([found EXCEPT !.err = "OK"]),
              LAMBDA t : Entered(sfs_dir_link(t, name, t.ret), t.ret))
    [] OTHER -> found
sfs_creat(s, name, excl) == CreatUnless(sfs_dir_findname(s, name), name, excl)

sfs_link(s, name, ino) ==
  IF s.vn[ino].i.type = "dir" THEN Fails(s, "EINVAL")
  ELSE Then(sfs_dir_link(s, name, ino), LAMBDA t : AddLinks(t, ino, 1))

sfs_remove(s, name) ==
  Then(sfs_lookonce(s, name), LAMBDA t :
    vnode_decref(Then(sfs_dir_unlink(t, SlotOf(t, name)),
                      LAMBDA u : AddLinks(u, t.ret, -1)), t.ret))

(* The entry of the new name is made first; if the old one cannot be taken *)
(* out, the new one must be, or the kernel panics.                         *)
Undone(s, ino, err) == IF s.err # "OK" THEN Panic(s)
                       ELSE [s EXCEPT !.vn[ino].i.links = @ - 1, !.err = err]
Moved(s, ino, slot2) ==
  IF s.err = "OK" THEN AddLinks(s, ino, -1)
  ELSE Undone(sfs_dir_unlink([s EXCEPT !.err = "OK"], slot2), ino, s.err)
RenameVnode(s, ino, n1, n2) ==
  IF s.vn[ino].i.type # "file" THEN Panic(s)
  ELSE vnode_decref(
         Then(sfs_dir_link(s, n2, ino), LAMBDA u :
           Moved(sfs_dir_unlink(AddLinks(u, ino, 1), SlotOf(s, n1)), ino,
                 EmptySlot(s))), ino)
(* Mutant: the vnode that the lookup returned is not given back when the   *)
(* new name exists.                                                        *)
RenameKeepsReference(s, n1, n2) ==
  Then(sfs_lookonce(s, n1), LAMBDA t :
    Then(sfs_dir_link(t, n2, t.ret), LAMBDA u :
      vnode_decref(sfs_dir_unlink(u, SlotOf(t, n1)), t.ret)))
sfs_rename(s, n1, n2) ==
  Then(sfs_lookonce(s, n1), LAMBDA t : RenameVnode(t, t.ret, n1, n2))

(* sfs_partialio and sfs_blockio: the part [lo, hi) of a write that falls  *)
(* into block fb, which is read first unless it is written whole.  a.pos   *)
(* is how far the transfer got.                                            *)
Written(s, b, fb, lo, hi) ==
  Then(IF hi - lo < BLOCKSIZE THEN sfs_readblock(s) ELSE s, LAMBDA t :
    sfs_writeblock(t, b, [k |-> "data",
      b |-> [j \in 1 .. BLOCKSIZE |->
               IF fb * BLOCKSIZE + j \in lo + 1 .. hi THEN 1
               ELSE AsData(t.disk[b])[j]]]))
Advanced(s, pos, hi) == [s |-> s, pos |-> IF s.err = "OK" THEN hi ELSE pos]
BlockAt(a, m, fb, lo, hi) ==
  IF m.err # "OK" THEN [a EXCEPT !.s = m]
  ELSE Advanced(Written(m, m.ret, fb, lo, hi), a.pos, hi)
BlockTransfer(a, ino, fb, lo, hi) ==
  BlockAt(a, sfs_bmap(a.s, ino, fb, TRUE), fb, lo, hi)

(* A write of ones: block by block, stopping at the first error.           *)
Extended(a, ino, off) ==
  IF a.pos # off /\ a.pos > a.s.vn[ino].i.size
  THEN [a.s EXCEPT !.vn[ino].i.size = a.pos, !.vn[ino].dirty = TRUE]
  ELSE a.s
sfs_io(s, ino, off, len) ==
  Extended(FoldLeft(LAMBDA a, fb :
                      IF a.s.err # "OK" THEN a
                      ELSE BlockTransfer(a, ino, fb, Max({fb * BLOCKSIZE, off}),
                                         Min({(fb + 1) * BLOCKSIZE, off + len})),
                    [s |-> s, pos |-> off],
                    [n \in 1 .. (off + len - 1) \div BLOCKSIZE - off \div BLOCKSIZE + 1 |->
                       off \div BLOCKSIZE + n - 1]), ino, off)

sfs_sync_vnodes(s) ==
  FoldLeft(LAMBDA t, ino : sfs_sync_inode(t, ino), s,
           SetToSortSeq(DOMAIN s.vn, LAMBDA a, b : a < b))

sfs_sync_freemap(s) ==
  IF ~s.mapdirty THEN s
  ELSE [sfs_writeblock(s, FREEMAP, [k |-> "map", m |-> s.map])
        EXCEPT !.mapdirty = FALSE]

sfs_sync(s) == sfs_sync_freemap(sfs_sync_vnodes(s))

(***************************************************************************)
(* The state machine.  A process names files through the directory vnode   *)
(* that vfs_lookparent gave it (dir) and keeps one file open (file).  An   *)
(* operation either completes or is cut short by the machine stopping      *)
(* after some of its block writes.  One that lost a write completes too,   *)
(* and leaves the volume "stale": what is read back later is not what was  *)
(* written, and the volume is followed no further.                         *)
(***************************************************************************)
MaxIO == 16   \* more transfers than any operation of the instances makes

Idle == [dir |-> FALSE, file |-> 0, reclaim |-> 0]

(* All that was in memory is gone. *)
Down(m) == /\ freemap' = {} /\ mapdirty' = FALSE /\ vnodes' = <<>>
           /\ handle' = [p \in Proc |-> Idle] /\ mode' = m /\ lost' = {}

StopDuring(t) ==
  /\ crashes < plan.crashes /\ ~t.stale
  /\ \E k \in 1 .. Len(t.log) - 1 :
       disk' = FoldLeft(LAMBDA d, w : [d EXCEPT ![w[1]] = w[2]], disk,
                        SubSeq(t.log, 1, k))
  /\ Down("crashed")
  /\ crashes' = crashes + 1 /\ UNCHANGED <<panicked, faults, leaked, plan>>

Complete(t) ==
  /\ disk' = t.disk /\ freemap' = t.map /\ mapdirty' = t.mapdirty
  /\ vnodes' = t.vn /\ panicked' = (panicked \/ t.panic) /\ lost' = t.lost
  /\ faults' = IF t.fail = 0 THEN faults ELSE faults + 1
  /\ mode' = IF t.stale THEN "stale" ELSE mode
  /\ UNCHANGED <<crashes, leaked, plan>>

Failing == IF faults < plan.faults THEN 0 .. MaxIO ELSE {0}
Finish(t, f, p, H(_)) ==
  /\ t.io >= f
  /\ \/ Complete(t) /\ handle' = [handle EXCEPT ![p] = H(t)]
     \/ StopDuring(t)
Run(Op(_), p, H(_)) ==
  \E f \in Failing : Finish(Op(Start(f)), f, p, H)

Ready(p) == /\ p \in plan.procs
            /\ mode = "mounted" /\ ~panicked /\ handle[p].reclaim = 0

OpenDir(p) ==
  /\ Ready(p) /\ ~handle[p].dir
  /\ Run(sfs_getroot, p, LAMBDA t : [handle[p] EXCEPT !.dir = (t.err = "OK")])

Opened(p, t) ==
  IF t.err = "OK" THEN [handle[p] EXCEPT !.file = t.ret] ELSE handle[p]

Creat(p) ==
  /\ Ready(p) /\ handle[p].dir /\ handle[p].file = 0
  /\ \E n \in plan.names, excl \in BOOLEAN :
       Run(LAMBDA s : sfs_creat(s, n, excl), p, LAMBDA t : Opened(p, t))

Lookup(p) ==
  /\ Ready(p) /\ handle[p].dir /\ handle[p].file = 0
  /\ \E n \in plan.names :
       Run(LAMBDA s : sfs_lookonce(s, n), p, LAMBDA t : Opened(p, t))

Link(p) ==
  /\ Ready(p) /\ handle[p].dir /\ handle[p].file # 0
  /\ \E n \in plan.names :
       Run(LAMBDA s : sfs_link(s, n, handle[p].file), p, LAMBDA t : handle[p])

Unlink(p) ==
  /\ Ready(p) /\ handle[p].dir
  /\ \E n \in plan.names : Run(LAMBDA s : sfs_remove(s, n), p, LAMBDA t : handle[p])

Rename(p) ==
  /\ Ready(p) /\ handle[p].dir
  /\ \E n1, n2 \in plan.names :
       Run(LAMBDA s : sfs_rename(s, n1, n2), p, LAMBDA t : handle[p])

Write(p) ==
  /\ Ready(p) /\ handle[p].file # 0
  /\ \E w \in plan.writes :
       Run(LAMBDA s : sfs_io(s, handle[p].file, w[1], w[2]), p,
           LAMBDA t : handle[p])

Truncate(p) ==
  /\ Ready(p) /\ handle[p].file # 0
  /\ \E len \in plan.lengths :
       Run(LAMBDA s : sfs_itrunc(s, handle[p].file, len), p,
           LAMBDA t : handle[p])

Fsync(p) ==
  /\ Ready(p) /\ handle[p].file # 0 /\ plan.syncs
  /\ Run(LAMBDA s : sfs_sync_inode(s, handle[p].file), p, LAMBDA t : handle[p])

(* VOP_DECREF outside the big lock: the count goes down, or the vnode is   *)
(* left to VOP_RECLAIM with its last reference.                            *)
DecRef(p, ino, h) ==
  /\ IF vnodes[ino].ref > 1
     THEN /\ vnodes' = [vnodes EXCEPT ![ino].ref = @ - 1]
          /\ handle' = [handle EXCEPT ![p] = h]
     ELSE /\ handle' = [handle EXCEPT ![p] = [h EXCEPT !.reclaim = ino]]
          /\ UNCHANGED vnodes
  /\ UNCHANGED <<disk, freemap, mapdirty, mode, panicked, crashes, faults, lost,
                 leaked, plan>>

CloseFile(p) == /\ Ready(p) /\ handle[p].file # 0
                /\ DecRef(p, handle[p].file, [handle[p] EXCEPT !.file = 0])
CloseDir(p) == /\ Ready(p) /\ handle[p].dir
               /\ DecRef(p, ROOT, [handle[p] EXCEPT !.dir = FALSE])

Reclaim(p) ==
  /\ mode = "mounted" /\ ~panicked /\ handle[p].reclaim # 0
  /\ Run(LAMBDA s : sfs_reclaim(s, handle[p].reclaim), p,
         LAMBDA t : [handle[p] EXCEPT !.reclaim = 0])

Sync(p) ==
  /\ Ready(p) /\ plan.syncs
  /\ Run(sfs_sync, p, LAMBDA t : handle[p])

(* vfs_unmount: sync, then sfs_unmount, which refuses while vnodes are     *)
(* loaded (EBUSY) and asserts that the map is clean.                       *)
Unmounted(t) ==
  IF DOMAIN t.vn # {} THEN Complete(t) /\ UNCHANGED handle
  ELSE /\ disk' = t.disk /\ Down(IF t.stale THEN "stale" ELSE "clean")
       /\ panicked' = t.mapdirty
       /\ faults' = IF t.fail = 0 THEN faults ELSE faults + 1
       /\ UNCHANGED <<crashes, leaked, plan>>
Unmount ==
  /\ mode = "mounted" /\ ~panicked /\ (plan.syncs \/ DOMAIN vnodes = {})
  /\ \E f \in Failing : LET t == sfs_sync(Start(f)) IN t.io >= f /\ Unmounted(t)

(* sfs_domount reads the free-block map; a read that fails is a mount that *)
(* did not happen.                                                         *)
Mount ==
  /\ mode = "clean"
  /\ freemap' = disk[FREEMAP].m /\ mode' = "mounted"
  /\ UNCHANGED <<disk, mapdirty, vnodes, handle, panicked, crashes, faults, lost,
                 leaked, plan>>

PowerOff ==
  /\ mode = "mounted" /\ crashes < plan.crashes
  /\ Down("crashed")
  /\ crashes' = crashes + 1 /\ UNCHANGED <<disk, panicked, faults, leaked, plan>>
=============================================================================
