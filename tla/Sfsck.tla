------------------------------- MODULE Sfsck -------------------------------
(***************************************************************************)
(* The life of an SFS volume: mksfs makes it (userland/sbin/mksfs), the    *)
(* kernel uses it (Sfs), and sfsck (userland/sbin/sfsck) repairs it after  *)
(* the machine stopped.  sfsck runs while the volume is not mounted, so it *)
(* is one step from disk to disk.                                          *)
(***************************************************************************)
EXTENDS Sfs

DOT == "."
DOTDOT == ".."

(* mksfs: an empty root directory, and a map with only the fixed blocks. *)
mksfs == [b \in Blocks |->
            CASE b = ROOT -> [k |-> "inode", i |-> [BlankInode EXCEPT
                                                      !.type = "dir", !.links = 1]]
              [] b = FREEMAP -> [k |-> "map", m |-> {ROOT, FREEMAP}]
              [] OTHER -> Zero]

(***************************************************************************)
(* The checker's state: the disk, the blocks seen in use, the blocks to    *)
(* free, whether a block was seen twice, and whether anything was fixed or *)
(* could not be.                                                           *)
(***************************************************************************)
freemap_setup(d) == [disk |-> d, used |-> {FREEMAP}, tofree |-> {},
                     crossed |-> FALSE, fixed |-> FALSE, unfixed |-> FALSE]

freemap_blockinuse(f, b) ==
  [f EXCEPT !.used = @ \cup {b}, !.tofree = @ \ {b},
            !.crossed = @ \/ b \in f.used]

(* A block already seen in use is not freed. *)
freemap_blockfree(f, b) ==
  [f EXCEPT !.tofree = IF b \in f.used THEN @ ELSE @ \cup {b}, !.fixed = TRUE]

(* What an indirect block reads as.  The block may since have become       *)
(* something else (its file was cut short in memory only), and then its    *)
(* words are whatever they are: junk.                                      *)
Words(c, junk) == CASE c.k = "ind" -> c.e
                    [] c.k = "zero" -> [j \in 1 .. DBPERIDB |-> 0]
                    [] OTHER -> junk

(* One block pointer of a file: outside the volume, past the end of the    *)
(* file, or in use.                                                        *)
CheckPointer(f, b, inside) ==
  CASE b = 0 -> f
    [] b >= NBLOCKS -> [f EXCEPT !.fixed = TRUE]
    [] b \in Blocks /\ inside -> freemap_blockinuse(f, b)
    [] OTHER -> freemap_blockfree(f, b)

Kept(b, inside) == IF b \in Blocks /\ inside THEN b ELSE 0

(* An indirect block: its entries, and the block itself if none is left.   *)
(* It is written back even when nothing changed, which only fixes the junk. *)
IndirectKept(f, id, new) ==
  IF \A j \in 1 .. DBPERIDB : new[j] = 0
  THEN [f |-> freemap_blockfree(f, id), id |-> 0]
  ELSE [f |-> [f EXCEPT !.disk[id] = [k |-> "ind", e |-> new]], id |-> id]
CheckEntries(f, id, old, inside) ==
  IndirectKept(FoldLeft(LAMBDA a, j : CheckPointer(a, old[j], j \in inside),
                        freemap_blockinuse(f, id), [j \in 1 .. DBPERIDB |-> j]),
               id, [j \in 1 .. DBPERIDB |-> Kept(old[j], j \in inside)])
CheckWithin(f, id, inside, junk) ==
  IF id \notin Blocks THEN [f |-> [f EXCEPT !.fixed = TRUE], id |-> 0]
  ELSE CheckEntries(f, id, Words(f.disk[id], junk), inside)
(* Mutant: the last block of a file counts as past its end. *)
CheckIndirectOffByOne(f, id, fileblocks, junk) ==
  CheckWithin(f, id, {j \in 1 .. DBPERIDB : NDIRECT + j < fileblocks}, junk)
(* A pointer to an indirect block outside the volume is cleared. *)
check_indirect_block(f, id, fileblocks, junk) ==
  CheckWithin(f, id, {j \in 1 .. DBPERIDB : NDIRECT + j - 1 < fileblocks}, junk)

CheckDirect(f, i, fileblocks) ==
  FoldLeft(LAMBDA a, n : CheckPointer(a, i.direct[n], n <= fileblocks),
           f, [n \in 1 .. NDIRECT |-> n])
Checked(i, fileblocks, ind) ==
  [f |-> ind.f,
   i |-> [i EXCEPT !.direct = [n \in 1 .. NDIRECT |-> Kept(@[n], n <= fileblocks)],
                   !.indirect = ind.id]]
check_inode_blocks(f, i, fileblocks, junk) ==
  Checked(i, fileblocks,
          IF i.indirect = 0 THEN [f |-> CheckDirect(f, i, fileblocks), id |-> 0]
          ELSE check_indirect_block(CheckDirect(f, i, fileblocks), i.indirect,
                                    fileblocks, junk))

BlocksOf(i) == LET per == IF i.type = "dir" THEN DIRENTS ELSE BLOCKSIZE
               IN  (i.size + per - 1) \div per
SaveInode(r, i, ino) ==
  IF r.i = i THEN r.f ELSE [r.f EXCEPT !.disk[ino] = [k |-> "inode", i |-> r.i]]
pass1_inode(f, ino, junk) ==
  SaveInode(check_inode_blocks(freemap_blockinuse(f, ino), AsInode(f.disk[ino]),
                               BlocksOf(AsInode(f.disk[ino])), junk),
            AsInode(f.disk[ino]), ino)

(* The directory's slots, and those that name a file. *)
Listed(d) == Slots(d, AsInode(d[ROOT]))
Naming(S) == {e \in S : e[2].ino # 0 /\ e[2].name \notin {DOT, DOTDOT}}

(* sfs_writedir of sfsck: put the slots S back into the directory's blocks. *)
EntryAt(S, n) == IF \E e \in S : e[1] = n THEN (CHOOSE e \in S : e[1] = n)[2]
                 ELSE NoEntry
WriteDir(d, i, S) ==
  [b \in Blocks |->
     IF \E fb \in 0 .. BlocksOf(i) - 1 : BlockOf(d, i, fb) = b
     THEN LET fb == CHOOSE x \in 0 .. BlocksOf(i) - 1 : BlockOf(d, i, x) = b
          IN  [k |-> "dir",
               e |-> [j \in 1 .. DIRENTS |-> EntryAt(S, fb * DIRENTS + j - 1)]]
     ELSE d[b]]

(* The root directory, then every file it names once; an entry whose inode *)
(* was never written (a cleared block) is taken out.                       *)
Dead(d, S) ==
  {e \in Naming(S) : AsInode(d[e[2].ino]).type \notin {"file", "dir"}}
Blanked(S, T) == (S \ T) \cup {<<e[1], NoEntry>> : e \in T}
DropDead(f, S, dead) ==
  IF dead = {} THEN f
  ELSE [f EXCEPT !.fixed = TRUE,
                 !.disk = WriteDir(@, AsInode(@[ROOT]), Blanked(S, dead))]
Pass1Files(f, S, junk) ==
  FoldLeft(LAMBDA a, ino : pass1_inode(a, ino, junk), f,
           SetToSortSeq({e[2].ino : e \in Naming(S)}, LAMBDA a, b : a < b))
Pass1Dir(f, S, dead, junk) == DropDead(Pass1Files(f, S \ dead, junk), S, dead)
(* Mutant: entries whose inode was never written stay. *)
KeepDead(f, junk) == Pass1Dir(f, Listed(f.disk), {}, junk)
pass1_dir(f, junk) == Pass1Dir(f, Listed(f.disk), Dead(f.disk, Listed(f.disk)), junk)

pass1(f, junk) == pass1_dir(pass1_inode(f, ROOT, junk), junk)

freemap_check(f) ==
  [f EXCEPT !.disk[FREEMAP] = [k |-> "map", m |-> f.used],
            !.fixed = @ \/ f.disk[FREEMAP].m # f.used]

(* sfsdir_tryadd: the first free slot among the first max. *)
Has(S, name) == \E e \in S : e[2].ino # 0 /\ e[2].name = name
TryAdd(S, free, name) ==
  IF Has(S, name) \/ free = {} THEN S
  ELSE {e \in S : e[1] # MinOf(free)}
       \cup {<<MinOf(free), [ino |-> ROOT, name |-> name]>>}
AddDot(S, max, name) ==
  TryAdd(S, {n \in 0 .. max - 1 : EntryAt(S, n).ino = 0}, name)

(* A name that is there twice: one of the entries goes if they name the    *)
(* same file, and is given a name of sfsck's own otherwise.                *)
FSCKNAME(n) == <<"FSCK", n>>
Twins(S) == {e \in S : \E x \in S : /\ e[1] < x[1] /\ e[2].ino # 0 /\ x[2].ino # 0
                                       /\ e[2].name = x[2].name}
Same(S, e) == \E x \in S : e[1] < x[1] /\ e[2] = x[2]
Untwinned(S) ==
  {CASE e \notin Twins(S) -> e
     [] e \in Twins(S) /\ Same(S, e) -> <<e[1], NoEntry>>
     [] OTHER -> <<e[1], [ino |-> e[2].ino, name |-> FSCKNAME(e[1])]>> : e \in S}

(* The directory gets its "." and ".." if the last block has room, and the *)
(* link count two; it is written only if that changed it.                  *)
SaveEntries(d, root, S) == IF S = Listed(d) THEN d ELSE WriteDir(d, root, S)
SaveDir(f, root, i, S) ==
  [f EXCEPT !.unfixed = @ \/ ~Has(S, DOT) \/ ~Has(S, DOTDOT),
            !.fixed = @ \/ S # Listed(f.disk) \/ i # root,
            !.disk = IF i = root THEN SaveEntries(@, root, S)
                     ELSE [SaveEntries(@, root, S) EXCEPT
                             ![ROOT] = [k |-> "inode", i |-> i]]]
Pass2With(f, root, S) ==
  SaveDir(f, root, [root EXCEPT !.size = Cardinality(S), !.links = 2], S)
pass2(f) ==
  LET root == AsInode(f.disk[ROOT])
      max == BlocksOf(root) * DIRENTS
  IN  Pass2With(f, root,
                AddDot(AddDot(Untwinned(Listed(f.disk)), max, DOT), max, DOTDOT))

(* The link count of every file becomes the number of its names. *)
LinksIn(S, ino) == Cardinality({e \in Naming(S) : e[2].ino = ino})
SetLinks(f, S, wrong) ==
  [f EXCEPT !.fixed = @ \/ wrong # {},
            !.disk = [b \in Blocks |->
               IF b \in wrong
               THEN [k |-> "inode", i |-> [AsInode(@[b]) EXCEPT
                                             !.links = LinksIn(S, b)]]
               ELSE @[b]]]
WrongLinks(d, S) == {x \in {e[2].ino : e \in Naming(S)} :
                       AsInode(d[x]).links # LinksIn(S, x)}
inode_adjust_filelinks(f) ==
  SetLinks(f, Listed(f.disk), WrongLinks(f.disk, Listed(f.disk)))

sfsck(d, junk) ==
  inode_adjust_filelinks(pass2(freemap_check(pass1(freemap_setup(d), junk))))

Junk == [1 .. DBPERIDB -> 0 .. NBLOCKS]

(* The inode of a file as the kernel sees it. *)
Inode(ino) == IF ino \in DOMAIN vnodes THEN vnodes[ino].i ELSE AsInode(disk[ino])

DirSlots == Slots(disk, Inode(ROOT))
LinksTo(ino) == LinksIn(DirSlots, ino)
(* Every file there is: named in the directory, or open. *)
Live == ({ROOT} \cup DOMAIN vnodes \cup {e[2].ino : e \in DirSlots}) \ {0}

(* The claims files make on blocks: <<file, which pointer, block>>, -2 for *)
(* the inode itself and -1 for the indirect block.                         *)
ClaimsOf(x) ==
  LET i == Inode(x)
      ind == IF i.indirect = 0 THEN {}
             ELSE {<<x, NDIRECT + j, AsInd(disk[i.indirect])[j]>> : j \in 1 .. DBPERIDB}
  IN  {<<x, -2, x>>, <<x, -1, i.indirect>>} \cup ind
      \cup {<<x, n, i.direct[n]>> : n \in 1 .. NDIRECT}
Claims == {c \in UNION {ClaimsOf(x) : x \in Live} : c[3] # 0}
InUse == {c[3] : c \in Claims}
Map == IF mode = "mounted" THEN freemap ELSE disk[FREEMAP].m

(* sfsck, run on a volume that is not mounted.  A volume on which some     *)
(* block is claimed twice is given up ("crosslinked").                     *)
Repaired(f) ==
  /\ UNCHANGED <<freemap, mapdirty, vnodes, handle, panicked, crashes, faults,
                 lost, plan>>
  /\ disk' = f.disk
  /\ mode' = IF f.crossed THEN "crosslinked" ELSE "clean"
  /\ leaked' = f.used \ (InUse' \cup {FREEMAP})
Fsck ==
  /\ mode \in {"clean", "crashed"} /\ ~panicked
  /\ \E junk \in IF \E b \in Blocks : disk[b].k \in {"data", "inode", "dir"}
                                        /\ \E c \in Blocks : AsInode(disk[c]).indirect = b
                 THEN Junk ELSE {[j \in 1 .. DBPERIDB |-> 0]} :
       Repaired(sfsck(disk, junk))

Init ==
  /\ plan \in Plans /\ disk = mksfs /\ freemap = {} /\ mapdirty = FALSE /\ vnodes = <<>>
  /\ handle = [p \in Proc |-> Idle] /\ mode = "clean" /\ panicked = FALSE
  /\ crashes = 0 /\ faults = 0 /\ lost = {} /\ leaked = {}

Next ==
  \/ \E p \in Proc :
       \/ OpenDir(p) \/ Creat(p) \/ Lookup(p) \/ Link(p) \/ Unlink(p) \/ Rename(p)
       \/ Write(p) \/ Truncate(p) \/ Fsync(p) \/ CloseFile(p) \/ CloseDir(p)
       \/ Reclaim(p) \/ Sync(p)
  \/ Unmount \/ Mount \/ PowerOff \/ Fsck

Spec == Init /\ [][Next]_vars

(***************************************************************************)
(* Properties.                                                             *)
(***************************************************************************)
TypeOK ==
  /\ \A b \in Blocks : disk[b].k \in {"zero", "inode", "ind", "dir", "data", "map"}
  /\ freemap \subseteq Blocks /\ mapdirty \in BOOLEAN /\ panicked \in BOOLEAN
  /\ DOMAIN vnodes \subseteq Blocks
  /\ \A x \in DOMAIN vnodes : vnodes[x].ref \in Nat \ {0}
                              /\ vnodes[x].i.type \in {"file", "dir"}
  /\ handle \in [Proc -> [dir : BOOLEAN, file : 0 .. NBLOCKS - 1,
                          reclaim : 0 .. NBLOCKS - 1]]
  /\ mode \in {"mounted", "clean", "crashed", "stale", "crosslinked"}

(* No panic and no failed assertion: no mapped block is marked free, no    *)
(* directory entry leads to an inode that is not one or has no links, no   *)
(* name is entered twice, no block is freed twice, and an unmounted volume *)
(* has nothing left to write -- also on a volume that sfsck repaired after *)
(* the machine stopped between any two block writes, and when a block      *)
(* cannot be read.  Only an operation that lost a block write may panic (a *)
(* new inode whose block was not cleared).                                 *)
NeverPanics == panicked => mode = "stale"

Usable == mode \in {"mounted", "clean"}

(* No block belongs to two files, or twice to one, and every block of a    *)
(* file is marked in use, so that sfs_balloc cannot hand it out again.     *)
(* Nothing leaks: the blocks marked in use are those of the files, unless  *)
(* a block could not be read or sfsck dropped a block without freeing it.  *)
BlocksExact ==
  Usable => /\ InUse \subseteq Map
            /\ Cardinality(Claims) = Cardinality(InUse)
            /\ faults = 0 => Map = InUse \cup {FREEMAP} \cup leaked

LinkCounts ==
  Usable => \A x \in Live \ {ROOT} : Inode(x).links = LinksTo(x)
RefCounts ==
  mode \in {"mounted", "stale"} =>
    \A x \in DOMAIN vnodes :
      vnodes[x].ref =
        Cardinality({p \in Proc : handle[p].file = x})
        + Cardinality({p \in Proc : handle[p].reclaim = x})
        + (IF x = ROOT THEN Cardinality({p \in Proc : handle[p].dir}) ELSE 0)
        + (IF x \in lost THEN 1 ELSE 0)

(* A file's link count is the number of its names, and the references      *)
(* counted in a vnode are those that processes hold, so that a file goes   *)
(* with its last name and its last user, and not before.                   *)
CountsExact == LinkCounts /\ RefCounts

(* As long as no block write is lost, a vnode or map that is not marked    *)
(* dirty is on the disk as it is in memory, so that a sync which has       *)
(* nothing to write has lost nothing.                                      *)
CleanIsOnDisk ==
  mode = "mounted" =>
    /\ \A x \in DOMAIN vnodes : ~vnodes[x].dirty => AsInode(disk[x]) = vnodes[x].i
    /\ ~mapdirty => disk[FREEMAP].m = freemap

(* The contents of file x. *)
Contents(x) ==
  LET i == Inode(x) IN
  [n \in 1 .. i.size |->
     LET b == BlockOf(disk, i, (n - 1) \div BLOCKSIZE)
     IN  IF b = 0 THEN 0 ELSE AsData(disk[b])[((n - 1) % BLOCKSIZE) + 1]]

FileNamed(n) ==
  LET i == Inode(ROOT)
      S == {e \in {Entry(disk, i, m) : m \in 0 .. i.size - 1} : e.name = n}
  IN  IF S = {} THEN 0 ELSE (CHOOSE e \in S : TRUE).ino

OpenFiles == [p \in Proc |-> handle[p].file]
Files == [n \in Name |-> FileNamed(n)]
Data == [x \in ({FileNamed(n) : n \in Name} \cup {handle[p].file : p \in Proc}) \ {0} |->
           Contents(x)]

(* The file system that users are promised. *)
FS == INSTANCE FileSystem
        WITH Id <- 1 .. MaxBlocks - 1, dir <- Files, data <- Data, open <- OpenFiles

(* Every operation of the kernel, with its interleavings, allocations and  *)
(* deferred writes, changes names and contents as the abstract file system *)
(* says, and so does unmounting, sfsck on a volume in order, and mounting. *)
Implements ==
  [][FS!Stopped \/ FS!Unmounted \/ FS!Mounted(plan.writes, plan.lengths)]_vars

(* Repairing a volume loses no file: a name that leads to an inode before  *)
(* leads to the same one, of the same contents, afterwards.                *)
FsckKeepsFiles ==
  [][mode = "crashed" /\ mode' = "clean" =>
       \A n \in Name :
         LET x == Files[n] IN
         x # 0 /\ Inode(x).type = "file" /\
         (Inode(x).indirect # 0 => disk[Inode(x).indirect].k \in {"zero", "ind"})
           => Files'[n] = x /\ Contents(x)' = Contents(x)]_vars
=============================================================================
