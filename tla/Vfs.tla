-------------------------------- MODULE Vfs --------------------------------
(***************************************************************************)
(* The VFS layer: the table of named devices and the file systems mounted  *)
(* on them (kern/vfs/vfslist.c), path translation (vfslookup.c), current   *)
(* directories (vfscwd.c), the path operations (vfspath.c) and device      *)
(* vnodes (device.c).                                                      *)
(*                                                                         *)
(* A file system is known by its device and by which mount of it this is;  *)
(* it has a root directory, and "file" stands for everything below it.  A  *)
(* path is where it starts (a device name, "/" the boot file system, ":"   *)
(* the root of the current one, "" the current directory) and whether      *)
(* anything follows.  Each lookup is under vfs_biglock; what an operation  *)
(* does between its lookups and after them is not.                         *)
(***************************************************************************)
EXTENDS Naturals, Sequences, FiniteSets

CONSTANTS Proc,
          Devices,     \* [device name -> [raw, fs : BOOLEAN, vol]]: mountable?
                       \* a file system from the start?  volume name or "none"
          MaxMounts, MaxOps

VARIABLES knowndevs,    \* the devices added so far, in order
          kd_fs,        \* [device -> which mount, 0 (none), or SWAP_FS]
          mounts,       \* [device -> how often it has been mounted]
          vn_refcount,  \* [vnode -> references]
          p_cwd,        \* [Proc -> vnode or Nil]
          bootfs_vnode,
          open,         \* [Proc -> vnode or Nil]: what a process has open
          op, tmp,      \* [Proc -> operation in progress, vnodes it holds]
          swapvnodes,   \* [device -> vnodes vfs_swapon has handed out]
          ops, mixed

vars == <<knowndevs, kd_fs, mounts, vn_refcount, p_cwd, bootfs_vnode, open, op, tmp,
          swapvnodes, ops, mixed>>
rest == <<p_cwd, bootfs_vnode, open, op, tmp, ops, mixed>>
table == <<knowndevs, kd_fs, mounts, swapvnodes>>

Dev == DOMAIN Devices
SWAP_FS == MaxMounts + 1
Nil == [d |-> "none", m |-> 0, k |-> "nil"]
RawName(d) == d \o "raw"
Vnode == [d : Dev, m : {0}, k : {"dev"}] \cup [d : Dev, m : 1 .. MaxMounts, k : {"root", "file"}]
Root(d) == [d |-> d, m |-> kd_fs[d], k |-> "root"]
HasFs(d) == kd_fs[d] \notin {0, SWAP_FS}
FsOf(v) == IF v.k = "dev" THEN Nil ELSE [v EXCEPT !.k = "fs"]

(* References held by the operations in progress, and in general. *)
InFlight(v, p) == Cardinality({i \in DOMAIN tmp[p] : tmp[p][i] = v})
One(b) == IF b THEN 1 ELSE 0
RECURSIVE SumOver(_, _)
SumOver(S, v) == IF S = {} THEN 0
  ELSE LET p == CHOOSE p \in S : TRUE
       IN  InFlight(v, p) + One(p_cwd[p] = v) + One(open[p] = v) + SumOver(S \ {p}, v)

Init ==
  /\ knowndevs = <<>> /\ kd_fs = [d \in Dev |-> 0] /\ mounts = [d \in Dev |-> 0]
  /\ swapvnodes = [d \in Dev |-> 0]
  /\ vn_refcount = [v \in Vnode |-> 0]
  /\ p_cwd = [p \in Proc |-> Nil] /\ bootfs_vnode = Nil /\ open = [p \in Proc |-> Nil]
  /\ op = [p \in Proc |-> "none"] /\ tmp = [p \in Proc |-> <<>>]
  /\ ops = 0 /\ mixed = FALSE

Known == {knowndevs[i] : i \in DOMAIN knowndevs}
Volume(d) == IF HasFs(d) THEN Devices[d].vol ELSE "none"

(***************************************************************************)
(* Adding devices, while the machine is being configured: no name may be   *)
(* in use already.                                                         *)
(***************************************************************************)
NamesOf(d) == {d, Volume(d)} \cup (IF Devices[d].raw THEN {RawName(d)} ELSE {})
(* Mutant: only the names of the devices themselves are compared. *)
BadnamesDevice(d) == d \in Known

badnames(d) ==
  LET mine == {d, IF Devices[d].fs THEN Devices[d].vol ELSE "none"}
              \cup (IF Devices[d].raw THEN {RawName(d)} ELSE {})
  IN  \E e \in Known : (mine \cap NamesOf(e)) \ {"none"} # {}

vfs_doadd(d) ==
  /\ ops = 0 /\ \A e \in Dev : Devices[e].raw => mounts[e] = 0
  /\ d \notin Known /\ ~badnames(d)
  /\ knowndevs' = Append(knowndevs, d)
  /\ kd_fs' = [kd_fs EXCEPT ![d] = One(Devices[d].fs)]
  /\ mounts' = [mounts EXCEPT ![d] = One(Devices[d].fs)]
  /\ vn_refcount' = [vn_refcount EXCEPT ![[d |-> d, m |-> 0, k |-> "dev"]] = 1]
  /\ UNCHANGED <<swapvnodes, rest>>

(***************************************************************************)
(* Mounting and unmounting.                                                *)
(***************************************************************************)
findmount(d) == d \in Known /\ Devices[d].raw

vfs_mount(d) ==
  /\ findmount(d) /\ kd_fs[d] = 0 /\ mounts[d] < MaxMounts
  /\ mounts' = [mounts EXCEPT ![d] = @ + 1] /\ kd_fs' = [kd_fs EXCEPT ![d] = mounts[d] + 1]
  /\ UNCHANGED <<knowndevs, swapvnodes, vn_refcount, rest>>

vfs_swapon(d) ==
  /\ findmount(d) /\ kd_fs[d] = 0 /\ kd_fs' = [kd_fs EXCEPT ![d] = SWAP_FS]
  /\ ops < MaxOps /\ ops' = ops + 1
  /\ vn_refcount' = [vn_refcount EXCEPT ![[d |-> d, m |-> 0, k |-> "dev"]] = @ + 1]
  /\ swapvnodes' = [swapvnodes EXCEPT ![d] = @ + 1]
  /\ UNCHANGED <<knowndevs, mounts, p_cwd, bootfs_vnode, open, op, tmp, mixed>>

(* Neither this nor vfs_unmountall touches the vnode handed out. *)
vfs_swapoff(d) ==
  /\ findmount(d) /\ kd_fs[d] = SWAP_FS /\ kd_fs' = [kd_fs EXCEPT ![d] = 0]
  /\ UNCHANGED <<knowndevs, mounts, swapvnodes, vn_refcount, rest>>

(* FSOP_UNMOUNT refuses while there are vnodes of the file system. *)
Busy(d) == \E v \in Vnode : v.d = d /\ v.k # "dev" /\ vn_refcount[v] > 0

(* Mutant: FSOP_UNMOUNT's answer is not looked at. *)
UnmountAnyway(d) ==
  /\ findmount(d) /\ HasFs(d) /\ kd_fs' = [kd_fs EXCEPT ![d] = 0]
  /\ UNCHANGED <<knowndevs, mounts, swapvnodes, vn_refcount, rest>>
vfs_unmount(d) ==
  /\ findmount(d) /\ HasFs(d) /\ ~Busy(d) /\ kd_fs' = [kd_fs EXCEPT ![d] = 0]
  /\ UNCHANGED <<knowndevs, mounts, swapvnodes, vn_refcount, rest>>

(* Every mountable device: swap is dropped, a file system whose sync fails *)
(* twice (failing) or that is busy stays.                                  *)
vfs_unmountall ==
  \E failing \in SUBSET {d \in Known : HasFs(d)} :
    /\ kd_fs' = [d \in Dev |->
         IF ~findmount(d) \/ (HasFs(d) /\ (Busy(d) \/ d \in failing)) THEN kd_fs[d] ELSE 0]
    /\ kd_fs' # kd_fs
    /\ UNCHANGED <<knowndevs, mounts, swapvnodes, vn_refcount, rest>>

(***************************************************************************)
(* Path translation.  A lookup gives the set of the vnodes some path leads *)
(* a process to; an operation whose lookup fails has no effect.            *)
(***************************************************************************)
Names == Dev \cup {RawName(d) : d \in Dev} \cup {Devices[d].vol : d \in Dev}

(* What one entry of the table says to a name: a vnode, an error, or       *)
(* nothing (the search goes on).                                           *)
Match(d, n) ==
  IF HasFs(d) /\ n \in {d, Volume(d)} \ {"none"} THEN <<Root(d)>>
  ELSE IF ~HasFs(d) /\ Devices[d].raw /\ n = d THEN <<Nil>>
  ELSE IF n = d \/ (Devices[d].raw /\ n = RawName(d)) THEN <<[d |-> d, m |-> 0, k |-> "dev"]>>
  ELSE <<>>

vfs_getroot(n) ==
  LET found == SelectSeq(knowndevs, LAMBDA d : Match(d, n) # <<>>)
  IN  IF found = <<>> THEN Nil ELSE Match(found[1], n)[1]

Path == [start : Names \cup {"/", ":", ""}, more : BOOLEAN]

getdevice(p, path) ==
  IF path.start = "/" THEN bootfs_vnode
  ELSE IF path.start \in {"", ":"} /\ p_cwd[p] = Nil THEN Nil
  ELSE IF path.start = "" THEN p_cwd[p]
  ELSE IF path.start = ":" THEN [p_cwd[p] EXCEPT !.k = "root"]
  ELSE vfs_getroot(path.start)

(* vfs_lookup: VOP_LOOKUP fails on a device, and may find nothing. *)
Looked(v, more) ==
  IF v = Nil \/ (more /\ v.k # "root") THEN {} ELSE IF more THEN {[v EXCEPT !.k = "file"]} ELSE {v}
vfs_lookup(p) == UNION {Looked(getdevice(p, path), path.more) : path \in Path}

(* vfs_lookparent: the directory, and it must be one. *)
vfs_lookparent(p) ==
  {v \in {getdevice(p, path) : path \in {q \in Path : q.more}} : v.k = "root"}

Incref(v) == vn_refcount' = [vn_refcount EXCEPT ![v] = @ + 1]
Decrefs(vs) == vn_refcount' = [v \in Vnode |->
                 vn_refcount[v] - Cardinality({i \in DOMAIN vs : vs[i] = v})]

(***************************************************************************)
(* Operations on paths, in steps: first lookup, second lookup, the call.   *)
(***************************************************************************)
TwoPaths == {"link", "rename"}
Begin(p, o, v) ==
  /\ op[p] = "none" /\ ops < MaxOps /\ ops' = ops + 1
  /\ Incref(v)
  /\ op' = [op EXCEPT ![p] = o] /\ tmp' = [tmp EXCEPT ![p] = <<v>>]
  /\ UNCHANGED <<table, p_cwd, bootfs_vnode, open, mixed>>

BeginLookup(p) == \E o \in {"open", "chdir", "link"}, v \in vfs_lookup(p) :
  (o = "open" => open[p] = Nil) /\ Begin(p, o, v)
BeginParent(p) == \E o \in {"create", "change", "rename"}, v \in vfs_lookparent(p) :
  (o = "create" => open[p] = Nil) /\ Begin(p, o, v)

(* The second path of rename or link; when it fails the first vnode is let *)
(* go.                                                                     *)
SecondLookup(p) ==
  /\ op[p] \in TwoPaths /\ Len(tmp[p]) = 1
  /\ \/ \E v \in vfs_lookparent(p) :
          Incref(v) /\ tmp' = [tmp EXCEPT ![p] = Append(@, v)] /\ UNCHANGED op
     \/ /\ Decrefs(tmp[p]) /\ tmp' = [tmp EXCEPT ![p] = <<>>]
        /\ op' = [op EXCEPT ![p] = "none"]
  /\ UNCHANGED <<table, p_cwd, bootfs_vnode, open, ops, mixed>>

(* Both in hand: EXDEV unless they are of one file system, else VOP_LINK   *)
(* or VOP_RENAME.                                                          *)
(* Mutant: it is not checked. *)
AnyFs(v, w) == TRUE
SameFs(v, w) == v.k # "dev" /\ w.k # "dev" /\ v.d = w.d
vfs_rename(p) ==
  /\ op[p] \in TwoPaths /\ Len(tmp[p]) = 2
  /\ mixed' = (mixed \/ (SameFs(tmp[p][1], tmp[p][2]) /\ FsOf(tmp[p][1]) # FsOf(tmp[p][2])))
  /\ Decrefs(tmp[p]) /\ tmp' = [tmp EXCEPT ![p] = <<>>] /\ op' = [op EXCEPT ![p] = "none"]
  /\ UNCHANGED <<table, p_cwd, bootfs_vnode, open, ops>>

(* remove, mkdir, rmdir, symlink: the call, and the directory is let go. *)
vfs_remove(p) ==
  /\ op[p] = "change" /\ Decrefs(tmp[p])
  /\ tmp' = [tmp EXCEPT ![p] = <<>>] /\ op' = [op EXCEPT ![p] = "none"]
  /\ UNCHANGED <<table, p_cwd, bootfs_vnode, open, ops, mixed>>

(* VOP_CREAT: a vnode for the new file, or an error; the directory is let  *)
(* go and the file is opened.                                              *)
Created(v) == [v EXCEPT !.k = "file"]
vfs_open_create(p) ==
  /\ op[p] = "create"
  /\ \/ /\ vn_refcount' = [vn_refcount EXCEPT ![tmp[p][1]] = @ - 1, ![Created(tmp[p][1])] = @ + 1]
        /\ tmp' = [tmp EXCEPT ![p] = <<Created(tmp[p][1])>>] /\ op' = [op EXCEPT ![p] = "open"]
     \/ /\ Decrefs(tmp[p]) /\ tmp' = [tmp EXCEPT ![p] = <<>>]
        /\ op' = [op EXCEPT ![p] = "none"]
  /\ UNCHANGED <<table, p_cwd, bootfs_vnode, open, ops, mixed>>

(* VOP_EACHOPEN and VOP_TRUNCATE, either of which may refuse. *)
(* Mutant: the vnode is kept when VOP_TRUNCATE refuses. *)
OpenKeeps(p) ==
  /\ op[p] = "open"
  /\ \/ open' = [open EXCEPT ![p] = tmp[p][1]] /\ UNCHANGED vn_refcount
     \/ UNCHANGED <<open, vn_refcount>>
  /\ tmp' = [tmp EXCEPT ![p] = <<>>] /\ op' = [op EXCEPT ![p] = "none"]
  /\ UNCHANGED <<table, p_cwd, bootfs_vnode, ops, mixed>>
vfs_open(p) ==
  /\ op[p] = "open"
  /\ \/ open' = [open EXCEPT ![p] = tmp[p][1]] /\ UNCHANGED vn_refcount
     \/ UNCHANGED open /\ Decrefs(tmp[p])
  /\ tmp' = [tmp EXCEPT ![p] = <<>>] /\ op' = [op EXCEPT ![p] = "none"]
  /\ UNCHANGED <<table, p_cwd, bootfs_vnode, ops, mixed>>

vfs_close(p) ==
  /\ op[p] = "none" /\ open[p] # Nil /\ Decrefs(<<open[p]>>)
  /\ open' = [open EXCEPT ![p] = Nil]
  /\ UNCHANGED <<table, p_cwd, bootfs_vnode, op, tmp, ops, mixed>>

(* vfs_setcurdir: only a directory; the new one is referred to before the  *)
(* old one is let go, and then vfs_chdir's own reference is.               *)
(* Mutant: a device is accepted. *)
SetcurdirAny(p) ==
  /\ op[p] = "chdir"
  /\ p_cwd' = [p_cwd EXCEPT ![p] = tmp[p][1]] /\ Decrefs(SelectSeq(<<p_cwd[p]>>, LAMBDA v : v # Nil))
  /\ tmp' = [tmp EXCEPT ![p] = <<>>] /\ op' = [op EXCEPT ![p] = "none"]
  /\ UNCHANGED <<table, bootfs_vnode, open, ops, mixed>>
vfs_setcurdir(p) ==
  /\ op[p] = "chdir"
  /\ IF tmp[p][1].k # "root" THEN UNCHANGED p_cwd /\ Decrefs(tmp[p])
     ELSE /\ p_cwd' = [p_cwd EXCEPT ![p] = tmp[p][1]]
          /\ Decrefs(SelectSeq(<<p_cwd[p]>>, LAMBDA v : v # Nil))
  /\ tmp' = [tmp EXCEPT ![p] = <<>>] /\ op' = [op EXCEPT ![p] = "none"]
  /\ UNCHANGED <<table, bootfs_vnode, open, ops, mixed>>

vfs_clearcurdir(p) ==
  /\ op[p] = "none" /\ p_cwd[p] # Nil /\ Decrefs(<<p_cwd[p]>>)
  /\ p_cwd' = [p_cwd EXCEPT ![p] = Nil]
  /\ UNCHANGED <<table, bootfs_vnode, open, op, tmp, ops, mixed>>

(* vfs_setbootfs changes to the root of a file system, all under the big   *)
(* lock, and keeps a reference to it; vfs_clearbootfs drops it.            *)
vfs_setbootfs(p) ==
  /\ op[p] = "none" /\ ops < MaxOps /\ ops' = ops + 1
  /\ \E v \in {vfs_getroot(n) : n \in Names} :
       /\ v.k = "root" /\ bootfs_vnode' = v /\ p_cwd' = [p_cwd EXCEPT ![p] = v]
       /\ vn_refcount' = [w \in Vnode |-> vn_refcount[w] + 2 * One(w = v)
                            - One(w = p_cwd[p]) - One(w = bootfs_vnode)]
  /\ UNCHANGED <<table, open, op, tmp, mixed>>

vfs_clearbootfs ==
  /\ bootfs_vnode # Nil /\ Decrefs(<<bootfs_vnode>>) /\ bootfs_vnode' = Nil
  /\ UNCHANGED <<table, p_cwd, open, op, tmp, ops, mixed>>

Next ==
  \/ vfs_unmountall \/ vfs_clearbootfs
  \/ \E d \in Dev : \/ vfs_doadd(d) \/ vfs_mount(d) \/ vfs_unmount(d)
                    \/ vfs_swapon(d) \/ vfs_swapoff(d)
  \/ \E p \in Proc : \/ BeginLookup(p) \/ BeginParent(p) \/ SecondLookup(p)
                     \/ vfs_rename(p) \/ vfs_remove(p) \/ vfs_open_create(p) \/ vfs_open(p)
                     \/ vfs_close(p) \/ vfs_setcurdir(p) \/ vfs_clearcurdir(p)
                     \/ vfs_setbootfs(p)

Spec == Init /\ [][Next]_vars

(***************************************************************************)
(* Properties.                                                             *)
(***************************************************************************)
(* Every vnode's count is the number of references to it, whichever error  *)
(* path the operations took; a device's vnode has one more, the table's.   *)
RefsExact ==
  \A v \in Vnode :
    vn_refcount[v] = SumOver(Proc, v) + One(bootfs_vnode = v)
      + One(v.k = "dev" /\ v.d \in Known) + (IF v.k = "dev" THEN swapvnodes[v.d] ELSE 0)

(* While anything of a file system is referred to, it stays mounted: a     *)
(* path operation that has let go of vfs_biglock between its lookups never *)
(* works on a file system that is gone.                                    *)
MountedWhileInUse ==
  \A v \in Vnode : v.k # "dev" /\ vn_refcount[v] > 0 => kd_fs[v.d] = v.m

(* A current directory or boot directory is a directory of a file system:  *)
(* the assertions of getdevice and vfs_getcwd hold.                        *)
DirectoriesAreDirectories ==
  \A v \in {p_cwd[p] : p \in Proc} \cup {bootfs_vnode} : v # Nil => v.k = "root"

(* VOP_RENAME and VOP_LINK are called with two vnodes of one file system,  *)
(* which they take for granted, also when there was an unmount and another *)
(* mount between the two lookups.                                          *)
NeverAcross == ~mixed

(* No two devices answer to one name, except that the volume name of a     *)
(* file system mounted later is not compared with anything.                *)
NamesApart ==
  \A i, j \in DOMAIN knowndevs : i < j =>
    \A n \in Names : Match(knowndevs[i], n) # <<>> /\ Match(knowndevs[j], n) # <<>> =>
      \E d \in {knowndevs[i], knowndevs[j]} : Devices[d].raw /\ n = Volume(d)
=============================================================================
