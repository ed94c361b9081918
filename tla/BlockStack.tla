----------------------------- MODULE BlockStack -----------------------------
(***************************************************************************)
(* The host's block devices as sysfs and the mount table show them:        *)
(* partitions, holders, loop devices over files, files in filesystems.     *)
(* The questions imi asks of it -- what is stacked on a disk, which device *)
(* a file is stored on, which disks may be offered -- are the functions of *)
(* common/sysfs.rs, common/mount.rs, common/devices.rs and                 *)
(* phases/phase_0.rs.  The host does not change while one is answered.     *)
(***************************************************************************)
EXTENDS Integers, SequencesExt, CodeLoops

CONSTANTS
  DiskNames,   \* what /sys/block lists, in the order of the names
  Disks,       \* those with a device/ link
  Loops,       \* loop devices
  Stacks,      \* device-mapper and md nodes
  Partitions,  \* partitions of disks and of loop devices
  Parent,      \* what each is a partition of
  Removable,   \* the disks whose removable attribute is 1
  Media,       \* the whitelisted mount roots
  NoNode,      \* no block device
  NoFile       \* no backing file

Node == Disks \cup Loops \cup Stacks \cup Partitions

ASSUME BlockAssumption ==
  /\ DiskNames \in Seq(Node) /\ ToSet(DiskNames) = Disks \cup Loops \cup Stacks
  /\ Parent \in [Partitions -> Disks \cup Loops]
  /\ Removable \subseteq Disks
  /\ (Disks \cup Loops) \cap (Stacks \cup Partitions) = {}
  /\ NoNode \notin Node
  /\ IsFiniteSet(Node)

VARIABLES
  links,    \* holders/ links: <<lower, upper>>
  mounts,   \* the mount table: what is mounted, whether st_dev is anonymous, where
  backing   \* the file of each loop device, or NoFile

stackVars == <<links, mounts, backing>>

-----------------------------------------------------------------------------
(* sysfs. *)

is_partition(n) == n \in Partitions
has_backing_device(n) == n \in Disks
partitions_of(d) == {p \in Partitions : Parent[p] = d}

\* walk_holders: each holder visited once.
holders_recursive(n) ==
  LET walk == [S \in SUBSET Stacks |-> S \cup {h[2] : h \in {l \in links : l[1] \in {n} \cup S}}]
  IN Saturate(walk, {})

-----------------------------------------------------------------------------
(* Files: a directory and a name in it. *)

Covers(p, dir) == IsPrefix(p, dir)

\* The filesystem a path resolves to: of the mounts made on its way, the last.
FsOf(dir) ==
  mounts[CHOOSE i \in DOMAIN mounts :
           /\ Covers(mounts[i].path, dir)
           /\ \A j \in DOMAIN mounts : Covers(mounts[j].path, dir) => j <= i]

\* The search by depth, a later line winning at equal depth.
source_of_longest_mount_prefix(dir) ==
  mounts[CHOOSE i \in DOMAIN mounts :
           /\ Covers(mounts[i].path, dir)
           /\ \A j \in DOMAIN mounts \ {i} :
                Covers(mounts[j].path, dir) =>
                  \/ Len(mounts[j].path) < Len(mounts[i].path)
                  \/ Len(mounts[j].path) = Len(mounts[i].path) /\ j < i].on

\* st_dev where it names a block device, else the source in the mount table.
block_kname_backing_path(dir) ==
  IF FsOf(dir).anon THEN source_of_longest_mount_prefix(dir) ELSE FsOf(dir).on

-----------------------------------------------------------------------------
(* The block stack of the target. *)

LoopsOver(S) ==
  {l \in Loops : backing[l] # NoFile /\ block_kname_backing_path(backing[l].dir) \in S}

Widen(S) ==
  LET held == S \cup UNION {holders_recursive(n) : n \in S}
      over == held \cup LoopsOver(held)
  IN over \cup UNION {partitions_of(l) : l \in LoopsOver(held)}

\* Mutant of target_block_subtree: one pass.
SubtreeInOnePass(d) == Widen({d} \cup partitions_of(d))

\* Until a pass adds nothing.
target_block_subtree(d) ==
  Saturate([S \in SUBSET Node |-> Widen(S)], {d} \cup partitions_of(d))

\* Hazard 2: the image is what a loop device of the stack reads.
IsBackingFile(img, S) == \E l \in Loops \cap S : backing[l] = img

\* Mutant of ensure_image_not_on_target: the device of the image alone.
ImageNotOnDevice(img, d) == block_kname_backing_path(img.dir) # d

\* Both hazards.
ensure_image_not_on_target(img, d) ==
  LET subtree == target_block_subtree(d)
  IN ~IsBackingFile(img, subtree) /\ block_kname_backing_path(img.dir) \notin subtree

-----------------------------------------------------------------------------
(* The list a picker offers. *)

is_whitelisted(p) == \E r \in Media : IsPrefix(r, p)

\* mounts_in_text with the numbers of the disk and its partitions.
MountsOfDisk(d) ==
  {i \in DOMAIN mounts : mounts[i].on \in {d} \cup partitions_of(d)}

\* Mutant of IsVirtual: no name is left out.
NoneIsVirtual(d) == d \in {}

\* VIRTUAL_PREFIXES: loop, mapper and md nodes by their names.
IsVirtual(d) == d \in Loops \cup Stacks

\* candidates_from_parts; with_medium: the nodes whose size attribute is not the
\* zero of an empty reader.
IsCandidate(d, with_medium) ==
  /\ ~IsVirtual(d)
  /\ d \in with_medium
  /\ holders_recursive(d) = {}
  /\ \A i \in MountsOfDisk(d) : is_whitelisted(mounts[i].path)

\* order_for_display: removable first, each group in the order of the names.
order_for_display(s) ==
  Picked(s, {i \in DOMAIN s : s[i] \in Removable})
    \o Picked(s, {i \in DOMAIN s : s[i] \notin Removable})

candidate_devices(with_medium) ==
  order_for_display(
    Picked(DiskNames, {i \in DOMAIN DiskNames : IsCandidate(DiskNames[i], with_medium)}))

-----------------------------------------------------------------------------
(* What is really stored where. *)

\* The nodes n's content lies on directly.
Below(n) ==
  {Parent[p] : p \in {n} \cap Partitions}
    \cup {l[1] : l \in {k \in links : k[2] = n}}
    \cup {FsOf(backing[l].dir).on : l \in {k \in {n} \cap Loops : backing[k] # NoFile}}

\* Everything that changes when d is written: d, and whatever lies on it.
OnTopOf(d) ==
  Saturate([S \in SUBSET Node |-> S \cup {n \in Node : Below(n) \cap S # {}}], {d})

\* Writing d changes the image: it is stored on d, or it is what d writes to.
ImageOn(img, d) == FsOf(img.dir).on \in OnTopOf(d) \/ IsBackingFile(img, OnTopOf(d))
=============================================================================
