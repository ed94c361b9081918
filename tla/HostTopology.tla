---------------------------- MODULE HostTopology ----------------------------
(***************************************************************************)
(* What stands between the target and an exclusive claim, and what comes   *)
(* back after it: mounts with their device numbers and paths, swaps,       *)
(* holders, partitions.  Phase 1 clears them, Phase 2 claims the device    *)
(* and looks again, Phase 7 rebuilds the device numbers and sweeps         *)
(* (common/mount.rs, common/sysfs.rs, phases/phase_1.rs, phase_2.rs,       *)
(* phase_7.rs).  The host acts between any two steps.  Cancellation, the   *)
(* replug of the whole stick and the device's content are in ImiRun.       *)
(***************************************************************************)
EXTENDS Naturals, SequencesExt, CodeLoops

CONSTANTS
  Disk,        \* the target
  Partitions,  \* partitions the target can have
  Foreign,     \* a partition of another disk
  Upper,       \* device-mapper and other stacked nodes
  Synthetic,   \* those of Upper that are kpartx mappings: part<N>-*
  Paths,       \* mount points, as sequences of components
  Media,       \* the whitelisted roots
  NoNode,      \* no block device: an anonymous number, a pseudo-source
  MaxMounts,   \* bound on the mount table
  MaxUses,     \* bound on mounts, swaps and holders found at the start
  MaxActs      \* bound on what the host does during the run

ASSUME TopologyAssumption ==
  /\ Synthetic \subseteq Upper
  /\ Disk \notin Partitions \cup Upper \cup {Foreign, NoNode}
  /\ Foreign \notin Partitions \cup Upper \cup {NoNode}
  /\ NoNode \notin Partitions \cup Upper
  /\ \A p \in Paths : Len(p) \in Nat
  /\ MaxMounts \in Nat /\ MaxUses \in Nat /\ MaxActs \in Nat

Target == {Disk} \cup Partitions
Nodes == Target \cup {Foreign}

\* One line of /proc/self/mountinfo: what is mounted, and the two answers it
\* gives about it, the device number of field 3 and the node field 10 stats to.
Mount == [dev : Nodes, devt : Nodes \cup {NoNode}, source : Nodes \cup {NoNode},
          path : Paths]

\* A plain filesystem, one with an anonymous number (btrfs), and one whose
\* recorded source is not the device either (another member, a vanished link).
Lines(n, p) ==
  {[dev |-> n, devt |-> n, source |-> n, path |-> p],
   [dev |-> n, devt |-> NoNode, source |-> n, path |-> p],
   [dev |-> n, devt |-> NoNode, source |-> NoNode, path |-> p]}

VARIABLES
  parts,    \* the partitions sysfs lists now
  mounts,   \* the mount table, in mount order
  swaps,    \* block devices in /proc/swaps
  holders,  \* holders/ links: <<lower, upper>>
  acts,     \* how often the host acted
  pc,       \* the run's next step
  devts,    \* TargetDevts: the device numbers collected from sysfs
  todo,     \* mounts still to unmount, from the last scan
  offs,     \* swaps still to turn off
  pass,     \* Phase 7's attempt
  excl,     \* the O_EXCL claim is held
  late,     \* history: partitions made by the host after Phase 7 looked for them
  clean,    \* history: the host found at the start could be cleared
  busy,     \* history: an umount2 or a swapoff failed on a device in use
  result    \* "running", "refused" (Phases 1 and 2), "mounted", "ok"

hostVars == <<parts, mounts, swaps, holders>>
runVars == <<devts, todo, offs, pass, excl>>
vars == <<hostVars, acts, pc, runVars, late, clean, busy, result>>

Steps == {"stacked", "devts", "scan", "swap_scan", "swapoff", "unmount", "rescan",
          "claim", "recheck", "remounts", "write", "release", "rebuild", "sweep",
          "sweep_unmount", "verdict", "done"}

TypeOK ==
  /\ parts \subseteq Partitions
  /\ mounts \in Seq(Mount) /\ Len(mounts) <= MaxMounts
  /\ swaps \subseteq Nodes
  /\ holders \subseteq (Nodes \cup Upper) \X Upper
  /\ acts \in 0 .. MaxActs
  /\ pc \in Steps
  /\ devts \subseteq Target
  /\ late \subseteq Partitions
  /\ todo \in Seq(Mount)
  /\ offs \subseteq Nodes
  /\ pass \in 1 .. 4
  /\ excl \in BOOLEAN /\ clean \in BOOLEAN /\ busy \in BOOLEAN
  /\ result \in {"running", "refused", "mounted", "ok"}

-----------------------------------------------------------------------------
(* The kernel: who uses a device, and which umount2 succeeds. *)

Under(p, q) == Len(q) < Len(p) /\ SubSeq(p, 1, Len(q)) = q

\* The mount a path resolves to: the last one made there.
TopAt(p) == {i \in DOMAIN mounts :
               /\ mounts[i].path = p
               /\ \A j \in DOMAIN mounts : mounts[j].path = p => j <= i}

\* It can be reached and has nothing mounted beneath it.
Detachable(i) ==
  \A j \in i + 1 .. Len(mounts) :
    ~Under(mounts[j].path, mounts[i].path) /\ ~Under(mounts[i].path, mounts[j].path)

Umount(p) ==
  \E i \in TopAt(p) : Detachable(i) /\ mounts' = RemoveAt(mounts, i)

MountsOn(S) == {i \in DOMAIN mounts : mounts[i].dev \in S}
HeldBy(S) == {h \in holders : h[1] \in S}

\* bd_may_claim: a user of a partition is a user of the whole disk.
InUse == MountsOn(Target) # {} \/ swaps \cap Target # {} \/ HeldBy(Target) # {}

-----------------------------------------------------------------------------
(* What the run reads: sysfs, mountinfo, swaps. *)

\* filter_mountinfo: by device number, or by the node the source stats to.
Seen(m, S) == m.devt \in S \/ m.source \in S

MountsSeen(S) == Picked(mounts, {i \in DOMAIN mounts : Seen(mounts[i], S)})

\* The list of them is empty.
NoneSeen(S) == \A i \in DOMAIN mounts : ~Seen(mounts[i], S)

IsWhitelisted(p) == \E r \in Media : p = r \/ Under(p, r)

\* enforce_whitelist: the first mount that may not be touched.
Offender(found) == \E i \in DOMAIN found : ~IsWhitelisted(found[i].path)

\* partitions_of: the disk's children that carry a partition marker.
DiskAndPartitions == {Disk} \cup parts

\* walk_holders: the holders of n, and theirs, and no other.
HoldersOf(n) ==
  {u \in Upper : \A S \in SUBSET Upper :
     (\A h \in HeldBy({n} \cup S) : h[2] \in S) => u \in S}

\* Everything but a kpartx mapping is taken for live data.
LiveData(h) == h \notin Synthetic

Stacked == \E n \in DiskAndPartitions : \E h \in HoldersOf(n) : LiveData(h)

-----------------------------------------------------------------------------
\* Phase 1 can clear this host: nothing stacked, nothing mounted that it may
\* not touch or cannot see, nothing of another disk in the way.
Clearable ==
  /\ HeldBy(Target) = {}
  /\ \A i \in DOMAIN mounts :
       mounts[i].dev \in Target =>
         /\ mounts[i].source # NoNode
         /\ IsWhitelisted(mounts[i].path)
  /\ \/ MountsOn({Foreign}) = {}
     \/ MountsOn(Target) = {}

Init ==
  /\ parts \in SUBSET Partitions
  /\ \E n \in 0 .. MaxMounts :
       mounts \in [1 .. n -> UNION {Lines(d, p) : d \in Nodes, p \in Paths}]
  /\ \A i \in MountsOn(Partitions) : mounts[i].dev \in parts
  /\ \A i, j \in DOMAIN mounts :
       i < j => ~Under(mounts[i].path, mounts[j].path)
  /\ swaps \in SUBSET (parts \cup {Foreign})
  /\ holders \in SUBSET ((parts \X Upper) \cup
                         {h \in Upper \X Upper : h[1] # h[2]})
  /\ Len(mounts) + Cardinality(swaps) + Cardinality(holders) <= MaxUses
  /\ acts = 0
  /\ pc = "stacked"
  /\ devts = {} /\ todo = << >> /\ offs = {} /\ pass = 1
  /\ excl = FALSE /\ busy = FALSE
  /\ late = {}
  /\ clean = Clearable
  /\ result = "running"

Stop(r) == pc' = "done" /\ result' = r /\ excl' = FALSE /\ UNCHANGED <<late, clean>>

Refuse == Stop("refused") /\ UNCHANGED <<hostVars, acts, devts, todo, offs, pass,
                                         busy>>

GoTo(step) == pc' = step /\ UNCHANGED <<acts, late, clean, result>>

-----------------------------------------------------------------------------
(* Phase 1. *)

RejectStacked ==
  /\ pc = "stacked"
  /\ IF Stacked THEN Refuse
     ELSE GoTo("devts") /\ UNCHANGED <<hostVars, runVars, busy>>

BuildDevts ==
  /\ pc = "devts"
  /\ devts' = DiskAndPartitions
  /\ GoTo("scan")
  /\ UNCHANGED <<hostVars, todo, offs, pass, excl, busy>>

\* mounts_on_target and enforce_whitelist over what it found.
Scan ==
  /\ pc = "scan"
  /\ IF Offender(MountsSeen(devts))
     THEN Refuse
     ELSE /\ todo' = MountsSeen(devts)
          /\ GoTo("swap_scan")
          /\ UNCHANGED <<hostVars, devts, offs, pass, excl, busy>>

\* One reading of /proc/swaps, one swapoff per entry that stats to the target.
ScanSwaps ==
  /\ pc = "swap_scan"
  /\ offs' = swaps \cap devts
  /\ GoTo("swapoff")
  /\ UNCHANGED <<hostVars, devts, todo, pass, excl, busy>>

Swapoff ==
  /\ pc = "swapoff"
  /\ \E n \in offs :
       /\ n \in swaps
       /\ swaps' = swaps \ {n}
       /\ offs' = offs \ {n}
  /\ GoTo("swapoff")
  /\ UNCHANGED <<parts, mounts, holders, devts, todo, pass, excl, busy>>

\* Turned off by somebody else meanwhile, or the kernel cannot take it back.
SwapoffFails ==
  /\ pc = "swapoff"
  /\ offs # {}
  /\ Stop("refused")
  /\ busy' = TRUE
  /\ UNCHANGED <<hostVars, acts, devts, todo, offs, pass>>

SwapsOff ==
  /\ pc = "swapoff"
  /\ offs = {}
  /\ GoTo("unmount")
  /\ UNCHANGED <<hostVars, runVars, busy>>

\* Mutant of DeepestFirst: the order of the mount table.
InTableOrder(i) == i = 1

\* deepest_first: sorted by the length of the path, longest first.
DeepestFirst(i) == \A j \in DOMAIN todo : Len(todo[j].path) <= Len(todo[i].path)

Next1(i) == i \in DOMAIN todo /\ DeepestFirst(i)

\* umount2 goes by path, whatever is mounted there by now.
Unmount ==
  /\ pc = "unmount"
  /\ \E i \in DOMAIN todo :
       /\ Next1(i)
       /\ Umount(todo[i].path)
       /\ todo' = RemoveAt(todo, i)
  /\ GoTo("unmount")
  /\ UNCHANGED <<parts, swaps, holders, devts, offs, pass, excl, busy>>

\* The first refusal ends the phase: something beneath, or nothing there ...
UnmountRefused ==
  /\ pc = "unmount"
  /\ \E i \in DOMAIN todo :
       Next1(i) /\ ~\E k \in TopAt(todo[i].path) : Detachable(k)
  /\ Refuse

\* ... or a process with open files.
UnmountBusy ==
  /\ pc = "unmount"
  /\ todo # << >>
  /\ Stop("refused")
  /\ busy' = TRUE
  /\ UNCHANGED <<hostVars, acts, devts, todo, offs, pass>>

Unmounted ==
  /\ pc = "unmount"
  /\ todo = << >>
  /\ GoTo("rescan")
  /\ UNCHANGED <<hostVars, runVars, busy>>

Rescan ==
  /\ pc = "rescan"
  /\ IF ~NoneSeen(devts) THEN Refuse
     ELSE GoTo("claim") /\ UNCHANGED <<hostVars, runVars, busy>>

-----------------------------------------------------------------------------
(* Phase 2, and the phases that work under the claim. *)

\* Mutant of Claim: without O_EXCL the open succeeds beside any user.
ClaimShared ==
  /\ pc = "claim"
  /\ excl' = TRUE
  /\ GoTo("recheck")
  /\ UNCHANGED <<hostVars, devts, todo, offs, pass, busy>>

Claim ==
  /\ pc = "claim"
  /\ IF InUse THEN Refuse
     ELSE /\ excl' = TRUE
          /\ GoTo("recheck")
          /\ UNCHANGED <<hostVars, devts, todo, offs, pass, busy>>

RecheckStacked ==
  /\ pc = "recheck"
  /\ IF Stacked THEN Refuse
     ELSE GoTo("remounts") /\ UNCHANGED <<hostVars, runVars, busy>>

\* With the numbers Phase 1 collected.
RecheckMounts ==
  /\ pc = "remounts"
  /\ IF ~NoneSeen(devts) THEN Refuse
     ELSE GoTo("write") /\ UNCHANGED <<hostVars, runVars, busy>>

\* Phases 3 to 5 and BLKRRPART: the device has a new partition table, which
\* the kernel reads now or, if the ioctl fails, when the claim is dropped.
Write ==
  /\ pc = "write"
  /\ parts' \in SUBSET Partitions
  /\ GoTo("release")
  /\ UNCHANGED <<mounts, swaps, holders, runVars, busy>>

Release ==
  /\ pc = "release"
  /\ excl' = FALSE
  /\ GoTo("rebuild")
  /\ UNCHANGED <<hostVars, devts, todo, offs, pass, busy>>

-----------------------------------------------------------------------------
(* Phase 7. *)

\* Mutant of Rebuild: the numbers Phase 1 collected are kept.
RebuildNothing ==
  /\ pc = "rebuild"
  /\ GoTo("sweep")
  /\ UNCHANGED <<hostVars, runVars, busy>>

\* After the settle: the device numbers of the new table.
Rebuild ==
  /\ pc = "rebuild"
  /\ devts' = DiskAndPartitions
  /\ GoTo("sweep")
  /\ UNCHANGED <<hostVars, todo, offs, pass, excl, busy>>

Sweep ==
  /\ pc = "sweep"
  /\ IF NoneSeen(devts)
     THEN Stop("ok") /\ UNCHANGED <<hostVars, acts, devts, todo, offs, pass, busy>>
     ELSE /\ todo' = MountsSeen(devts)
          /\ GoTo("sweep_unmount")
          /\ UNCHANGED <<hostVars, devts, offs, pass, excl, busy>>

\* In the order of the table; a failure is left to the next pass.
SweepUnmount ==
  /\ pc = "sweep_unmount"
  /\ todo # << >>
  /\ Umount(Head(todo).path) \/ UNCHANGED mounts
  /\ todo' = Tail(todo)
  /\ GoTo("sweep_unmount")
  /\ UNCHANGED <<parts, swaps, holders, devts, offs, pass, excl, busy>>

\* Three passes.
SweepAgain ==
  /\ pc = "sweep_unmount"
  /\ todo = << >>
  /\ pass' = pass + 1
  /\ GoTo(IF pass < 3 THEN "sweep" ELSE "verdict")
  /\ UNCHANGED <<hostVars, devts, todo, offs, excl, busy>>

\* The last scan decides whether the device may be unplugged.
Verdict ==
  /\ pc = "verdict"
  /\ Stop(IF NoneSeen(devts) THEN "ok" ELSE "mounted")
  /\ UNCHANGED <<hostVars, acts, devts, todo, offs, pass, busy>>

Run ==
  \/ RejectStacked \/ BuildDevts \/ Scan \/ ScanSwaps \/ Swapoff \/ SwapoffFails
  \/ SwapsOff \/ Unmount \/ UnmountRefused \/ UnmountBusy \/ Unmounted \/ Rescan
  \/ Claim \/ RecheckStacked \/ RecheckMounts \/ Write \/ Release
  \/ Rebuild \/ Sweep \/ SweepUnmount \/ SweepAgain \/ Verdict

-----------------------------------------------------------------------------
(* The host: udisks2, systemd, another operator.  The exclusive claim keeps  *)
(* new users off the target, and a partition in use does not disappear.     *)

HostActs ==
  /\ pc # "done"
  /\ acts < MaxActs
  /\ acts' = acts + 1
  /\ UNCHANGED <<pc, runVars, clean, busy, result>>

Free(n) == n = Foreign \/ (~excl /\ n \in DiskAndPartitions)

HostMounts ==
  /\ HostActs
  /\ Len(mounts) < MaxMounts
  /\ \E n \in Nodes, p \in Paths :
       /\ Free(n)
       /\ \E m \in Lines(n, p) : mounts' = Append(mounts, m)
  /\ UNCHANGED <<parts, swaps, holders, late>>

HostUnmounts ==
  /\ HostActs
  /\ \E p \in Paths : Umount(p)
  /\ UNCHANGED <<parts, swaps, holders, late>>

HostSwaps ==
  /\ HostActs
  /\ \E n \in Nodes : Free(n) /\ swaps' = swaps \cup {n}
  /\ UNCHANGED <<parts, mounts, holders, late>>

HostStacks ==
  /\ HostActs
  /\ \E n \in DiskAndPartitions, u \in Upper :
       Free(n) /\ holders' = holders \cup {<<n, u>>}
  /\ UNCHANGED <<parts, mounts, swaps, late>>

HostRepartitions ==
  /\ HostActs
  /\ ~excl
  /\ parts' \in SUBSET Partitions
  /\ \A n \in parts \ parts' : MountsOn({n}) = {} /\ n \notin swaps /\ HeldBy({n}) = {}
  /\ late' = IF pc \in {"sweep", "sweep_unmount", "verdict"}
             THEN late \cup (parts' \ parts) ELSE late
  /\ UNCHANGED <<mounts, swaps, holders>>

Host == HostMounts \/ HostUnmounts \/ HostSwaps \/ HostStacks \/ HostRepartitions

Terminated == pc = "done" /\ UNCHANGED vars

Next == Run \/ Host \/ Terminated

Spec == Init /\ [][Next]_vars

-----------------------------------------------------------------------------
\* Nothing is mounted, swapped on or stacked on a device that is being written,
\* seen by the scans or not: a mount of a partition that appeared after the
\* numbers were collected, and one neither field of mountinfo identifies, are
\* kept out by the claim alone.
QuietWhileClaimed == excl => ~InUse

\* mount.rs, deepest_first: an order that gets EBUSY from a nested mount turns
\* "a perfectly unmountable stick into a refusal".  A host that is left alone
\* and has only media mounts and idle users is cleared and claimed.
RefusalHasCause == result = "refused" => ~clean \/ busy \/ acts > 0

\* phase_7.rs, final_verdict: success is said over a device on which nothing is
\* mounted -- on none of the partitions the new table gave it, by any filesystem
\* whose number or source names one of them.
SafeToUnplug ==
  [][(result' = "ok" /\ result # "ok") =>
       \A i \in MountsOn({Disk} \cup (parts \ late)) : mounts[i].source = NoNode]_vars
=============================================================================
