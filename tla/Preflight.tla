------------------------------ MODULE Preflight ------------------------------
(***************************************************************************)
(* From the command line to the claimed device: the picker                 *)
(* (imi/src/picker.rs, common/devices.rs), the checks of Phase 0 in their  *)
(* order (phases/phase_0.rs), the identity captured before the prompt and  *)
(* compared after the claim (common/identity.rs).  Each of the reads sees  *)
(* the stick that is plugged in at that moment.                            *)
(***************************************************************************)
EXTENDS BlockStack

CONSTANTS
  Slot,        \* the disk name the stick is plugged in under
  Units,       \* the sticks at hand: size, model, serial, wwid
  UsedUnits,   \* those plugged in on a host that is not idle
  Fixed,       \* the same four of every other node
  Dirs,        \* directories a file can be in
  Formats,     \* what the first bytes of an image can say
  Archives,    \* those of Formats that are archives
  Plain,       \* those of Formats that leave an image raw
  ImageSizes,  \* sizes of a raw image
  WIPE_REGION, \* bytes wiped at each end
  MAX_COOLDOWN_SECS,
  DEFAULT_COOLDOWN_SECS,
  CooldownArgs,  \* what --cooldown-secs can hold; Unset where it is left out
  Unset,         \* None of an option
  MaxReplugs,    \* bound on exchanges of the stick
  MaxLinks       \* bound on holders/ links

Names == UNION {{d.model, d.serial, d.wwid} :
                  d \in Units \cup {Fixed[n] : n \in DOMAIN Fixed}}

\* What a node says of itself.
Attributes == [size : Nat, model : Names, serial : Names, wwid : Names]

ASSUME PreflightAssumption ==
  /\ Slot \in Disks /\ UsedUnits \subseteq Units
  /\ Units \subseteq Attributes /\ Fixed \in [Node \ {Slot} -> Attributes]
  /\ Unset \notin Nat
  /\ {<< >>, <<"media">>, <<"media", "x">>} \subseteq Dirs
  /\ Archives \cap Plain = {} /\ Archives \cup Plain \subseteq Formats
  /\ WIPE_REGION \in Nat \ {0}
  /\ DEFAULT_COOLDOWN_SECS \in 1 .. MAX_COOLDOWN_SECS
  /\ MaxReplugs \in Nat /\ MaxLinks \in Nat

VARIABLES
  image,    \* the file of --img
  plug,     \* the stick in the slot
  rdev,     \* the device number it was given
  replugs,  \* how often it was exchanged
  pc,       \* the next check
  menu,     \* the disks on the screen
  target,   \* the device chosen
  raw,      \* size of a raw image, Unset for a compressed one
  size,     \* dev_size
  id,       \* the DeviceIdentity of the target
  shown,    \* the model and size in the prompt
  since,    \* history: exchanges since the identity was captured
  seen,     \* history: the device it was captured of
  result    \* "running", "claimed", or the check that refused

\* What Phase 0 hands to the phases after it.
Target == <<target, raw, size, id>>

hostVars == <<stackVars, image>>
stickVars == <<plug, rdev, replugs>>
runVars == <<menu, Target, shown>>
vars == <<hostVars, stickVars, pc, runVars, since, seen, result>>

File == [dir : Dirs, name : {"img", "vol"}]
Mount == [on : Node \cup {NoNode}, anon : BOOLEAN, path : Dirs]
Values == {Unset} \cup {u.size : u \in Units} \cup {Fixed[n].size : n \in DOMAIN Fixed}
            \cup ImageSizes
DeviceIdentity == [rdev : {0, 1, 2}, model : Names, serial : Names, wwid : Names, size : Values]

ASSUME OptionAssumption == Unset \notin DeviceIdentity

\* What confirm shows that a stick decides.
Summary == [model : Names, size : Values]

Steps == {"start", "menu", "cooldown", "root", "paths", "whole_disk", "on_target",
          "format", "geometry", "capture", "model", "confirm", "claim", "done"}

TypeOK ==
  /\ links \subseteq Node \X Stacks
  /\ mounts \in Seq(Mount)
  /\ backing \in [Loops -> File \cup {NoFile}]
  /\ image \in File
  /\ plug \in Units /\ rdev \in {0, 1} /\ replugs \in 0 .. MaxReplugs
  /\ pc \in Steps
  /\ menu \in Seq(Disks)
  /\ target \in Node \cup {NoNode}
  /\ raw \in Values /\ size \in Values
  /\ id \in DeviceIdentity \cup {Unset}
  /\ shown \in Summary \cup {Unset}
  /\ since \in 0 .. MaxReplugs
  /\ seen \in {NoNode} \cup Units \cup {Fixed[n] : n \in DOMAIN Fixed}
  /\ result \in {"running", "claimed"} \cup Steps

-----------------------------------------------------------------------------
(* The hosts considered. *)

Used == {mounts[i].on : i \in DOMAIN mounts} \cup {l[1] : l \in links}

\* The hosts on which sticks are exchanged, to bound the model: nothing in use
\* but the filesystems of other disks.
SlotInUse == Used \cap ({Slot} \cup partitions_of(Slot)) # {}
Idle == ~SlotInUse /\ links = {} /\ \A l \in Loops : backing[l] = NoFile

\* Devices are set up as the kernel lets them be: one user each, a disk or its
\* partitions, no stack without a lower device, no loop without a file, and
\* nothing that lies on itself.
WellFormed ==
  /\ \A i, j \in DOMAIN mounts : mounts[i].on = mounts[j].on => i = j \/ mounts[i].on = NoNode
  /\ \A i \in DOMAIN mounts : \A l \in links : l[1] # mounts[i].on
  /\ \A p \in Partitions : ~({p, Parent[p]} \subseteq Used)
  /\ \A n \in Used \cap Stacks : \E l \in links : l[2] = n
  /\ \A l \in Loops : ({l} \cup partitions_of(l)) \cap Used # {} => backing[l] # NoFile
  /\ \A l \in Loops : OnTopOf(l) \cap Below(l) = {}

\* A parent mounted before its child: nothing is hidden under a later mount.
Filesystem(p) ==
  {<<[on |-> n, anon |-> a, path |-> p]>> : n \in Node, a \in BOOLEAN}
    \cup {<<[on |-> NoNode, anon |-> TRUE, path |-> p]>>}

Init ==
  /\ links \in {L \in SUBSET ((Node \ Stacks) \X Stacks) : Cardinality(L) <= MaxLinks}
  /\ \E outer \in {<< >>} \cup Filesystem(<<"media">>),
        inner \in {<< >>} \cup Filesystem(<<"media", "x">>),
        root \in Stacks \cup UNION {partitions_of(d) : d \in Disks \ {Slot}} :
       mounts = <<[on |-> root, anon |-> FALSE, path |-> << >>]>> \o outer \o inner
  /\ backing \in [Loops -> File \cup {NoFile}]
  /\ WellFormed
  /\ image \in {f \in File : f.name = "img"}
  /\ plug \in IF Idle THEN Units ELSE UsedUnits
  /\ rdev = 0 /\ replugs = 0
  /\ pc = "start"
  /\ menu = << >> /\ target = NoNode
  /\ raw = Unset /\ size = Unset /\ id = Unset /\ shown = Unset
  /\ since = 0 /\ seen = NoNode
  /\ result = "running"

GoTo(step) == pc' = step /\ UNCHANGED <<hostVars, stickVars, since, seen, result>>

Stop(r) ==
  /\ pc' = "done"
  /\ result' = r
  /\ UNCHANGED <<hostVars, stickVars, runVars, since, seen>>

\* The step refuses and names itself, or goes on to the next.
Check(step, holds, next) ==
  /\ pc = step
  /\ IF holds THEN GoTo(next) /\ UNCHANGED runVars ELSE Stop(step)

\* What a node says of itself: a loop device and a stack have no model.
Device(n) == IF n = Slot THEN plug ELSE Fixed[n]
DeviceNumber(n) == IF n = Slot THEN rdev ELSE 2
WithMedium == {d \in Node : Device(d).size > 0}

-----------------------------------------------------------------------------
(* The device: --dev, or the menu. *)

ExplicitDevice ==
  /\ pc = "start"
  /\ target' \in Node
  /\ GoTo("cooldown")
  /\ UNCHANGED <<menu, raw, size, id, shown>>

ListCandidates ==
  /\ pc = "start"
  /\ menu' = candidate_devices(WithMedium)
  /\ GoTo("menu")
  /\ UNCHANGED <<target, raw, size, id, shown>>

\* The index of the line, which is the index of the device.
Select ==
  /\ pc = "menu"
  /\ \E i \in DOMAIN menu : target' = menu[i]
  /\ GoTo("cooldown")
  /\ UNCHANGED <<menu, raw, size, id, shown>>

\* Nothing to offer, no terminal to offer it on, or Escape.
NoSelection == pc = "menu" /\ Stop("menu")

-----------------------------------------------------------------------------
(* Phase 0. *)

resolved_cooldown_secs(arg) == IF arg = Unset THEN DEFAULT_COOLDOWN_SECS ELSE arg
validate_cooldown_secs(secs) == secs \in 1 .. MAX_COOLDOWN_SECS

ValidateCooldown ==
  \E arg \in CooldownArgs :
    Check("cooldown", validate_cooldown_secs(resolved_cooldown_secs(arg)), "root")

RootCheck == \E root \in BOOLEAN : Check("root", root, "paths")

\* What a path leads to once canonicalized, "target" being the other path's file.
FileType == {"missing", "target", "regular", "block device", "directory", "fifo"}

ensure_distinct_paths(img) == img # "target"
ensure_image_is_regular_file(img) == img = "regular"
ensure_block_device(dev) == dev = "block device"

\* Both paths resolve, to different files, of the two types wanted.
CheckPaths ==
  \E img \in FileType, dev \in FileType \ {"target"} :
    Check("paths",
          /\ img # "missing" /\ dev # "missing"
          /\ ensure_distinct_paths(img)
          /\ ensure_image_is_regular_file(img)
          /\ ensure_block_device(dev),
          "whole_disk")

\* A partition is refused before a loop's name is looked at.
ensure_whole_disk(n) == ~is_partition(n) /\ (n \in Loops \/ has_backing_device(n))

EnsureWholeDisk == Check("whole_disk", ensure_whole_disk(target), "on_target")

EnsureImageNotOnTarget ==
  Check("on_target", ensure_image_not_on_target(image, target), "format")

unsupported_archive(f) == f \in Archives
classify(f) == IF f \in Plain THEN "raw" ELSE f
is_compressed(comp) == comp # "raw"

\* The first bytes of the image.  An archive is refused: written verbatim it
\* would verify.  The length is known of a raw image only.
DetectCompression ==
  \E f \in Formats :
    /\ pc = "format"
    /\ IF unsupported_archive(f) THEN Stop("format")
       ELSE /\ raw' \in IF is_compressed(classify(f)) THEN {Unset} ELSE ImageSizes
            /\ GoTo("geometry")
            /\ UNCHANGED <<menu, target, size, id, shown>>

ensure_device_large_enough(bytes) == bytes >= 2 * WIPE_REGION
ensure_image_fits(bytes) == raw = Unset \/ raw <= bytes

\* BLKGETSIZE64 and BLKROGET of one descriptor; the switch may be either way.
query_dev_geometry_readonly == [size : {Device(target).size}, read_only : BOOLEAN]

QueryGeometry ==
  /\ pc = "geometry"
  /\ \E dev \in query_dev_geometry_readonly :
       IF /\ ~dev.read_only
          /\ ensure_device_large_enough(dev.size)
          /\ ensure_image_fits(dev.size)
       THEN /\ size' = dev.size
            /\ GoTo("capture")
            /\ UNCHANGED <<menu, target, raw, id, shown>>
       ELSE Stop("geometry")

\* DeviceIdentity::capture, with the size read before.
Capture ==
  /\ pc = "capture"
  /\ id' = [rdev |-> DeviceNumber(target), model |-> Device(target).model,
             serial |-> Device(target).serial, wwid |-> Device(target).wwid,
             size |-> size]
  /\ pc' = "model"
  /\ since' = 0 /\ seen' = Device(target)
  /\ UNCHANGED <<hostVars, stickVars, menu, target, raw, size, shown, result>>

\* The model is read once more for the prompt.
Summarise ==
  /\ pc = "model"
  /\ shown' = [model |-> Device(target).model, size |-> size]
  /\ GoTo("confirm")
  /\ UNCHANGED <<menu, target, raw, size, id>>

\* --yes, or what the operator answers.
ConfirmDestruction == \E yes \in BOOLEAN : Check("confirm", yes, "claim")

-----------------------------------------------------------------------------
(* Phase 2: the claimed descriptor must be of the device captured. *)

check_rdev == DeviceNumber(target) = id.rdev
check_model == Device(target).model = id.model
check_serial == Device(target).serial = id.serial
check_wwid == Device(target).wwid = id.wwid
check_size == Device(target).size = id.size

\* Phase 3: where the second region of the wipe begins, Unset where the two
\* would overlap.
tail_wipe_offset(bytes) ==
  IF bytes < WIPE_REGION \/ bytes - WIPE_REGION < WIPE_REGION THEN Unset
  ELSE bytes - WIPE_REGION

\* Mutant of verify_claimed: a serial is not always unique.
WithoutWwid == check_rdev /\ check_model /\ check_serial /\ check_size

verify_claimed == check_rdev /\ check_model /\ check_serial /\ check_wwid /\ check_size

VerifyClaimed ==
  /\ pc = "claim"
  /\ IF verify_claimed THEN Stop("claimed") ELSE Stop("claim")

-----------------------------------------------------------------------------
\* A stick with nothing on it is exchanged for another, which gets the same
\* device number or the next.
Replug ==
  /\ pc # "done"
  /\ replugs < MaxReplugs
  /\ Idle
  /\ plug' \in Units \ {plug}
  /\ rdev' \in {0, 1}
  /\ replugs' = replugs + 1
  /\ since' = IF id = Unset THEN 0 ELSE since + 1
  /\ UNCHANGED <<hostVars, pc, runVars, seen, result>>

Terminated == pc = "done" /\ UNCHANGED vars

Next ==
  \/ ExplicitDevice \/ ListCandidates \/ Select \/ NoSelection
  \/ ValidateCooldown \/ RootCheck \/ CheckPaths \/ EnsureWholeDisk
  \/ EnsureImageNotOnTarget \/ DetectCompression \/ QueryGeometry \/ Capture
  \/ Summarise \/ ConfirmDestruction \/ VerifyClaimed
  \/ Replug \/ Terminated

Spec == Init /\ [][Next]_vars

-----------------------------------------------------------------------------
\* phase_0.rs, target_block_subtree: the fixpoint finds exactly what changes
\* when the target is written -- nothing of it is missed, and nothing else is
\* refused for it.
SubtreeIsStack ==
  pc = "start" =>
    \A d \in Disks \cup Loops : target_block_subtree(d) = OnTopOf(d)

\* phase_0.rs, ensure_image_not_on_target: an image is turned away when and only
\* when the flash would destroy it, wherever in a stack of loops, filesystems
\* with anonymous numbers and mapped devices it is stored.
ImageVerdictIsExact ==
  /\ result = "on_target" => ImageOn(image, target)
  /\ pc = "format" => ~ImageOn(image, target)

\* identity.rs: the stick the claim holds is the one that was looked at, of the
\* model and size the operator read in the prompt, with room for the image, and
\* for a wipe of both ends that Phase 3 will not refuse once armed -- though size,
\* identity and model were read at three moments.  Only a stick exchanged for one
\* of them and put back differs in what was read then: once, for the capture, by
\* one that has the same name and another size (a card reader without its card);
\* twice, for the model on the screen.
ClaimedIsShown ==
  result = "claimed" =>
    /\ Device(target) = [seen EXCEPT !.size = shown.size]
    /\ shown.size = seen.size \/ since >= 1
    /\ shown.model = seen.model \/ since >= 2
    /\ tail_wipe_offset(size) # Unset
    /\ ensure_image_fits(Device(target).size)

\* lib.rs, "a listed disk is one the pipeline could actually proceed against;
\* the system disk never appears": no disk on the menu holds the root filesystem.
SystemDiskNeverOffered ==
  \A i \in DOMAIN menu : mounts[1].on \notin OnTopOf(menu[i])
=============================================================================
