------------------------------- MODULE ImiRun -------------------------------
(***************************************************************************)
(* One run of the whole pipeline (lib.rs, run_with, and the run functions  *)
(* of phases/phase_0.rs to phase_7.rs): the typestate handoffs, the flash  *)
(* guard (common/guard.rs, common/session.rs), the classification of the   *)
(* error (error.rs), the events a front end is told (events.rs), and the   *)
(* world that moves meanwhile: the cancel flag, a stick that is pulled and *)
(* replaced, and other users of the device (mounts, swap, stacked volumes).*)
(* The write loop of Phase 4 is one step here; FlashPipeline and           *)
(* FlashSerial hold its detail.                                            *)
(***************************************************************************)
EXTENDS Naturals, Functions

CONSTANTS
  Devices,   \* devices that may sit behind the target's name
  NoDevice,  \* nothing is plugged in, nothing is held
  Identity,  \* what sysfs tells of a device (model, serial, WWID), or of none;
             \* devices without a serial or WWID of their own may share it
  MaxPlugs   \* bound on how often the stick is pulled or replaced

ASSUME DevicesAssumption ==
  /\ NoDevice \notin Devices
  /\ DOMAIN Identity = Devices \cup {NoDevice}
  /\ MaxPlugs \in Nat

VARIABLES
  \* the caller
  config,    \* the three options that choose a path: skip_cooldown,
             \* skip_verification, yes
  cancel,    \* the caller's cancel flag, never cleared
  early,     \* history: the flag was set before the run was called
  \* the world
  node,      \* the device behind dev_canon and dev_kname
  plugs,     \* how often that changed
  users,     \* what else uses that device
  medium,    \* what each device really holds
  cached,    \* what the page cache holds of the claimed device
  \* the run
  pc,
  ident,     \* the DeviceIdentity captured by Phase 0
  approved,  \* the operator, or --yes, agreed to destroy it
  seen,      \* the mounts Phase 1 found
  held,      \* the device the O_EXCL descriptor refers to
  gone,      \* that device was unplugged since
  guard,     \* the guard's phase, or "none" where no guard exists
  attempt,   \* Phase 7's sweep
  result, err,
  \* what an observer sees
  open,      \* phases started and not finished
  stray,     \* phases finished that were not started
  fatal      \* the guard phase the FATAL notice named, or "none"

worldVars == <<node, plugs, users, medium, cached>>
targetVars == <<config, early, ident, approved, seen>>
claimVars == <<held, gone, guard>>
reportVars == <<result, err, fatal>>
eventVars == <<open, stray>>
vars == <<worldVars, targetVars, claimVars, reportVars, eventVars, cancel, pc, attempt>>

Phases == {"preflight", "topology", "claim", "wipe", "flash", "cooldown",
           "verify", "kernel_sync", "automount"}
ArmedPhases == {"wiping", "writing", "cooldown", "verifying"}
GuardPhases == ArmedPhases \cup {"disarmed"}
Kinds == {"refused", "cancelled", "verification_failed", "failed"}
DeviceStates == {"untouched", "indeterminate", "written"}
Uses == {"media", "system", "swap", "stacked"}  \* media: mounted under a whitelisted root
Mounts == {"media", "system"}
Steps == {"preflight", "confirm", "stacked", "mounts", "swapoff", "unmount",
          "rescan", "claim", "recheck", "identity", "size", "cancel_check",
          "arm", "wipe", "flash", "write", "cooldown", "countdown", "verify",
          "flush", "compare", "disarm", "release", "settle", "devts", "sweep",
          "done"}
NoError == [phase |-> "none", kind |-> "none", device |-> "none"]

TypeOK ==
  /\ config \in [skip_cooldown : BOOLEAN, skip_verification : BOOLEAN, yes : BOOLEAN]
  /\ cancel \in BOOLEAN /\ early \in BOOLEAN
  /\ node \in Devices \cup {NoDevice}
  /\ plugs \in 0 .. MaxPlugs
  /\ users \in SUBSET Uses
  /\ medium \in [Devices -> {"old", "mixed", "image"}]
  /\ cached \in {"none", "image"}
  /\ pc \in Steps
  /\ ident \in Range(Identity)
  /\ approved \in BOOLEAN
  /\ seen \in SUBSET Mounts
  /\ held \in Devices \cup {NoDevice}
  /\ gone \in BOOLEAN
  /\ guard \in GuardPhases \cup {"none"}
  /\ attempt \in 1 .. 4
  /\ result \in {"running", "ok", "err", "panic"}
  /\ err \in [phase : Phases, kind : Kinds, device : DeviceStates] \cup {NoError}
  /\ open \in SUBSET Phases
  /\ stray \in SUBSET Phases
  /\ fatal \in ArmedPhases \cup {"none"}

Init ==
  /\ config \in [skip_cooldown : BOOLEAN, skip_verification : BOOLEAN, yes : BOOLEAN]
  /\ cancel \in BOOLEAN
  /\ early = cancel
  /\ node \in Devices
  /\ plugs = 0
  /\ users \in SUBSET Uses
  /\ medium = [d \in Devices |-> "old"]
  /\ cached = "none"
  /\ pc = "preflight"
  /\ ident = Identity[NoDevice]
  /\ approved = FALSE
  /\ seen = {}
  /\ held = NoDevice
  /\ gone = FALSE
  /\ guard = "none"
  /\ attempt = 1
  /\ result = "running"
  /\ err = NoError
  /\ open = {}
  /\ stray = {}
  /\ fatal = "none"

-----------------------------------------------------------------------------
(* Events, errors and the guard. *)

Started(p) == open' = open \cup {p} /\ UNCHANGED stray

Finished(p) ==
  /\ open' = open \ {p}
  /\ stray' = IF p \in open THEN stray ELSE stray \cup {p}

\* Error::at, at a phase boundary: a plain failure of an untouched device is a
\* refusal.
SettledKind(kind, device) ==
  IF kind = "failed" /\ device = "untouched" THEN "refused" ELSE kind

\* Dropping the guard: the FATAL notice if it is armed, and the claim is gone.
DropGuard ==
  /\ fatal' = IF guard \in ArmedPhases THEN guard ELSE fatal
  /\ guard' = "none"
  /\ held' = NoDevice
  /\ UNCHANGED gone

\* run_with returns the error of phase p, dropping what it holds.
Return(p, kind, device) ==
  /\ DropGuard
  /\ result' = "err"
  /\ err' = [phase |-> p, kind |-> SettledKind(kind, device), device |-> device]
  /\ pc' = "done"

Fail(p, kind, device) == Return(p, kind, device) /\ Finished(p)

\* The same on the first step of a phase: it is started and finished at once.
FailAtStart(p, kind, device) == Return(p, kind, device) /\ UNCHANGED eventVars

\* A worker's panic unwinds through every phase function: no event, no Error.
Unwind ==
  /\ DropGuard
  /\ result' = "panic"
  /\ pc' = "done"
  /\ UNCHANGED <<err, eventVars>>

\* The run goes on at step s; nothing is returned yet.
GoTo(s) == pc' = s /\ UNCHANGED reportVars

Armed == guard \in ArmedPhases

\* Mutant of SetPhase: the label stays what arm set.
SetPhaseIgnored(p) == guard' = IF p \in ArmedPhases THEN guard ELSE p

\* FlashGuard::advance_phase changes the phase of an armed guard only.
SetPhase(p) == guard' = IF Armed THEN p ELSE guard

\* A descriptor of an unplugged device fails every transfer.
Reachable == held # NoDevice /\ ~gone

-----------------------------------------------------------------------------
(* Phase 0 -- validation and the operator's consent. *)

\* Every check up to the identity snapshot; any of them may refuse.
Preflight ==
  /\ pc = "preflight"
  /\ \/ /\ node # NoDevice
        /\ ident' = Identity[node]
        /\ Started("preflight")
        /\ GoTo("confirm")
        /\ UNCHANGED claimVars
     \/ /\ FailAtStart("preflight", "failed", "untouched")
        /\ UNCHANGED ident
  /\ UNCHANGED <<worldVars, config, early, approved, seen, cancel, attempt>>

\* confirm_destruction: --yes, or the answer of the front end.
Confirm ==
  /\ pc = "confirm"
  /\ \/ /\ approved' = TRUE
        /\ Finished("preflight")
        /\ GoTo("stacked")
        /\ UNCHANGED claimVars
     \/ /\ ~config.yes
        /\ Fail("preflight", "failed", "untouched")
        /\ UNCHANGED approved
  /\ UNCHANGED <<worldVars, config, early, ident, seen, cancel, attempt>>

-----------------------------------------------------------------------------
(* Phase 1 -- clear the target of what uses it. *)

phase1Frame == <<node, plugs, medium, cached, config, early, ident, approved,
                 cancel, attempt>>

\* reject_active_stacked_volumes.
RejectStacked ==
  /\ pc = "stacked"
  /\ \/ /\ "stacked" \notin users
        /\ node # NoDevice
        /\ Started("topology")
        /\ GoTo("mounts")
        /\ UNCHANGED claimVars
     \/ FailAtStart("topology", "failed", "untouched")
  /\ UNCHANGED <<phase1Frame, users, seen>>

\* TargetDevts::from_disk, mounts_on_target, enforce_whitelist.
FindMounts ==
  /\ pc = "mounts"
  /\ seen' = users \cap Mounts
  /\ \/ /\ "system" \notin users
        /\ node # NoDevice
        /\ GoTo("swapoff")
        /\ UNCHANGED <<claimVars, eventVars>>
     \/ Fail("topology", "failed", "untouched")
  /\ UNCHANGED <<phase1Frame, users>>

\* disable_swaps_on_target.
DisableSwaps ==
  /\ pc = "swapoff"
  /\ \/ /\ users' = users \ {"swap"}
        /\ GoTo("unmount")
        /\ UNCHANGED <<claimVars, eventVars>>
     \/ Fail("topology", "failed", "untouched") /\ UNCHANGED users
  /\ UNCHANGED <<phase1Frame, seen>>

\* unmount_all, over the mounts found before: one that is gone by now, or that
\* is busy, is refused.
UnmountAll ==
  /\ pc = "unmount"
  /\ \/ /\ seen \subseteq users
        /\ users' = users \ seen
        /\ GoTo("rescan")
        /\ UNCHANGED <<claimVars, eventVars>>
     \/ /\ \E done \in SUBSET seen \ {seen} : users' = users \ done
        /\ Fail("topology", "failed", "untouched")
  /\ UNCHANGED <<phase1Frame, seen>>

\* The residual scan, and ensure_unmounted.
Rescan ==
  /\ pc = "rescan"
  /\ \/ /\ users \cap Mounts = {}
        /\ Finished("topology")
        /\ GoTo("claim")
        /\ UNCHANGED claimVars
     \/ Fail("topology", "failed", "untouched")
  /\ UNCHANGED <<phase1Frame, users, seen>>

-----------------------------------------------------------------------------
(* Phase 2 -- the exclusive claim, and the re-checks under it. *)

phase2Frame == <<worldVars, targetVars, cancel, attempt>>

\* Mutant of Claim: the descriptor is opened without O_EXCL.
ClaimShared ==
  /\ pc = "claim"
  /\ \/ /\ node # NoDevice
        /\ held' = node
        /\ gone' = FALSE
        /\ guard' = "disarmed"
        /\ Started("claim")
        /\ GoTo("recheck")
     \/ FailAtStart("claim", "failed", "untouched")
  /\ UNCHANGED phase2Frame

\* open_exclusive: the kernel grants O_EXCL only while nothing else uses the
\* device; FlashGuard::new.
Claim ==
  /\ pc = "claim"
  /\ \/ /\ users = {}
        /\ node # NoDevice
        /\ held' = node
        /\ gone' = FALSE
        /\ guard' = "disarmed"
        /\ Started("claim")
        /\ GoTo("recheck")
     \/ FailAtStart("claim", "failed", "untouched")
  /\ UNCHANGED phase2Frame

\* The second look at stacked volumes and mounts; it does not look at swaps.
Recheck ==
  /\ pc = "recheck"
  /\ \/ /\ node # NoDevice
        /\ users \cap (Mounts \cup {"stacked"}) = {}
        /\ GoTo("identity")
        /\ UNCHANGED <<claimVars, eventVars>>
     \/ Fail("claim", "failed", "untouched")
  /\ UNCHANGED phase2Frame

\* Mutant of CheckIdentity: the snapshot is not compared.
CheckIdentitySkipped ==
  /\ pc = "identity"
  /\ GoTo("size")
  /\ UNCHANGED <<phase2Frame, claimVars, eventVars>>

\* verify_claimed, through sysfs: model, serial and WWID of whatever has the
\* kernel name now.  Any two devices may share the device number.
CheckIdentity ==
  /\ pc = "identity"
  /\ \/ /\ Identity[node] = ident
        /\ GoTo("size")
        /\ UNCHANGED <<claimVars, eventVars>>
     \/ Fail("claim", "failed", "untouched")
  /\ UNCHANGED phase2Frame

\* verify_claimed, through the descriptor: BLKGETSIZE64.  Any two devices may
\* have the same size, but a device that was unplugged does not answer.
CheckSize ==
  /\ pc = "size"
  /\ \/ /\ Reachable
        /\ Finished("claim")
        /\ GoTo("cancel_check")
        /\ UNCHANGED claimVars
     \/ Fail("claim", "failed", "untouched")
  /\ UNCHANGED phase2Frame

-----------------------------------------------------------------------------
(* Phase 3 -- the last look at the flag, then the wipe. *)

\* Mutant of CheckCancel: left to the polls of Phase 4.
CheckCancelSkipped ==
  /\ pc = "cancel_check"
  /\ GoTo("arm")
  /\ UNCHANGED <<phase2Frame, claimVars, eventVars>>

\* preflight: the session is dropped disarmed.
CheckCancel ==
  /\ pc = "cancel_check"
  /\ IF cancel THEN Fail("wipe", "cancelled", "untouched")
     ELSE GoTo("arm") /\ UNCHANGED <<claimVars, eventVars>>
  /\ UNCHANGED phase2Frame

\* Session::arm.
Arm ==
  /\ pc = "arm"
  /\ guard' = "wiping"
  /\ Started("wipe")
  /\ GoTo("wipe")
  /\ UNCHANGED <<phase2Frame, held, gone>>

\* What a write that was interrupted leaves on the claimed device.
Damage == medium' \in {medium, [medium EXCEPT ![held] = "mixed"]}

\* Mutant of Wipe: the phase reports one device state for all its failures.
WipeUntouched ==
  /\ pc = "wipe"
  /\ \/ /\ Reachable
        /\ medium' = [medium EXCEPT ![held] = "mixed"]
        /\ Finished("wipe")
        /\ GoTo("flash")
        /\ UNCHANGED claimVars
     \/ /\ IF Reachable THEN Damage ELSE UNCHANGED medium
        /\ Fail("wipe", "failed", "untouched")
  /\ UNCHANGED <<node, plugs, users, cached, targetVars, cancel, attempt>>

\* wipe_ends: head, tail, fdatasync.
Wipe ==
  /\ pc = "wipe"
  /\ \/ /\ Reachable
        /\ medium' = [medium EXCEPT ![held] = "mixed"]
        /\ Finished("wipe")
        /\ GoTo("flash")
        /\ UNCHANGED claimVars
     \/ /\ IF Reachable THEN Damage ELSE UNCHANGED medium
        /\ Fail("wipe", "failed", "indeterminate")
  /\ UNCHANGED <<node, plugs, users, cached, targetVars, cancel, attempt>>

-----------------------------------------------------------------------------
(* Phase 4 -- the image is written. *)

FlashStart ==
  /\ pc = "flash"
  /\ SetPhase("writing")
  /\ Started("flash")
  /\ GoTo("write")
  /\ UNCHANGED <<phase2Frame, held, gone>>

\* The write loop and the final fdatasync.  A device that lies about its
\* capacity, or fails, may not hold what it acknowledged.
Write ==
  /\ pc = "write"
  /\ Reachable
  /\ medium' \in {[medium EXCEPT ![held] = m] : m \in {"image", "mixed"}}
  /\ cached' = "image"
  /\ Finished("flash")
  /\ GoTo("cooldown")
  /\ UNCHANGED <<node, plugs, users, targetVars, claimVars, cancel, attempt>>

\* An error or a cancellation in the write loop, or a panic of the worker.
WriteStops ==
  /\ pc = "write"
  /\ \/ Fail("flash", "failed", "indeterminate")
     \/ cancel /\ Fail("flash", "cancelled", "indeterminate")
     \/ Unwind
  /\ UNCHANGED phase2Frame

-----------------------------------------------------------------------------
(* Phase 5 -- cooldown and read-back, each of them optional. *)

CooldownStart ==
  /\ pc = "cooldown"
  /\ IF config.skip_cooldown
     THEN GoTo("verify") /\ UNCHANGED <<claimVars, eventVars>>
     ELSE /\ SetPhase("cooldown")
          /\ Started("cooldown")
          /\ GoTo("countdown")
          /\ UNCHANGED <<held, gone>>
  /\ UNCHANGED phase2Frame

\* Mutant of Countdown: on a cancellation only the phase around it is finished.
CountdownLeftOpen ==
  /\ pc = "countdown"
  /\ \/ /\ Finished("cooldown")
        /\ GoTo("verify")
        /\ UNCHANGED claimVars
     \/ cancel /\ Fail("verify", "cancelled", "indeterminate")
  /\ UNCHANGED phase2Frame

\* The countdown polls the flag each second, but not after the last one; both
\* the countdown and the phase around it report that they finished.
Countdown ==
  /\ pc = "countdown"
  /\ \/ /\ Finished("cooldown")
        /\ GoTo("verify")
        /\ UNCHANGED claimVars
     \/ /\ cancel
        /\ Return("verify", "cancelled", "indeterminate")
        /\ open' = open \ {"cooldown", "verify"}
        /\ stray' = stray \cup ({"cooldown", "verify"} \ open)
  /\ UNCHANGED phase2Frame

VerifyStart ==
  /\ pc = "verify"
  /\ IF config.skip_verification
     THEN Finished("verify") /\ GoTo("disarm") /\ UNCHANGED claimVars
     ELSE /\ SetPhase("verifying")
          /\ Started("verify")
          /\ GoTo("flush")
          /\ UNCHANGED <<held, gone>>
  /\ UNCHANGED phase2Frame

\* Mutant of FlushCache: the pages just written stay in the cache.
FlushNothing ==
  /\ pc = "flush"
  /\ Reachable
  /\ GoTo("compare")
  /\ UNCHANGED <<worldVars, targetVars, claimVars, eventVars, cancel, attempt>>

\* BLKFLSBUF: what is read from here on comes from the medium.
FlushCache ==
  /\ pc = "flush"
  /\ \/ /\ Reachable
        /\ cached' = "none"
        /\ GoTo("compare")
        /\ UNCHANGED <<claimVars, eventVars>>
     \/ /\ Fail("verify", "failed", "indeterminate")
        /\ UNCHANGED cached
  /\ UNCHANGED <<node, plugs, users, medium, targetVars, cancel, attempt>>

\* What a buffered read of the claimed device returns.
ReadBack == IF cached # "none" THEN cached ELSE medium[held]

Compare ==
  /\ pc = "compare"
  /\ Reachable
  /\ IF ReadBack = "image"
     THEN /\ Finished("verify")
          /\ GoTo("disarm")
          /\ UNCHANGED claimVars
     ELSE Fail("verify", "verification_failed", "indeterminate")
  /\ UNCHANGED <<worldVars, targetVars, cancel, attempt>>

CompareStops ==
  /\ pc = "compare"
  /\ \/ Fail("verify", "failed", "indeterminate")
     \/ cancel /\ Fail("verify", "cancelled", "indeterminate")
     \/ Unwind
  /\ UNCHANGED phase2Frame

-----------------------------------------------------------------------------
(* Phase 6 -- close the window and release the claim; it cannot fail. *)

Disarm ==
  /\ pc = "disarm"
  /\ guard' = "disarmed"
  /\ Started("kernel_sync")
  /\ GoTo("release")
  /\ UNCHANGED <<phase2Frame, held, gone>>

\* BLKRRPART, whose failure is only a warning, and into_file.
Release ==
  /\ pc = "release"
  /\ guard' = "none"
  /\ held' = NoDevice
  /\ Finished("kernel_sync")
  /\ GoTo("settle")
  /\ UNCHANGED <<phase2Frame, gone>>

-----------------------------------------------------------------------------
(* Phase 7 -- sweep away automounts. *)

Settle ==
  /\ pc = "settle"
  /\ IF cancel THEN FailAtStart("automount", "cancelled", "written")
     ELSE Started("automount") /\ GoTo("devts") /\ UNCHANGED claimVars
  /\ UNCHANGED phase2Frame

RebuildDevts ==
  /\ pc = "devts"
  /\ \/ node # NoDevice /\ GoTo("sweep") /\ UNCHANGED <<claimVars, eventVars>>
     \/ Fail("automount", "failed", "written")
  /\ UNCHANGED phase2Frame

\* Mutant of Sweep: off by one.
SweepOnceMore ==
  /\ pc = "sweep"
  /\ attempt <= 4
  /\ ~cancel
  /\ users \cap Mounts # {}
  /\ \E stuck \in SUBSET (users \cap Mounts) : users' = (users \ Mounts) \cup stuck
  /\ attempt' = attempt + 1
  /\ UNCHANGED <<node, plugs, medium, cached, targetVars, claimVars, reportVars,
                 eventVars, cancel, pc>>

\* Mutant of Sweep: the passes are not counted.
SweepUncounted ==
  /\ pc = "sweep"
  /\ attempt <= 3
  /\ ~cancel
  /\ users \cap Mounts # {}
  /\ \E stuck \in SUBSET (users \cap Mounts) : users' = (users \ Mounts) \cup stuck
  /\ UNCHANGED attempt
  /\ UNCHANGED <<node, plugs, medium, cached, targetVars, claimVars, reportVars,
                 eventVars, cancel, pc>>

\* One pass: the flag, the scan, a plain umount of each mount, which may fail.
Sweep ==
  /\ pc = "sweep"
  /\ attempt <= 3
  /\ ~cancel
  /\ users \cap Mounts # {}
  /\ \E stuck \in SUBSET (users \cap Mounts) : users' = (users \ Mounts) \cup stuck
  /\ attempt' = attempt + 1
  /\ UNCHANGED <<node, plugs, medium, cached, targetVars, claimVars, reportVars,
                 eventVars, cancel, pc>>

\* A pass, or the final scan, finds no mount: run_with reports the device done.
SweepClean ==
  /\ pc = "sweep"
  /\ attempt <= 3 => ~cancel
  /\ users \cap Mounts = {}
  /\ Finished("automount")
  /\ result' = "ok"
  /\ pc' = "done"
  /\ UNCHANGED <<phase2Frame, claimVars, err, fatal>>

\* The flag is polled before a pass; mounts that outlive the third pass, and a
\* scan that cannot be made, are errors.
SweepStops ==
  /\ pc = "sweep"
  /\ \/ attempt <= 3 /\ cancel /\ Fail("automount", "cancelled", "written")
     \/ attempt > 3 /\ users \cap Mounts # {} /\ Fail("automount", "failed", "written")
     \/ Fail("automount", "failed", "written")
  /\ UNCHANGED phase2Frame

Run ==
  \/ Preflight \/ Confirm
  \/ RejectStacked \/ FindMounts \/ DisableSwaps \/ UnmountAll \/ Rescan
  \/ Claim \/ Recheck \/ CheckIdentity \/ CheckSize
  \/ CheckCancel \/ Arm \/ Wipe
  \/ FlashStart \/ Write \/ WriteStops
  \/ CooldownStart \/ Countdown \/ VerifyStart \/ FlushCache \/ Compare \/ CompareStops
  \/ Disarm \/ Release
  \/ Settle \/ RebuildDevts \/ Sweep \/ SweepClean \/ SweepStops

-----------------------------------------------------------------------------
(* The world. *)

worldFrame == <<medium, cached, targetVars, held, guard, reportVars, eventVars,
                pc, attempt>>

RequestCancel ==
  /\ ~cancel
  /\ cancel' = TRUE
  /\ UNCHANGED <<worldFrame, node, plugs, users, gone>>

\* The stick is pulled, and another one, or none, takes its name.
Replug ==
  /\ plugs < MaxPlugs
  /\ result = "running"
  /\ node' \in (Devices \cup {NoDevice}) \ {node}
  /\ plugs' = plugs + 1
  /\ users' = {}
  /\ gone' = (gone \/ held # NoDevice)
  /\ UNCHANGED <<worldFrame, cancel>>

\* Something else begins to use the device; an exclusive claim keeps it out.
Use ==
  /\ result = "running"
  /\ node # NoDevice
  /\ held = NoDevice \/ gone
  /\ \E u \in Uses \ users : users' = users \cup {u}
  /\ UNCHANGED <<worldFrame, node, plugs, gone, cancel>>

World == RequestCancel \/ Replug \/ Use

Terminated == pc = "done" /\ UNCHANGED vars

Next == Run \/ World \/ Terminated

Spec == Init /\ [][Next]_vars

\* The thread is scheduled; the front end answers; every call returns.
FairSpec == Spec /\ WF_vars(Run)

-----------------------------------------------------------------------------
(* Properties. *)

Written == {d \in Devices : medium[d] # "old"}

\* A device holds the image; without a read-back, it was written at least.
HoldsImage == \E d \in Written : config.skip_verification \/ medium[d] = "image"

\* The replug check (common/identity.rs) and the consent gate: whatever is
\* pulled and replaced when, at most one device is ever written, and it is one
\* that sysfs cannot tell from the device the operator agreed to destroy.
OnlyApprovedIsWritten ==
  Written # {} => approved /\ \E d \in Devices : Written = {d} /\ Identity[d] = ident

\* Phase 1's clearing, the claim and the re-checks add up: no step writes to a
\* device that is mounted, swapped on or stacked at that time.
NeverWritesUnderUse == [][medium' # medium => node = held /\ users = {}]_vars

\* events.rs, Error::device_state: what a failed run says of the device is what
\* happened to it.
ReportIsTruthful ==
  result = "err" =>
    /\ err.device = "untouched" => Written = {}
    /\ err.device = "written" => HoldsImage
    /\ err.kind = "refused" => Written = {}
    /\ err.kind = "cancelled" => cancel
    /\ err.kind = "verification_failed" => \A d \in Devices : medium[d] # "image"

\* The guard's notice on stderr and the error's device state come from two
\* mechanisms and must agree: the notice is printed exactly when the device is
\* left indeterminate, it names the phase that stopped, and never after success.
FatalMatchesReport ==
  /\ result = "err" => (fatal # "none" <=> err.device = "indeterminate")
  /\ result = "err" /\ fatal # "none" =>
       err.phase = CASE fatal = "wiping" -> "wipe"
                     [] fatal = "writing" -> "flash"
                     [] fatal \in {"cooldown", "verifying"} -> "verify"
  /\ result = "panic" => fatal \in {"writing", "verifying"}
  /\ result = "ok" => fatal = "none"

\* finished is the one signal that the device may be unplugged: the medium, and
\* not merely the page cache, holds the image, unless verification was waived.
SuccessIsOnMedium == result = "ok" => HoldsImage

\* phase_3.rs, preflight: a flag already set when the caller invoked the run
\* must not cost the operator the partition table.
EarlyCancelCostsNothing == early => Written = {}

\* Every phase a front end saw start has been finished when the run returns,
\* whichever way it ended; only a panic leaves one open.
NothingLeftOpen == result \in {"ok", "err"} => open = {}

\* The run ends, whoever cancels, replugs or mounts.
Terminates == <>(pc = "done")

-----------------------------------------------------------------------------
(* Statements of the documentation that the code does not keep. *)

\* events.rs, phase_finished: "Always paired with a phase_started".
FinishedIsPaired == stray = {}

\* lib.rs, run's Errors: "from Phase 3 onward the armed FlashGuard additionally
\* prints a FATAL notice".
FatalFromPhase3 ==
  result = "err" /\ err.phase \in {"wipe", "flash", "verify", "automount"} =>
    fatal # "none"
=============================================================================
