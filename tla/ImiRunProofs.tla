----------------------------- MODULE ImiRunProofs -----------------------------
(***************************************************************************)
(* Proofs about a whole run, for any number of devices, any sharing of     *)
(* identities and any number of replugs.  IInv says, for each step of the  *)
(* run, what the guard, the claim, the open phases and the medium must be; *)
(* the promises about a run that ended follow at the step that ends it.    *)
(***************************************************************************)
EXTENDS ImiRun, TLAPS

Unclaimed == {"preflight", "confirm", "stacked", "mounts", "swapoff", "unmount", "rescan",
              "claim"}
Checking == {"recheck", "identity", "size", "cancel_check", "arm"}
Writing == {"flash", "write", "cooldown", "countdown", "verify", "flush", "compare",
            "disarm", "release"}
Released == {"settle", "devts", "sweep"}

\* What the guard says at each step, and whether there is a claim.
GuardMatches ==
  /\ pc \in Unclaimed \cup Released \cup {"done"} => guard = "none" /\ held = NoDevice
  /\ pc \in Checking \cup {"wipe"} \cup Writing => held \in Devices
  /\ pc \in Checking \cup {"release"} => guard = "disarmed"
  /\ pc \in {"wipe", "flash"} => guard = "wiping"
  /\ pc \in {"write", "cooldown"} => guard = "writing"
  /\ pc = "countdown" => guard = "cooldown"
  /\ pc = "verify" => guard \in {"writing", "cooldown"}
  /\ pc \in {"flush", "compare"} => guard = "verifying"
  /\ pc = "disarm" => guard \in {"writing", "cooldown", "verifying"}
  /\ result = "running" <=> pc # "done"
  /\ pc # "done" => fatal = "none"

\* The one phase that is started and not finished.
OpenPhase ==
  /\ pc \in {"preflight", "stacked", "claim", "cancel_check", "arm", "flash", "cooldown",
             "verify", "disarm", "settle"} => open = {}
  /\ pc = "confirm" => open = {"preflight"}
  /\ pc \in {"mounts", "swapoff", "unmount", "rescan"} => open = {"topology"}
  /\ pc \in {"recheck", "identity", "size"} => open = {"claim"}
  /\ pc = "wipe" => open = {"wipe"}
  /\ pc = "write" => open = {"flash"}
  /\ pc = "countdown" => open = {"cooldown"}
  /\ pc \in {"flush", "compare"} => open = {"verify"}
  /\ pc = "release" => open = {"kernel_sync"}
  /\ pc \in {"devts", "sweep"} => open = {"automount"}

\* The claim keeps others out, and a replug is seen by the descriptor.
ClaimExcludes == held # NoDevice /\ ~gone => node = held /\ users = {}

\* What is behind the descriptor is what the operator agreed to.
Consented ==
  /\ pc \notin {"preflight", "confirm", "done"} => approved
  /\ pc = "size" /\ ~gone => Identity[held] = ident
  /\ pc \in {"cancel_check", "arm", "wipe"} \cup Writing => Identity[held] = ident

\* A flag set before the run stops it before the guard is armed.
EarlyStops ==
  /\ early => cancel
  /\ pc \in {"arm", "wipe"} \cup Writing \cup Released => ~early

\* What was written by then.
MediumMatches ==
  /\ pc \in Unclaimed \cup Checking \cup {"wipe"} => Written = {}
  /\ pc \in Writing => Written = {held}
  /\ pc \in {"disarm", "release"} \cup Released => HoldsImage
  /\ pc = "compare" => cached = "none"

Promises ==
  /\ OnlyApprovedIsWritten
  /\ ReportIsTruthful
  /\ FatalMatchesReport
  /\ SuccessIsOnMedium
  /\ EarlyCancelCostsNothing
  /\ NothingLeftOpen

IInv ==
  /\ TypeOK
  /\ GuardMatches
  /\ OpenPhase
  /\ ClaimExcludes
  /\ Consented
  /\ EarlyStops
  /\ MediumMatches
  /\ Promises

-----------------------------------------------------------------------------
(* The guard, the claim and the open phase. *)

\* Each step leaves the guard with the label of the step that follows, and a step
\* that ends the run drops it.
LEMMA GuardStep ==
  ASSUME IInv, Next
  PROVE  GuardMatches'
<1> USE DEF IInv, GuardMatches, Unclaimed, Checking, Writing, Released, GoTo, Fail,
            FailAtStart, Return, DropGuard, ArmedPhases, claimVars, reportVars
<1>1. CASE Preflight \/ Confirm \/ RejectStacked \/ FindMounts
  BY <1>1 DEF Preflight, Confirm, RejectStacked, FindMounts
<1>2. CASE DisableSwaps \/ UnmountAll \/ Rescan
  BY <1>2 DEF DisableSwaps, UnmountAll, Rescan
<1>3. CASE Claim
  BY <1>3 DEF Claim, TypeOK
<1>4. CASE Recheck \/ CheckIdentity \/ CheckSize \/ CheckCancel
  BY <1>4 DEF Recheck, CheckIdentity, CheckSize, CheckCancel
<1>5. CASE Arm \/ Wipe \/ FlashStart
  BY <1>5 DEF Arm, Wipe, FlashStart, SetPhase, Armed
<1>6. CASE Write \/ WriteStops
  BY <1>6 DEF Write, WriteStops, Unwind
<1>7. CASE CooldownStart \/ Countdown \/ VerifyStart
  BY <1>7 DEF CooldownStart, Countdown, VerifyStart, SetPhase, Armed
<1>8. CASE FlushCache \/ Compare \/ CompareStops
  BY <1>8 DEF FlushCache, Compare, CompareStops, Unwind
<1>9. CASE Disarm \/ Release
  BY <1>9 DEF Disarm, Release
<1>10. CASE Settle \/ RebuildDevts \/ Sweep \/ SweepClean \/ SweepStops
  BY <1>10 DEF Settle, RebuildDevts, Sweep, SweepClean, SweepStops
<1>11. CASE World
  BY <1>11 DEF World, RequestCancel, Replug, Use, worldFrame
<1>12. CASE Terminated
  BY <1>12 DEF Terminated, vars
<1> QED
  BY <1>1, <1>2, <1>3, <1>4, <1>5, <1>6, <1>7, <1>8, <1>9, <1>10, <1>11, <1>12
     DEF Next, Run

\* A phase is started by its first step and finished by its last, or by the error.
LEMMA OpenStep ==
  ASSUME IInv, Next
  PROVE  OpenPhase' /\ NothingLeftOpen'
<1> USE DEF IInv, OpenPhase, NothingLeftOpen, Promises, GuardMatches, GoTo, Started,
            Finished, Fail, FailAtStart, Return, Unwind, eventVars, reportVars
<1>1. CASE Preflight \/ Confirm \/ RejectStacked \/ FindMounts
  BY <1>1 DEF Preflight, Confirm, RejectStacked, FindMounts
<1>2. CASE DisableSwaps \/ UnmountAll \/ Rescan
  BY <1>2 DEF DisableSwaps, UnmountAll, Rescan
<1>3. CASE Claim \/ Recheck \/ CheckIdentity \/ CheckSize
  BY <1>3 DEF Claim, Recheck, CheckIdentity, CheckSize
<1>4. CASE CheckCancel \/ Arm \/ Wipe
  BY <1>4 DEF CheckCancel, Arm, Wipe
<1>5. CASE FlashStart \/ Write \/ WriteStops
  BY <1>5 DEF FlashStart, Write, WriteStops
<1>6. CASE CooldownStart \/ Countdown \/ VerifyStart
  BY <1>6 DEF CooldownStart, Countdown, VerifyStart
<1>7. CASE FlushCache \/ Compare \/ CompareStops
  BY <1>7 DEF FlushCache, Compare, CompareStops
<1>8. CASE Disarm \/ Release \/ Settle \/ RebuildDevts
  BY <1>8 DEF Disarm, Release, Settle, RebuildDevts
<1>9. CASE Sweep \/ SweepClean \/ SweepStops
  BY <1>9 DEF Sweep, SweepClean, SweepStops
<1>10. CASE World \/ Terminated
  BY <1>10 DEF World, RequestCancel, Replug, Use, worldFrame, Terminated, vars
<1> QED
  BY <1>1, <1>2, <1>3, <1>4, <1>5, <1>6, <1>7, <1>8, <1>9, <1>10 DEF Next, Run

\* What the run leaves alone, for the steps that neither write nor claim.
LEMMA RunFrame ==
  ASSUME Run
  PROVE  /\ UNCHANGED <<node, plugs, config, cancel, early>>
         /\ gone' = gone \/ Claim
         /\ held' \in {held, NoDevice} \/ Claim
         /\ medium' = medium \/ Wipe \/ Write
         /\ cached' = cached \/ Write \/ FlushCache
         /\ users' = users \/ pc \in {"swapoff", "unmount", "sweep"}
         /\ ident' = ident \/ pc = "preflight"
         /\ approved' = approved \/ pc = "confirm"
<1> USE DEF Fail, FailAtStart, Return, Unwind, DropGuard, worldVars, targetVars, claimVars,
            phase1Frame, phase2Frame
<1>1. CASE Preflight \/ Confirm \/ RejectStacked \/ FindMounts
  BY <1>1 DEF Preflight, Confirm, RejectStacked, FindMounts
<1>2. CASE DisableSwaps \/ UnmountAll \/ Rescan
  BY <1>2 DEF DisableSwaps, UnmountAll, Rescan
<1>3. CASE Claim \/ Recheck \/ CheckIdentity \/ CheckSize
  BY <1>3 DEF Claim, Recheck, CheckIdentity, CheckSize
<1>4. CASE CheckCancel \/ Arm \/ Wipe
  BY <1>4 DEF CheckCancel, Arm, Wipe
<1>5. CASE FlashStart \/ Write \/ WriteStops
  BY <1>5 DEF FlashStart, Write, WriteStops
<1>6. CASE CooldownStart \/ Countdown \/ VerifyStart
  BY <1>6 DEF CooldownStart, Countdown, VerifyStart
<1>7. CASE FlushCache \/ Compare \/ CompareStops
  BY <1>7 DEF FlushCache, Compare, CompareStops
<1>8. CASE Disarm \/ Release \/ Settle \/ RebuildDevts
  BY <1>8 DEF Disarm, Release, Settle, RebuildDevts
<1>9. CASE Sweep \/ SweepClean \/ SweepStops
  BY <1>9 DEF Sweep, SweepClean, SweepStops
<1> QED
  BY <1>1, <1>2, <1>3, <1>4, <1>5, <1>6, <1>7, <1>8, <1>9 DEF Run

\* Only the claim makes a descriptor, of a device nobody uses; a replug marks it.
LEMMA ExcludeStep ==
  ASSUME IInv, Next
  PROVE  ClaimExcludes'
<1>1. ClaimExcludes /\ GuardMatches
  BY DEF IInv
<1>2. CASE Claim
  BY <1>2 DEF Claim, ClaimExcludes, FailAtStart, Return, DropGuard, phase2Frame, worldVars
<1>3. CASE Run /\ ~Claim
  <2>1. pc \in {"swapoff", "unmount", "sweep"} => held = NoDevice
    BY <1>1 DEF GuardMatches, Unclaimed, Released
  <2> QED
    BY <1>1, <1>3, <2>1, RunFrame DEF ClaimExcludes
<1>4. CASE World
  <2>1. held' = held
    BY <1>4 DEF World, RequestCancel, Replug, Use, worldFrame
  <2>2. CASE RequestCancel
    BY <1>1, <2>1, <2>2 DEF RequestCancel, ClaimExcludes
  <2>3. CASE Replug
    <3>1. gone' = (gone \/ held # NoDevice)
      BY <2>3 DEF Replug
    <3>2. held # NoDevice => gone'
      BY <3>1, Zenon
    <3> QED
      BY <2>1, <3>2 DEF ClaimExcludes
  <2>4. CASE Use
    <3>1. gone' = gone /\ (held = NoDevice \/ gone)
      BY <2>4 DEF Use
    <3> QED
      BY <2>1, <3>1 DEF ClaimExcludes
  <2> QED
    BY <1>4, <2>2, <2>3, <2>4 DEF World
<1>5. CASE Terminated
  BY <1>1, <1>5 DEF Terminated, vars, worldVars, claimVars, ClaimExcludes
<1> QED
  BY <1>2, <1>3, <1>4, <1>5 DEF Next

\* What the world leaves alone.
LEMMA WorldFrame ==
  ASSUME World
  PROVE  /\ UNCHANGED <<medium, cached, config, early, ident, approved, held, guard, result,
                        err, fatal, open, stray, pc, attempt, seen>>
         /\ cancel => cancel'
         /\ gone => gone'
<1>1. CASE RequestCancel
  BY <1>1 DEF RequestCancel, worldFrame, targetVars, reportVars, eventVars
<1>2. CASE Replug
  <2>1. gone' = (gone \/ held # NoDevice)
    BY <1>2 DEF Replug
  <2>2. UNCHANGED <<worldFrame, cancel>>
    BY <1>2 DEF Replug
  <2>3. gone => gone'
    BY <2>1, Zenon
  <2> QED
    BY <2>2, <2>3 DEF worldFrame, targetVars, reportVars, eventVars
<1>3. CASE Use
  BY <1>3 DEF Use, worldFrame, targetVars, reportVars, eventVars
<1> QED
  BY <1>1, <1>2, <1>3 DEF World

\* Past the identity check the descriptor's device is the one agreed to, or it is
\* gone and the size is not read.
LEMMA ConsentStep ==
  ASSUME IInv, Next
  PROVE  Consented'
<1>1. Consented /\ GuardMatches /\ ClaimExcludes
  BY DEF IInv
<1> USE DEF Unclaimed, Checking, Writing, Released
<1>2. CASE Preflight \/ Confirm
  BY <1>1, <1>2 DEF Preflight, Confirm, Consented, GoTo, Fail, FailAtStart, Return
<1>3. CASE RejectStacked \/ FindMounts \/ DisableSwaps \/ UnmountAll \/ Rescan
  BY <1>1, <1>3 DEF RejectStacked, FindMounts, DisableSwaps, UnmountAll, Rescan, Consented,
     GoTo, Fail, FailAtStart, Return, phase1Frame
<1>4. CASE Claim \/ Recheck
  BY <1>1, <1>4 DEF Claim, Recheck, Consented, GoTo, Fail, FailAtStart, Return,
     phase2Frame, targetVars
<1>5. CASE CheckIdentity
  <2>1. held \in Devices
    BY <1>1, <1>5 DEF CheckIdentity, GuardMatches
  <2>2. UNCHANGED <<ident, approved, node>>
    BY <1>5 DEF CheckIdentity, phase2Frame, targetVars, worldVars
  <2>3. CASE Identity[node] = ident /\ GoTo("size") /\ UNCHANGED claimVars
    BY <1>1, <1>5, <2>1, <2>2, <2>3, DevicesAssumption
       DEF CheckIdentity, DevicesAssumption, Consented, ClaimExcludes, GoTo, claimVars
  <2>4. CASE pc' = "done"
    BY <2>4 DEF Consented
  <2> QED
    BY <1>5, <2>3, <2>4 DEF CheckIdentity, Fail, Return
<1>6. CASE CheckSize \/ CheckCancel \/ Arm
  BY <1>1, <1>6 DEF CheckSize, CheckCancel, Arm, Reachable, Consented, GoTo, Fail, Return,
     phase2Frame, targetVars, claimVars
<1>7. CASE Wipe \/ FlashStart \/ Write \/ WriteStops
  BY <1>1, <1>7 DEF Wipe, FlashStart, Write, WriteStops, Consented, GoTo, Fail, Return,
     Unwind, phase2Frame, targetVars, claimVars
<1>8. CASE CooldownStart \/ Countdown \/ VerifyStart
  BY <1>1, <1>8 DEF CooldownStart, Countdown, VerifyStart, Consented, GoTo, Return,
     phase2Frame, targetVars, claimVars
<1>9. CASE FlushCache \/ Compare \/ CompareStops \/ Disarm \/ Release
  BY <1>1, <1>9 DEF FlushCache, Compare, CompareStops, Disarm, Release, Consented, GoTo,
     Fail, Return, Unwind, phase2Frame, targetVars, claimVars
<1>10. CASE Settle \/ RebuildDevts \/ Sweep \/ SweepClean \/ SweepStops
  BY <1>1, <1>10 DEF Settle, RebuildDevts, Sweep, SweepClean, SweepStops, Consented, GoTo,
     Fail, FailAtStart, Return, phase2Frame, targetVars
<1>11. CASE World
  BY <1>1, <1>11, WorldFrame DEF Consented, GuardMatches
<1>12. CASE Terminated
  BY <1>1, <1>12 DEF Terminated, vars, targetVars, claimVars, Consented
<1> QED
  BY <1>2, <1>3, <1>4, <1>5, <1>6, <1>7, <1>8, <1>9, <1>10, <1>11, <1>12 DEF Next, Run

\* A flag that was set before the run is seen at the last look, before arming.
LEMMA EarlyStep ==
  ASSUME IInv, Next
  PROVE  EarlyStops'
<1>1. EarlyStops
  BY DEF IInv
<1> USE DEF Unclaimed, Checking, Writing, Released
<1>2. CASE Run
  <2>1. UNCHANGED <<early, cancel>>
    BY <1>2, RunFrame
  <2>2. pc' \in {"arm", "wipe"} \cup Writing \cup Released =>
          \/ pc \in {"arm", "wipe"} \cup Writing \cup Released
          \/ pc = "cancel_check" /\ ~cancel
    BY <1>2 DEF Run, Preflight, Confirm, RejectStacked, FindMounts, DisableSwaps, UnmountAll,
       Rescan, Claim, Recheck, CheckIdentity, CheckSize, CheckCancel, Arm, Wipe, FlashStart,
       Write, WriteStops, CooldownStart, Countdown, VerifyStart, FlushCache, Compare,
       CompareStops, Disarm, Release, Settle, RebuildDevts, Sweep, SweepClean, SweepStops,
       GoTo, Fail, FailAtStart, Return, Unwind
  <2> QED
    BY <1>1, <2>1, <2>2 DEF EarlyStops
<1>3. CASE World
  BY <1>1, <1>3, WorldFrame DEF EarlyStops
<1>4. CASE Terminated
  BY <1>1, <1>4 DEF Terminated, vars, targetVars, EarlyStops
<1> QED
  BY <1>2, <1>3, <1>4 DEF Next

-----------------------------------------------------------------------------
(* The medium. *)

\* A step that leaves the media alone leaves the set of written devices alone.
LEMMA WrittenSame ==
  ASSUME UNCHANGED medium
  PROVE  Written' = Written
  BY DEF Written

\* A write to the claimed device, and to no other.
LEMMA WrittenHeld ==
  ASSUME TypeOK, held \in Devices, Written \subseteq {held},
         NEW m \in {"mixed", "image"}, medium' = [medium EXCEPT ![held] = m]
  PROVE  Written' = {held} /\ medium'[held] = m
<1>1. medium \in [Devices -> {"old", "mixed", "image"}]
  BY DEF TypeOK
<1>2. medium'[held] = m
  BY <1>1
<1>3. \A d \in Devices \ {held} : medium'[d] = medium[d] /\ medium[d] = "old"
  BY <1>1 DEF Written
<1> QED
  BY <1>2, <1>3 DEF Written

\* Before the wipe nothing was written, after it the claimed device alone; from
\* the verdict of Phase 5 on it holds the image.
LEMMA MediumStep ==
  ASSUME IInv, Next
  PROVE  MediumMatches'
<1>1. TypeOK /\ GuardMatches /\ MediumMatches
  BY DEF IInv
<1> USE DEF Unclaimed, Checking, Writing, Released
<1>2. CASE Wipe
  <2>1. pc = "wipe" /\ held \in Devices /\ Written = {}
    BY <1>1, <1>2 DEF Wipe, GuardMatches, MediumMatches
  <2>2. CASE medium' = [medium EXCEPT ![held] = "mixed"] /\ pc' = "flash" /\ held' = held
    <3>1. Written' = {held}
      BY <1>1, <2>1, <2>2, WrittenHeld
    <3> QED
      BY <2>2, <3>1 DEF MediumMatches
  <2>3. CASE pc' = "done"
    BY <2>3 DEF MediumMatches
  <2> QED
    BY <1>2, <2>2, <2>3 DEF Wipe, GoTo, claimVars, Fail, Return
<1>3. CASE Write
  <2>1. held \in Devices /\ Written = {held} /\ held' = held /\ pc' = "cooldown"
    BY <1>1, <1>3 DEF Write, GuardMatches, MediumMatches, GoTo, claimVars
  <2>2. PICK m \in {"image", "mixed"} : medium' = [medium EXCEPT ![held] = m]
    BY <1>3 DEF Write
  <2>3. Written' = {held}
    BY <1>1, <2>1, <2>2, WrittenHeld
  <2> QED
    BY <2>1, <2>3 DEF MediumMatches
<1>4. CASE Next /\ ~Wipe /\ ~Write
  <2>1. medium' = medium /\ Written' = Written /\ config' = config
    BY <1>4, RunFrame, WorldFrame, WrittenSame DEF Next, Terminated, vars, worldVars,
       targetVars
  <2>2. HoldsImage' = HoldsImage
    BY <2>1 DEF HoldsImage
  <2>3. CASE Preflight \/ Confirm \/ RejectStacked \/ FindMounts \/ DisableSwaps
             \/ UnmountAll \/ Rescan \/ Claim
    BY <1>1, <2>1, <2>3 DEF MediumMatches, Preflight, Confirm, RejectStacked, FindMounts,
       DisableSwaps, UnmountAll, Rescan, Claim, GoTo, Fail, FailAtStart, Return
  <2>4. CASE Recheck \/ CheckIdentity \/ CheckSize \/ CheckCancel \/ Arm
    BY <1>1, <2>1, <2>4 DEF MediumMatches, Recheck, CheckIdentity, CheckSize, CheckCancel,
       Arm, GoTo, Fail, Return
  <2>5. CASE FlashStart \/ WriteStops \/ CooldownStart \/ Countdown
    BY <1>1, <2>1, <2>5 DEF MediumMatches, FlashStart, WriteStops, CooldownStart, Countdown,
       GoTo, Fail, Return, Unwind, claimVars
  <2>6. CASE VerifyStart
    <3>1. Written = {held} /\ held \in Devices /\ held' = held
      BY <1>1, <2>6 DEF VerifyStart, MediumMatches, GuardMatches, claimVars
    <3>2. pc' = "disarm" => HoldsImage
      BY <2>6, <3>1 DEF VerifyStart, GoTo, HoldsImage
    <3> QED
      BY <2>1, <2>2, <2>6, <3>1, <3>2 DEF VerifyStart, MediumMatches, GoTo
  <2>7. CASE FlushCache
    BY <1>1, <2>1, <2>7 DEF FlushCache, MediumMatches, GoTo, Fail, Return, claimVars
  <2>8. CASE Compare
    <3>1. pc = "compare" /\ cached = "none" /\ Written = {held} /\ held \in Devices
      BY <1>1, <2>8 DEF Compare, MediumMatches, GuardMatches
    <3>2. CASE ReadBack = "image"
      <4>1. medium[held] = "image"
        BY <3>1, <3>2 DEF ReadBack
      <4>2. HoldsImage
        BY <3>1, <4>1 DEF HoldsImage
      <4> QED
        BY <2>1, <2>2, <2>8, <3>1, <3>2, <4>2 DEF Compare, MediumMatches, GoTo, claimVars
    <3>3. CASE ReadBack # "image"
      BY <2>8, <3>3 DEF Compare, MediumMatches, Fail, Return
    <3> QED
      BY <3>2, <3>3
  <2>9. CASE CompareStops \/ Disarm \/ Release
    BY <1>1, <2>1, <2>2, <2>9 DEF CompareStops, Disarm, Release, MediumMatches, GoTo, Fail,
       Return, Unwind
  <2>10. CASE Settle \/ RebuildDevts \/ Sweep \/ SweepClean \/ SweepStops
    BY <1>1, <2>1, <2>2, <2>10 DEF Settle, RebuildDevts, Sweep, SweepClean, SweepStops,
       MediumMatches, GoTo, Fail, FailAtStart, Return
  <2>11. CASE World
    BY <1>1, <2>1, <2>2, <2>11, WorldFrame DEF MediumMatches
  <2>12. CASE Terminated
    BY <1>1, <2>1, <2>12 DEF Terminated, vars, MediumMatches
  <2> QED
    BY <1>4, <2>3, <2>4, <2>5, <2>6, <2>7, <2>8, <2>9, <2>10, <2>11, <2>12 DEF Next, Run
<1> QED
  BY <1>2, <1>3, <1>4

-----------------------------------------------------------------------------
(* How a run ends. *)

\* Of a step that ends the run: what it returns, and the notice that goes with it.
LEMMA Ending ==
  ASSUME IInv, Run, pc' = "done"
  PROVE  \/ result' = "ok" /\ pc = "sweep" /\ fatal' = "none"
         \/ result' = "panic" /\ fatal' \in {"writing", "verifying"}
         \/ /\ result' = "err" /\ fatal' = "none"
            /\ pc \in Unclaimed \cup Checking
            /\ err'.device = "untouched" /\ err'.kind \in {"refused", "cancelled"}
            /\ err'.kind = "cancelled" => cancel
         \/ /\ result' = "err" /\ pc \in {"wipe", "write", "countdown", "flush", "compare"}
            /\ err'.device = "indeterminate"
            /\ err'.kind \in {"failed", "cancelled", "verification_failed"}
            /\ err'.kind = "cancelled" => cancel
            /\ err'.kind = "verification_failed" => pc = "compare" /\ ReadBack # "image"
            /\ \/ err'.phase = "wipe" /\ fatal' = "wiping"
               \/ err'.phase = "flash" /\ fatal' = "writing"
               \/ err'.phase = "verify" /\ fatal' \in {"cooldown", "verifying"}
         \/ /\ result' = "err" /\ fatal' = "none"
            /\ pc \in Released
            /\ err'.device = "written" /\ err'.kind \in {"failed", "cancelled"}
            /\ err'.kind = "cancelled" => cancel
<1>1. GuardMatches
  BY DEF IInv
<1> USE DEF Unclaimed, Checking, Writing, Released, GoTo, Fail, FailAtStart, Return, DropGuard,
            SettledKind, ArmedPhases, GuardMatches
<1>2. CASE Preflight \/ Confirm \/ RejectStacked \/ FindMounts
  BY <1>1, <1>2 DEF Preflight, Confirm, RejectStacked, FindMounts
<1>3. CASE DisableSwaps \/ UnmountAll \/ Rescan \/ Claim
  BY <1>1, <1>3 DEF DisableSwaps, UnmountAll, Rescan, Claim
<1>4. CASE Recheck \/ CheckIdentity \/ CheckSize \/ CheckCancel
  BY <1>1, <1>4 DEF Recheck, CheckIdentity, CheckSize, CheckCancel
<1>5. CASE Arm \/ Wipe \/ FlashStart
  BY <1>1, <1>5 DEF Arm, Wipe, FlashStart
<1>6. CASE Write \/ WriteStops
  BY <1>1, <1>6 DEF Write, WriteStops, Unwind
<1>7. CASE CooldownStart \/ Countdown \/ VerifyStart
  BY <1>1, <1>7 DEF CooldownStart, Countdown, VerifyStart
<1>8. CASE FlushCache \/ Compare \/ CompareStops
  BY <1>1, <1>8 DEF FlushCache, Compare, CompareStops, Unwind
<1>9. CASE Disarm \/ Release \/ Settle \/ RebuildDevts
  BY <1>1, <1>9 DEF Disarm, Release, Settle, RebuildDevts
<1>10. CASE Sweep \/ SweepClean \/ SweepStops
  BY <1>1, <1>10 DEF Sweep, SweepClean, SweepStops, reportVars
<1> QED
  BY <1>2, <1>3, <1>4, <1>5, <1>6, <1>7, <1>8, <1>9, <1>10 DEF Run

\* An ended run reports no more, and no step after it writes.
LEMMA EndedFrame ==
  ASSUME IInv, Next, ~Run
  PROVE  /\ UNCHANGED <<medium, config, early, ident, approved, result, err, fatal>>
         /\ cancel => cancel'
<1>1. CASE World
  BY <1>1, WorldFrame
<1>2. CASE Terminated
  BY <1>2 DEF Terminated, vars, worldVars, targetVars, reportVars
<1> QED
  BY <1>1, <1>2 DEF Next

\* Whatever is written is the claimed device, which was agreed to.
LEMMA ApprovedStep ==
  ASSUME IInv, Next
  PROVE  OnlyApprovedIsWritten' /\ EarlyCancelCostsNothing'
<1>1. /\ TypeOK /\ GuardMatches /\ Consented /\ EarlyStops /\ MediumMatches
      /\ OnlyApprovedIsWritten /\ EarlyCancelCostsNothing
  BY DEF IInv, Promises
<1>2. CASE Wipe \/ Write
  <2>1. /\ pc \in {"wipe", "write"} /\ held \in Devices /\ Written \subseteq {held}
        /\ approved /\ Identity[held] = ident /\ ~early
        /\ UNCHANGED <<approved, ident, early>>
    BY <1>1, <1>2, RunFrame DEF Wipe, Write, Writing, GuardMatches, MediumMatches, Consented,
       EarlyStops, Run
  <2>2. Written' \subseteq {held}
    <3>1. CASE medium' = medium
      BY <2>1, <3>1, WrittenSame
    <3>2. CASE \E m \in {"mixed", "image"} : medium' = [medium EXCEPT ![held] = m]
      BY <1>1, <2>1, <3>2, WrittenHeld
    <3> QED
      BY <1>2, <3>1, <3>2 DEF Wipe, Write, Damage
  <2>3. Written' # {} => Written' = {held}
    BY <2>2
  <2>4. OnlyApprovedIsWritten'
    BY <2>1, <2>3 DEF OnlyApprovedIsWritten
  <2> QED
    BY <2>1, <2>4 DEF EarlyCancelCostsNothing
<1>3. CASE Run /\ ~Wipe /\ ~Write
  <2>1. Written' = Written /\ early' = early
    BY <1>3, RunFrame, WrittenSame
  <2>2. Written = {} \/ UNCHANGED <<approved, ident>>
    BY <1>1, <1>3, RunFrame DEF MediumMatches, Unclaimed
  <2> QED
    BY <1>1, <2>1, <2>2 DEF OnlyApprovedIsWritten, EarlyCancelCostsNothing
<1>4. CASE ~Run
  <2>1. Written' = Written /\ UNCHANGED <<approved, ident, early>>
    BY <1>4, EndedFrame, WrittenSame
  <2> QED
    BY <1>1, <2>1 DEF OnlyApprovedIsWritten, EarlyCancelCostsNothing
<1> QED
  BY <1>2, <1>3, <1>4

\* What is said at the end is so.
LEMMA ReportStep ==
  ASSUME IInv, Next
  PROVE  ReportIsTruthful' /\ FatalMatchesReport' /\ SuccessIsOnMedium'
<1>1. /\ TypeOK /\ GuardMatches /\ MediumMatches
      /\ ReportIsTruthful /\ FatalMatchesReport /\ SuccessIsOnMedium
  BY DEF IInv, Promises
<1>2. CASE ~Run
  <2>1. UNCHANGED <<medium, config, result, err, fatal>> /\ (cancel => cancel')
    BY <1>2, EndedFrame
  <2>2. Written' = Written /\ HoldsImage' = HoldsImage
    BY <2>1, WrittenSame DEF HoldsImage
  <2> QED
    BY <1>1, <2>1, <2>2 DEF ReportIsTruthful, FatalMatchesReport, SuccessIsOnMedium
<1>3. CASE Run /\ pc' # "done"
  <2>1. result' = "running"
    BY <1>3, GuardStep DEF GuardMatches
  <2> QED
    BY <2>1 DEF ReportIsTruthful, FatalMatchesReport, SuccessIsOnMedium
<1>4. CASE Run /\ pc' = "done"
  <2>1. config' = config /\ cancel' = cancel
    BY <1>4, RunFrame
  <2>2. FatalMatchesReport'
    BY <1>4, Ending DEF FatalMatchesReport
  <2>3. CASE pc \in Unclaimed \cup Checking \cup Released
    <3>1. medium' = medium
      BY <1>4, <2>3, RunFrame DEF Wipe, Write, Unclaimed, Checking, Released
    <3>2. Written' = Written /\ HoldsImage' = HoldsImage
      BY <2>1, <3>1, WrittenSame DEF HoldsImage
    <3>3. ReportIsTruthful'
      BY <1>1, <1>4, <2>1, <2>3, <3>2, Ending
         DEF ReportIsTruthful, MediumMatches, Unclaimed, Checking, Released
    <3>4. SuccessIsOnMedium'
      BY <1>1, <1>4, <3>2, Ending
         DEF SuccessIsOnMedium, MediumMatches, Unclaimed, Checking, Released
    <3> QED
      BY <2>2, <3>3, <3>4
  <2>4. CASE pc \notin Unclaimed \cup Checking \cup Released
    <3>1. result' # "ok"
      BY <1>4, <2>4, Ending DEF Released
    <3>2. result' = "err" =>
            /\ err'.device = "indeterminate"
            /\ err'.kind \in {"failed", "cancelled", "verification_failed"}
            /\ err'.kind = "cancelled" => cancel
            /\ err'.kind = "verification_failed" => pc = "compare" /\ ReadBack # "image"
      BY <1>4, <2>4, Ending
    <3>3. pc = "compare" /\ ReadBack # "image" => \A d \in Devices : medium'[d] # "image"
      <4> SUFFICES ASSUME pc = "compare", ReadBack # "image"
                   PROVE  \A d \in Devices : medium'[d] # "image"
        OBVIOUS
      <4>1. medium' = medium /\ medium[held] # "image" /\ Written = {held}
        BY <1>1, <1>4, RunFrame DEF Wipe, Write, ReadBack, MediumMatches, Writing
      <4> QED
        BY <4>1 DEF Written
    <3> QED
      BY <2>1, <2>2, <3>1, <3>2, <3>3 DEF ReportIsTruthful, SuccessIsOnMedium
  <2> QED
    BY <2>3, <2>4
<1> QED
  BY <1>2, <1>3, <1>4

-----------------------------------------------------------------------------
(* Types. *)

\* The steps of the run keep every variable in its type.
LEMMA RunTypes ==
  ASSUME IInv, Run
  PROVE  TypeOK'
<1>1. TypeOK /\ GuardMatches
  BY DEF IInv
<1>2. /\ config' \in [skip_cooldown : BOOLEAN, skip_verification : BOOLEAN, yes : BOOLEAN]
      /\ node' \in Devices \cup {NoDevice} /\ plugs' \in 0 .. MaxPlugs
  BY <1>1, RunFrame DEF TypeOK
<1>3. cancel' \in BOOLEAN /\ early' \in BOOLEAN
  <2>1. cancel' = cancel /\ early' = early /\ cancel \in BOOLEAN /\ early \in BOOLEAN
    BY <1>1, RunFrame DEF TypeOK
  <2> QED
    BY <2>1, Zenon
<1>4. users' \in SUBSET Uses
  <2>1. users \in SUBSET Uses
    BY <1>1 DEF TypeOK
  <2>2. users' \in SUBSET users
    BY DEF Run, Preflight, Confirm, RejectStacked, FindMounts, DisableSwaps, UnmountAll, Rescan,
       Claim, Recheck, CheckIdentity, CheckSize, CheckCancel, Arm, Wipe, FlashStart, Write,
       WriteStops, CooldownStart, Countdown, VerifyStart, FlushCache, Compare, CompareStops,
       Disarm, Release, Settle, RebuildDevts, Sweep, SweepClean, SweepStops, phase1Frame,
       phase2Frame, worldVars
  <2> QED
    BY <2>1, <2>2
<1>5. medium' \in [Devices -> {"old", "mixed", "image"}]
  <2>1. medium \in [Devices -> {"old", "mixed", "image"}]
    BY <1>1 DEF TypeOK
  <2>2. medium' = medium \/ \E m \in {"mixed", "image"} : medium' = [medium EXCEPT ![held] = m]
    BY RunFrame DEF Wipe, Write, Damage
  <2> QED
    BY <2>1, <2>2
<1>6. cached' \in {"none", "image"}
  BY <1>1, RunFrame DEF TypeOK, Write, FlushCache
<1>7. pc' \in Steps
  BY DEF Run, Preflight, Confirm, RejectStacked, FindMounts, DisableSwaps, UnmountAll, Rescan,
       Claim, Recheck, CheckIdentity, CheckSize, CheckCancel, Arm, Wipe, FlashStart, Write,
       WriteStops, CooldownStart, Countdown, VerifyStart, FlushCache, Compare, CompareStops,
       Disarm, Release, Settle, RebuildDevts, Sweep, SweepClean, SweepStops,
       GoTo, Fail, FailAtStart, Return, Unwind, Steps
<1>8. ident' \in Range(Identity)
  <2>1. CASE Preflight
    BY <1>1, <2>1, DevicesAssumption DEF Preflight, TypeOK, DevicesAssumption, Range
  <2>2. CASE ident' = ident
    BY <1>1, <2>2 DEF TypeOK
  <2> QED
    BY <2>1, <2>2 DEF Run, Preflight, Confirm, RejectStacked, FindMounts, DisableSwaps, UnmountAll, Rescan,
       Claim, Recheck, CheckIdentity, CheckSize, CheckCancel, Arm, Wipe, FlashStart, Write,
       WriteStops, CooldownStart, Countdown, VerifyStart, FlushCache, Compare, CompareStops,
       Disarm, Release, Settle, RebuildDevts, Sweep, SweepClean, SweepStops,
       phase1Frame, phase2Frame, targetVars
<1>9. approved' \in BOOLEAN
  <2>1. approved' = approved \/ approved' = TRUE
    BY RunFrame DEF Run, Preflight, Confirm, RejectStacked, FindMounts, DisableSwaps, UnmountAll, Rescan,
       Claim, Recheck, CheckIdentity, CheckSize, CheckCancel, Arm, Wipe, FlashStart, Write,
       WriteStops, CooldownStart, Countdown, VerifyStart, FlushCache, Compare, CompareStops,
       Disarm, Release, Settle, RebuildDevts, Sweep, SweepClean, SweepStops,
       phase1Frame, phase2Frame, targetVars
  <2>2. approved \in BOOLEAN
    BY <1>1 DEF TypeOK
  <2> QED
    BY <2>1, <2>2, Zenon
<1>10. seen' \in SUBSET Mounts
  <2>1. seen' = seen \/ seen' = users \cap Mounts
    BY DEF Run, Preflight, Confirm, RejectStacked, FindMounts, DisableSwaps, UnmountAll, Rescan,
       Claim, Recheck, CheckIdentity, CheckSize, CheckCancel, Arm, Wipe, FlashStart, Write,
       WriteStops, CooldownStart, Countdown, VerifyStart, FlushCache, Compare, CompareStops,
       Disarm, Release, Settle, RebuildDevts, Sweep, SweepClean, SweepStops,
       phase1Frame, phase2Frame, targetVars
  <2> QED
    BY <1>1, <2>1 DEF TypeOK
<1>11. held' \in Devices \cup {NoDevice} /\ guard' \in GuardPhases \cup {"none"}
  BY <1>7, GuardStep DEF Next, GuardMatches, Unclaimed, Checking, Writing, Released, Steps,
     GuardPhases, ArmedPhases
<1>12. gone' \in BOOLEAN
  <2>1. gone \in BOOLEAN
    BY <1>1 DEF TypeOK
  <2>2. gone' = gone \/ gone' = FALSE
    BY RunFrame DEF Claim, FailAtStart, Return, DropGuard
  <2> QED
    BY <2>1, <2>2, Zenon
<1>13. attempt' \in 1 .. 4
  <2>1. attempt' = attempt \/ (attempt <= 3 /\ attempt' = attempt + 1)
    BY DEF Run, Preflight, Confirm, RejectStacked, FindMounts, DisableSwaps, UnmountAll, Rescan,
       Claim, Recheck, CheckIdentity, CheckSize, CheckCancel, Arm, Wipe, FlashStart, Write,
       WriteStops, CooldownStart, Countdown, VerifyStart, FlushCache, Compare, CompareStops,
       Disarm, Release, Settle, RebuildDevts, Sweep, SweepClean, SweepStops,
       phase1Frame, phase2Frame
  <2> QED
    BY <1>1, <2>1 DEF TypeOK
<1>14. result' \in {"running", "ok", "err", "panic"}
  BY Ending, GuardStep DEF Next, GuardMatches
<1>15. err' \in [phase : Phases, kind : Kinds, device : DeviceStates] \cup {NoError}
  <2>1. \/ err' = err
        \/ \E p \in Phases, k \in Kinds, d \in DeviceStates :
             err' = [phase |-> p, kind |-> SettledKind(k, d), device |-> d]
    BY DEF Run, Preflight, Confirm, RejectStacked, FindMounts, DisableSwaps, UnmountAll, Rescan,
       Claim, Recheck, CheckIdentity, CheckSize, CheckCancel, Arm, Wipe, FlashStart, Write,
       WriteStops, CooldownStart, Countdown, VerifyStart, FlushCache, Compare, CompareStops,
       Disarm, Release, Settle, RebuildDevts, Sweep, SweepClean, SweepStops,
       GoTo, Fail, FailAtStart, Return, Unwind, Phases, Kinds, DeviceStates, reportVars
  <2>2. \A k \in Kinds, d \in DeviceStates : SettledKind(k, d) \in Kinds
    BY DEF SettledKind, Kinds
  <2> QED
    BY <1>1, <2>1, <2>2 DEF TypeOK
<1>16. open' \in SUBSET Phases /\ stray' \in SUBSET Phases
  <2>1. /\ open' \in {open, open \ {"cooldown", "verify"}}
             \cup {open \cup {p} : p \in Phases} \cup {open \ {p} : p \in Phases}
        /\ stray' \in {stray} \cup {stray \cup {p} : p \in Phases}
             \cup {stray \cup ({"cooldown", "verify"} \ open)}
    BY DEF Run, Preflight, Confirm, RejectStacked, FindMounts, DisableSwaps, UnmountAll, Rescan,
       Claim, Recheck, CheckIdentity, CheckSize, CheckCancel, Arm, Wipe, FlashStart, Write,
       WriteStops, CooldownStart, Countdown, VerifyStart, FlushCache, Compare, CompareStops,
       Disarm, Release, Settle, RebuildDevts, Sweep, SweepClean, SweepStops,
       Started, Finished, Fail, FailAtStart, Unwind, Phases, eventVars
  <2> QED
    BY <1>1, <2>1 DEF TypeOK, Phases
<1>17. fatal' \in ArmedPhases \cup {"none"}
  BY Ending, GuardStep DEF Next, GuardMatches, ArmedPhases
<1> QED
  BY <1>2, <1>3, <1>4, <1>5, <1>6, <1>7, <1>8, <1>9, <1>10, <1>11, <1>12, <1>13, <1>14,
     <1>15, <1>16, <1>17 DEF TypeOK

\* So do the steps around it.
LEMMA WorldTypes ==
  ASSUME IInv, Next, ~Run
  PROVE  TypeOK'
<1>1. TypeOK
  BY DEF IInv
<1>2. CASE World
  <2>1. cancel' \in BOOLEAN /\ gone' \in BOOLEAN
    <3>1. cancel \in BOOLEAN /\ gone \in BOOLEAN
      BY <1>1 DEF TypeOK
    <3>2. cancel' = cancel \/ cancel' = TRUE
      BY <1>2 DEF World, RequestCancel, Replug, Use
    <3>3. gone' = gone \/ gone' = (gone \/ held # NoDevice)
      BY <1>2 DEF World, RequestCancel, Replug, Use
    <3> QED
      BY <3>1, <3>2, <3>3, Zenon
  <2>2. node' \in Devices \cup {NoDevice} /\ plugs' \in 0 .. MaxPlugs /\ users' \in SUBSET Uses
    BY <1>1, <1>2, DevicesAssumption
       DEF World, RequestCancel, Replug, Use, TypeOK, DevicesAssumption
  <2>3. config' = config /\ early' = early /\ approved' = approved
    BY <1>2, WorldFrame
  <2>4. early' \in BOOLEAN /\ approved' \in BOOLEAN
    <3>1. early \in BOOLEAN /\ approved \in BOOLEAN
      BY <1>1 DEF TypeOK
    <3> QED
      BY <2>3, <3>1, Zenon
  <2>5. UNCHANGED <<medium, cached, pc, ident, seen, held, guard, attempt, result, err, open,
                    stray, fatal>>
    BY <1>2, WorldFrame
  <2> QED
    BY <1>1, <2>1, <2>2, <2>3, <2>4, <2>5 DEF TypeOK
<1>3. CASE Terminated
  BY <1>1, <1>3 DEF Terminated, vars, worldVars, targetVars, claimVars, reportVars, eventVars,
     TypeOK
<1> QED
  BY <1>2, <1>3 DEF Next

-----------------------------------------------------------------------------
(* The invariant. *)

\* The strengthened invariant holds before the first step.
LEMMA InitInv == Init => IInv
<1> SUFFICES ASSUME Init PROVE IInv
  OBVIOUS
<1>1. TypeOK
  <2>1. ident \in Range(Identity)
    BY DevicesAssumption DEF Init, DevicesAssumption, Range
  <2>2. /\ medium \in [Devices -> {"old", "mixed", "image"}]
        /\ node \in Devices \cup {NoDevice} /\ held \in Devices \cup {NoDevice}
        /\ plugs \in 0 .. MaxPlugs
        /\ attempt \in 1 .. 4
    BY DevicesAssumption DEF Init, DevicesAssumption
  <2>3. /\ cancel \in BOOLEAN /\ early \in BOOLEAN /\ approved \in BOOLEAN /\ gone \in BOOLEAN
    <3>1. /\ cancel \in BOOLEAN /\ early = cancel /\ approved = FALSE /\ gone = FALSE
      BY DEF Init
    <3> QED
      BY <3>1, Zenon
  <2>4. /\ config \in [skip_cooldown : BOOLEAN, skip_verification : BOOLEAN, yes : BOOLEAN]
        /\ users \in SUBSET Uses /\ cached \in {"none", "image"} /\ seen \in SUBSET Mounts
        /\ guard \in GuardPhases \cup {"none"}
        /\ open \in SUBSET Phases /\ stray \in SUBSET Phases
        /\ fatal \in ArmedPhases \cup {"none"}
    BY DEF Init
  <2>5. pc \in Steps /\ result \in {"running", "ok", "err", "panic"} /\ err = NoError
    BY DEF Init, Steps
  <2> QED
    BY <2>1, <2>2, <2>3, <2>4, <2>5 DEF TypeOK
<1>2. Written = {}
  BY DEF Init, Written
<1>3. /\ pc = "preflight" /\ guard = "none" /\ held = NoDevice /\ result = "running"
      /\ fatal = "none" /\ open = {} /\ early = cancel
  BY DEF Init
<1>4. GuardMatches /\ OpenPhase /\ ClaimExcludes
  BY <1>3 DEF GuardMatches, OpenPhase, ClaimExcludes, Unclaimed, Checking, Writing, Released
<1>5. Consented /\ MediumMatches
  BY <1>2, <1>3 DEF Consented, MediumMatches, Checking, Writing, Released
<1>6. EarlyStops
  BY <1>3 DEF EarlyStops, Writing, Released
<1>7. Promises
  BY <1>2, <1>3 DEF Promises, OnlyApprovedIsWritten, ReportIsTruthful, FatalMatchesReport,
     SuccessIsOnMedium, EarlyCancelCostsNothing, NothingLeftOpen
<1> QED
  BY <1>1, <1>4, <1>5, <1>6, <1>7 DEF IInv

\* Every step of the run and of the world keeps it.
LEMMA StepInv == IInv /\ [Next]_vars => IInv'
<1> SUFFICES ASSUME IInv, [Next]_vars PROVE IInv'
  OBVIOUS
<1>1. CASE Next
  <2>1. TypeOK'
    BY <1>1, RunTypes, WorldTypes
  <2>2. Promises'
    BY <1>1, ApprovedStep, ReportStep, OpenStep DEF Promises
  <2> QED
    BY <1>1, <2>1, <2>2, GuardStep, OpenStep, ExcludeStep, ConsentStep, EarlyStep, MediumStep
       DEF IInv
<1>2. CASE UNCHANGED vars
  <2> USE <1>2 DEF vars, worldVars, targetVars, claimVars, reportVars, eventVars, IInv
  <2>1. TypeOK'
    BY DEF TypeOK
  <2>2. GuardMatches' /\ OpenPhase' /\ ClaimExcludes'
    BY DEF GuardMatches, OpenPhase, ClaimExcludes
  <2>3. Consented' /\ EarlyStops'
    BY DEF Consented, EarlyStops
  <2>4. MediumMatches' /\ Promises'
    BY DEF MediumMatches, Promises, Written, HoldsImage, OnlyApprovedIsWritten,
       ReportIsTruthful, FatalMatchesReport, SuccessIsOnMedium, EarlyCancelCostsNothing,
       NothingLeftOpen
  <2> QED
    BY <2>1, <2>2, <2>3, <2>4
<1> QED
  BY <1>1, <1>2

\* The strengthened invariant holds in every reachable state.
THEOREM Invariance == Spec => []IInv
<1> QED
  BY InitInv, StepInv, PTL DEF Spec

\* A run keeps every variable in its type, and Phase 7 makes at most three sweeps.
THEOREM TypeCorrect == Spec => []TypeOK
<1>1. IInv => TypeOK
  BY DEF IInv, Promises
<1> QED
  BY <1>1, Invariance, PTL

\* However often the stick is pulled and replaced, at most one device is written:
\* one that sysfs cannot tell from the device the operator agreed to destroy.
THEOREM ApprovedAlone == Spec => []OnlyApprovedIsWritten
<1>1. IInv => OnlyApprovedIsWritten
  BY DEF IInv, Promises
<1> QED
  BY <1>1, Invariance, PTL

\* What a failed run says of the device is what happened to it.
THEOREM ReportIsTrue == Spec => []ReportIsTruthful
<1>1. IInv => ReportIsTruthful
  BY DEF IInv, Promises
<1> QED
  BY <1>1, Invariance, PTL

\* The FATAL notice is printed exactly when the error says that the device is
\* indeterminate, and names the phase of the error.
THEOREM NoticeMatches == Spec => []FatalMatchesReport
<1>1. IInv => FatalMatchesReport
  BY DEF IInv, Promises
<1> QED
  BY <1>1, Invariance, PTL

\* Success is reported over a medium, not a page cache, that holds the image.
THEOREM SuccessMeansMedium == Spec => []SuccessIsOnMedium
<1>1. IInv => SuccessIsOnMedium
  BY DEF IInv, Promises
<1> QED
  BY <1>1, Invariance, PTL

\* A flag set before the run costs the operator nothing.
THEOREM EarlyCancelIsFree == Spec => []EarlyCancelCostsNothing
<1>1. IInv => EarlyCancelCostsNothing
  BY DEF IInv, Promises
<1> QED
  BY <1>1, Invariance, PTL

\* A run that returns has finished every phase it started.
THEOREM PhasesAreClosed == Spec => []NothingLeftOpen
<1>1. IInv => NothingLeftOpen
  BY DEF IInv, Promises
<1> QED
  BY <1>1, Invariance, PTL

\* No step of a run writes to a device that is mounted, swapped on or stacked: the
\* claim keeps others off the device it refers to, and a transfer fails on one that
\* was unplugged.
THEOREM QuietWrites == Spec => NeverWritesUnderUse
<1>1. ASSUME IInv, [Next]_vars
      PROVE  [medium' # medium => node = held /\ users = {}]_vars
  <2> SUFFICES ASSUME Next, medium' # medium PROVE node = held /\ users = {}
    BY <1>1 DEF vars, worldVars
  <2>1. Run
    BY <1>1, EndedFrame
  <2>2. Reachable
    BY <2>1, RunFrame DEF Wipe, Write
  <2> QED
    BY <1>1, <2>2 DEF Reachable, IInv, ClaimExcludes
<1> QED
  BY <1>1, Invariance, PTL DEF Spec, NeverWritesUnderUse
=============================================================================
