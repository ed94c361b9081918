# A TLA+ model of imi

`imi` writes a disk image to a removable device. One run erases the device's
signatures, streams the image (decompressing on a second thread when it is
compressed), waits for the device to settle, reads everything back, and only
then says that the device may be unplugged. A mistake costs a disk, so the
questions asked here are: *which* device is written, *what* it holds when the
program says that it succeeded, and *whether what the program says of a failure
is true*. Paths below are relative to `src/crates/imi-core/src/`, those that
begin with `imi/` to `src/crates/imi/src/`.

## 1. The system

| Part | State it keeps | Operations | What makes it hard |
|---|---|---|---|
| Orchestration (`lib.rs`) | the typestate handed from phase to phase | `run_with` | eight phases, each of which can fail, be cancelled, or meet a host that moved |
| Device listing and picker (`common/devices.rs`, `imi/picker.rs`) | none | filter `/sys/block`, order, choose | what is stacked on a disk is not always under the disk's own node |
| Phase 0 preflight (`phases/phase_0.rs`) | none | checks, block-stack fixpoint, identity snapshot, consent | everything it learns may be stale a moment later; the image may live on the target through any stack |
| Phase 1 topology (`phases/phase_1.rs`, `common/mount.rs`, `common/sysfs.rs`) | the target's device numbers | reject stacked volumes, whitelist, swapoff, unmount, rescan | races against udisks2 and systemd; nested mounts |
| Phase 2 claim (`phases/phase_2.rs`, `common/identity.rs`) | the `O_EXCL` descriptor | claim, second look, identity check | replug between the prompt and the claim; Phase 1's numbers |
| Phase 3 wipe (`phases/phase_3.rs`) | the armed guard | last look at the cancel flag, wipe of both ends | first destructive step; its failures differ in what they leave |
| Phase 4 write (`phases/phase_4.rs`) | offset, total, `O_DIRECT`; two channels, two buffers, a worker thread | serial and pipelined write, finalize | two threads, five ways out of the loop, one cleanup |
| Phase 5 cooldown and verify (`phases/phase_5.rs`) | the same, reading | countdown, cache flush, serial and pipelined compare | two threads count down separately; one more way out of the loop; the image may have changed; the page cache lies |
| Phase 6 kernel sync (`phases/phase_6.rs`) | -- | disarm, BLKRRPART, release | the order of disarm and release |
| Phase 7 automount defence (`phases/phase_7.rs`) | pass counter, rebuilt device numbers | settle, up to three sweeps, verdict | daemons mount again while it unmounts; the table is new |
| Guard and session (`common/guard.rs`, `common/session.rs`) | the phase label, the descriptor | arm, set_phase, disarm, drop | its notice must agree with the error |
| Errors (`error.rs`) | kind, device state, causes | context, layers, `at` | classified by marker through layers, and by position |
| Events (`events.rs`) and terminal (`imi/ui.rs`, `imi/progress.rs`) | a live bar, its clock, a countdown row | started, progress, skipped, finished, confirm | a bar outlives the phase it was made for |
| Process (`imi/main.rs`, `imi/cli.rs`, `imi/signals.rs`, `config.rs`, `common/throttle.rs`, `common/cancel.rs`) | options, the cancel flag, the exit code | parse, arm the handler, sleep in ticks, report | boundaries of the arithmetic; a signal at every moment |
| Buffers, `O_DIRECT`, ioctls, image readers | -- | wrappers, third-party decoders | -- |

How they interact: `main` parses the arguments, asks for a device when none was
given, installs the signal handler and calls `run_with`, which calls the phases
in order on the caller's thread and hands each the value that proves that the
previous one ran (`Target`, `TargetDevts`, `Session`, `ArmedSession`). Phases
tell the front end what they do through `Events`; an error travels up through
context layers, is given the device's state at each phase boundary, passes the
guard (which prints the FATAL notice when it drops armed) and becomes the exit
code. The cancel flag is shared with whoever may set it (the CLI's signal
handler). Phase 4 and Phase 5 start one worker thread for a compressed image and
talk to it over two `mpsc` channels; the worker sees a mirror of the flag, never
the device. The host (kernel tables, automounters, the operator's hand on the
port) changes at any time.

What makes each part correct, in one sentence: what is offered and what is
refused follows from what really lies on which device; the claim and the checks
under it admit one device, the confirmed one, free of other users; Phase 4
returns success exactly over a complete durable image and never hangs; Phase 5
passes exactly what agrees with the image; the sweep ends, and success is said
over an unmounted device; guard, error, screen and exit code tell the same true
story.

`PROJECT.json` lists every component with its status and every hazard with its
line and the properties that watch it.

## 2. Modules

| Module | Models | Notes |
|---|---|---|
| `ImageCopy` | what Phase 4 promises | abstract: the device holds an in-order prefix of the image; success only with all of it |
| `ChunkWriter` | `process_chunk`, `write_direct`, `write_tail`, `flash_finalize` | the device side shared by both write arms |
| `FlashPipeline` | `flash_pipelined`, `worker_loop` | two threads; one action per channel operation, flag access or device operation |
| `FlashSerial` | `flash_serial` | one thread |
| `ImageCompare` | what Phase 5b promises | abstract: agreement only grows; a pass means all of it, a mismatch names the first difference |
| `ChunkReader` | the chunk size both sides derive, `fill_exact`, `compare_chunk` | shared by both verify arms |
| `VerifyPipeline` | `verify_pipelined`, `verify_worker_loop` | two threads, each with its own countdown |
| `VerifySerial` | `verify_serial` | one thread |
| `ImiRun` | `run_with`, all phases, guard, errors, events, the host | Phase 4's and Phase 5's loops are one step here |
| `CodeLoops` | a filter and a fixpoint, as operators | pure; used by the next two |
| `HostTopology` | Phases 1, 2 and 7 over device numbers, nested mounts, swaps, holders, partitions | the host acts between any two steps |
| `BlockStack` | sysfs and the mount table as a graph: `holders_recursive`, `target_block_subtree`, `source_of_longest_mount_prefix`, `candidates_from_parts` | pure operators, next to the reference definitions they are checked against |
| `Preflight` | the picker, every check of Phase 0 in order, the identity snapshot and its comparison in Phase 2 | over `BlockStack` |
| `CommandLine` | `parse_rate`, `parse_cooldown_secs`, `Config`, `chunk_target_nanos` | pure, with the width of a `u64` |
| `ImiError` | `Error`, `ErrorKind`, layers, `at` | pure |
| `Terminal` | the methods of `Events` in `imi/ui.rs`, the bar of `imi/progress.rs` | pure: a terminal is a value |
| `FrontEnd` | the process: `main`, the signal handler, the events and errors of a run, the guard, the exit code | over the three above |
| `FlashPipelineProofs`, `FlashSerialProofs`, `VerifyPipelineProofs`, `VerifySerialProofs`, `ImiRunProofs`, `HostTopologyProofs`, `PreflightProofs`, `FrontEndProofs` | -- | the theorems about each module |
| `MC...` | -- | instances for TLC |

### ChunkWriter, FlashPipeline, FlashSerial

Sizes are in sectors, the unit `O_DIRECT` aligns to. The image is the sequence
0, 1, 2, ..., so a sector of `disk` that holds anything but its own number is
out of place; `Old` is what was there before. `offset`, `total` and `outcome`
are the locals of the same names, `result` is what the function returns
(`"panic"`: it unwinds). `direct` is the `O_DIRECT` flag of the descriptor and
`dirty` says that something was written since the last `fdatasync`. `faults` and
`late` are history variables: the failures the environment injected, and the
writes issued after the flag was set.

`pc` and `wpc` are the program counters of the main thread and of the worker.
`filled` is the channel of results, `free` the number of buffers in the other
channel (buffers are interchangeable), `mirror` is `local_cancel`. A channel
half is alive until its owner drops it (`FilledTx`, `FreeRx`, `FilledRx`,
`FreeTx`, functions of the program counters), which is what `recv` and `send`
see as disconnection. The worker's captured halves are dropped one after the
other when its closure ends, by return or by panic, and main may act in between.

Faults, each possible at every step where the code can meet it: setting or
clearing `O_DIRECT`, allocating, spawning, reading the image, a decoder panic, a
write that fails after any part of its chunk, `fdatasync`. A throttled loop
either sleeps, and polls the flag, or finds the chunk already slow enough.
Not represented: the contents of the decoded stream (any length is taken),
progress events (they do not change the run's state), and reordering within one
transfer -- a failed write leaves a prefix of its chunk.

### ChunkReader, VerifyPipeline, VerifySerial

The same conventions, reading. `written` is what Phase 4 reported, `imageLen`
what the reopened image yields now -- the file may have been truncated or have
grown -- and a place of `disk` that does not hold its own number differs from the
image as it reads now. `remaining` and `left` are the two countdowns from
`bytes_written`, main's and the worker's, each of which derives the chunk
sequence for itself with `ChunkOf`. Main reads the device before it receives, so
a fault of the device is found while the worker still fills. The loop has one
exit more than the write loop: everything compared (`Check`), while the worker
may still hold a buffer or wait for one. `JoinEarly` is the branch that tells a
panicked worker from one that left silently.

### ImiRun

One action per step that reads or changes shared state, in program order:
`Preflight`, `Confirm`; `RejectStacked`, `FindMounts`, `DisableSwaps`,
`UnmountAll`, `Rescan`; `Claim`, `Recheck`, `CheckIdentity`, `CheckSize`;
`CheckCancel`, `Arm`, `Wipe`; `FlashStart`, `Write`, `WriteStops`;
`CooldownStart`, `Countdown`, `VerifyStart`, `FlushCache`, `Compare`,
`CompareStops`; `Disarm`, `Release`; `Settle`, `RebuildDevts`, `Sweep`,
`SweepClean`, `SweepStops`. Around them the host acts at any moment while the
run is under way: `RequestCancel`, `Replug` (the stick is pulled, and nothing or
another one takes its name), `Use` (somebody mounts, swaps on or stacks upon the
device; an exclusive claim on a plugged device keeps them out).

`node` is the device behind the name, `held` the one behind the descriptor,
`gone` says that the latter was unplugged. `Identity` is what sysfs says of each
device; sticks without a serial or a WWID of their own share it, and any two
devices may share device number and size. `medium` is what each device really
holds (`"old"`, `"mixed"`, `"image"`), `cached` what a buffered read would find
instead. `guard`, `result`, `err`, `fatal`, `open` and `stray` are what the
caller, the operator and the front end can observe: `open` holds the phases that
were started and not finished, `stray` those finished without a start.

A write that is acknowledged may have reached the medium wrongly (`Write`
chooses `"image"` or `"mixed"`): that is the failure Phase 5 exists for. The
many refusals of Phase 0 are one nondeterministic refusal (`Preflight` has them
one by one). A mount is either under a whitelisted root (`"media"`) or elsewhere
(`"system"`); a set of uses stands for any number of each kind (`HostTopology`
has them one by one).

### HostTopology

A line of `mountinfo` says two things of a mount: the number in field 3 (`devt`)
and the node its source stats to (`source`); `dev` is the truth. `Lines` gives
the three ways they relate: a plain filesystem, one with an anonymous number, and
one neither field identifies. `Seen` is the test of `filter_mountinfo`. The
kernel decides which `umount2` succeeds: by path, the topmost mount there, and
only with nothing mounted beneath (`Detachable`). `HoldersOf` is what
`walk_holders` returns on an arbitrary, possibly cyclic graph: the least set
closed under `holders/` (the walk itself is `holders_recursive` in `BlockStack`).
`LiveData` leaves out kpartx mappings.
Phase 1 is `RejectStacked`, `BuildDevts`, `Scan`, `ScanSwaps`, `Swapoff`,
`Unmount`, `Rescan` and their failures; Phase 2 `Claim`, `RecheckStacked`,
`RecheckMounts` (with the numbers of Phase 1, as the code has it); `Write` leaves
a new partition table; Phase 7 is `Rebuild`, `Sweep`, `SweepUnmount`,
`SweepAgain`, `Verdict`. The host mounts, unmounts, swaps, stacks and
repartitions between any two steps; an exclusive claim keeps it off the target,
and a partition in use does not disappear. `late`, `clean`, `busy` and `acts` are
history variables that name the causes a refusal may have.

### BlockStack, Preflight

A host is a set of `holders/` links, a mount table and a backing file for each
loop device, over disks, partitions (of disks and of loop devices) and mapped
devices. `target_block_subtree` is translated pass by pass; `OnTopOf` says
independently what changes when a disk is written, by following from each node
what its content lies on. `Preflight` takes the command line's device or the
picker's, then the checks in the code's order, each of which either refuses with
its own name or goes on. The stick in the slot can be exchanged between any two
reads; `Capture`, `Summarise` and `VerifyClaimed` each read it anew. Sticks
differ in size, model, serial and WWID, and may lack the last two; a card reader
is one stick with its card and another, of size zero and the same names, without.

### CommandLine, ImiError, Terminal, FrontEnd

`FrontEnd` is the process seen from outside: what each phase does to host and
device is left to the other modules, and each phase is only what it tells the
front end and how it can fail. An error starts where it is raised, gets a layer
at each `context`, and `at` at each phase boundary -- two of them for Phase 5, of
which the inner may come first. `DropSession` is the guard's `Drop`; it runs when
`run_with` returns the error or when a panic unwinds past it. `term` is what the
operator sees: `row` says what the cursor's row holds, `torn` that a line was
printed onto a bar or a countdown. `reached` is a history variable: that every
chunk was written, and that every chunk was compared. The chunks stand for either
arm of Phases 4 and 5. Either write arm looks at the flag once more after the last
full chunk. Of the read-back's only the pipelined one can, after the throttle's
sleep; the serial one, for an image that needs no decoder (`raw`), is done with
the last chunk: hence `ComparePaced`. `PrintHelp` is clap's answer to `--help` and
`--version`, and `BadArguments` its answer to arguments that do not parse. Sleeps are ticks of `cancellable_sleep` with a
poll of the flag before each; `slept` counts those begun after the interrupt.

## 3. Runs

| Run | Question | Bounds |
|---|---|---|
| `flash_pipeline` | does the pipelined write succeed only over a durable image, never hang, lose no panic, stop within a chunk of a cancellation, and implement `ImageCopy`? | 2 sectors per buffer, device of 7, images of 0 to 8 |
| `flash_serial` | does the serial write keep the same promise? | the same |
| `verify_pipeline` | does the pipelined read-back pass only what was compared whole, name the first difference, end, and implement `ImageCompare`? | 2 places per buffer, device of 5, every amount written, every set of differing places, second readings of 0 to 6 |
| `verify_serial` | does the serial read-back implement `ImageCompare`? | the same |
| `imi_run` | which device is ever written and when, and do error, FATAL notice and events tell the truth? | three sticks, two of one identity; two replugs |
| `host_topology` | is the device quiet while claimed, is a refusal always caused, is success said over an unmounted device? | two partitions, another disk's partition, two stacked nodes (one a kpartx mapping), three mount points of which two nest; 2 mounts, 3 uses at the start, one act of the host |
| `preflight` | is the fixpoint exact, is the image refused when and only when the flash would destroy it, is what is claimed what was shown? | a system disk, the slot, one loop device with a partition, one mapping; up to 2 links; two sticks of one name, a card reader with and without its card; 3 replugs |
| `front_end` | do screen, error, guard and exit code agree, and is an interrupt heard, for every option and every failure? | a `u64` of one byte, kibi = 4, arguments 0, 1, 3, 4 with every suffix; 2 ticks a second, cooldown up to 3; 2 chunks |
| `event_pairing` | expects `FinishedIsPaired` violated | one stick, no replug |
| `fatal_from_phase3` | expects `FatalFromPhase3` violated | the same |
| `system_disk` | expects `SystemDiskNeverOffered` violated | as `preflight`, no replug |
| `exit_zero` | expects `ZeroMeansVerified` violated | as `front_end` |

Every property is stated and explained where it is defined. Every property of a
passing run has a mutant of the code that breaks it; the mutants stand next to
the definitions they replace.

The bounds. A write device of three buffers and a tail of one sector admits the
empty image, a tail alone, an exact multiple of the buffer (whose end is an empty
item), a full device that ends in a tail, and an image that straddles the end of
the device; four chunks are more than the pool's two buffers, so each buffer is
reused and every queue fills up. The read-back needs two buffers and a tail for
the same: three chunks, of which the last is short, over a pool of two, with a
difference at every place of each; and a second reading that is shorter, equal or
longer by one. In `imi_run` two replugs suffice for "pulled and put back" and for
"replaced and replaced again"; three sticks give the confirmed one, one that
cannot be told from it and one that can. In `host_topology` two mounts are the
least that can nest or shadow each other, in either order; three uses let a swap
or a holder stand beside them, or the holders form a chain and a cycle; one act
of the host at any moment is what each second look is there for. What more acts
can do is covered by proof. In
`preflight` two links and a loop device with a partition give every kind of hop
the fixpoint follows, one of each; the longest chains use all of them. Sticks are
exchanged on a host with nothing else stacked, since a stick in use is not pulled
here; three exchanges separate its size, its identity and its model from each
other. A parent is mounted before its child (see section 5). In `front_end` 4G
overflows the byte, 3G does not, and rates run from sleeps of many ticks to none.
`plugs`, `acts`, `replugs` and the cooldown are the only counters a bound cuts
off.

Symmetry is used in `host_topology` alone: its two partitions are
interchangeable, and its properties are invariants and a step property.

Fairness. `FlashPipeline` and `VerifyPipeline` assume weak fairness of the main
thread and of the worker: the operating system schedules both, and the blocking
calls other than `recv` and `join` -- reads, writes, the 100 ms ticks of a sleep
-- return. Blocking in `recv` and `join` is the guard of an action, so a deadlock
would be a counterexample to `Terminates`. `ImiRun` assumes weak fairness of the
run as a whole; nothing is assumed of the host. Every stop is an explicit
`Terminated` step, so TLC's deadlock check stays on in every run.

What the expected violations show (`findings` in `PROJECT.json`):

* `events.rs` promises that `phase_finished` is always paired with
  `phase_started`. Phase 3 cancelled before the wipe, and Phase 5 with its
  verification skipped or its cooldown cancelled, finish a phase that was never
  started. `NothingLeftOpen`, the half of the promise a progress bar needs,
  holds, and `ScreenIsLegible` shows that the terminal is not harmed by the rest.
* `imi/main.rs` says of exit code 0 that the device was written *and verified*.
  With `--skip-verification` the process prints SUCCESS and exits with 0 over a
  device nobody read back; `ExitTellsTheTruth` and, for the medium itself,
  `SuccessIsOnMedium` state what does hold. The same table has no row for
  `imi --help` and `imi --version`, which exit with 0 too (`PrintHelp`), over a
  device nobody touched. And `error.rs` defines `DeviceState::Written` as written
  and verified, where Phase 7 reports it whether or not Phase 5 compared:
  `ReportIsTruthful` waives the comparison where the operator did.
* `lib.rs` says that failures from Phase 3 onward print a FATAL notice. A
  cancellation in Phase 3's preflight and a failure in Phase 7 do not.
  `FatalMatchesReport` and `ExitTellsTheTruth` state what does hold: the notice
  is printed exactly when the error says that the device is indeterminate.
* `lib.rs` says that the system disk never appears in the list. The listing asks
  for the holders of the disk node only, so a disk whose root filesystem is on a
  mapping over one of its partitions is offered. Phase 1 asks for both, and
  refuses it afterwards.

## 4. Proofs

Eight modules hold theorems, and between them these state every invariant and
every step property of the passing runs, for all values of the constants that
satisfy the named assumptions. Each strengthened invariant was model-checked on
the instances of section 3 before it was proved. A lemma that two components
need is stated in both modules.

`FlashPipelineProofs` proves, for every buffer size, device size, image length
and interleaving, the type invariant, all five safety invariants of
`flash_pipeline`, and that `FlashPipeline` implements `ImageCopy`. The only
assumption is `SizesAssumption`: the sizes are naturals, the buffer is not
empty, and `Old` is not a sector number. None of the promises is inductive
alone. `IInv` strengthens them with

* `Stages`: which pairs of program counters can occur, what each says of the
  outcome so far, and that `offset = total` is a multiple of the buffer in the loop;
* `DiskIsPrefix`: the device holds a prefix of the image, up to `total` while
  the loop goes well;
* `Flow`: while main consumes, what it holds, what is queued and what the worker
  is about to send are consecutive parts of the image (`InOrder`); only the last
  item may be short or an error, and a worker that left without a panic has sent
  one (`LastIsFinal`); both buffers are accounted for (`PoolConserved`);
* `LoopOutcome`: after the loop a good outcome means the whole image, unless a
  panic is about to be re-raised;
* `CancelBound`: at most one write after the flag, and none once main has seen it.

`LastIsFinal` is why the disconnected `recv` never reaches the protocol
violation branch: an exit without a panic always left a last item behind, and main leaves
the loop on it. `PoolConserved` is why the two threads cannot wait for each
other: main waiting in `recv` with nothing queued means that the worker has a
buffer or can take one. The step proof is split by conjunct (`TypeStep`,
`StagesStep`, `DiskStep`, `FlowStep`, `OutcomeStep`, `CancelStep`,
`PromisesStep`), each with a case per action; `WholeChunk`, `FinalChunk` and
`FailedChunk` isolate what one chunk does to a device that
is `Ready` for it: a prefix of the image up to an aligned `offset`, and the chunk
that belongs there in hand. The refinement maps `result` to the abstract verdict
and uses `DiskIsPrefix` before and after the step.

`FlashSerialProofs` proves the same promises of the serial arm -- types,
`SuccessIsDurableImage`, `FailureHasCause`, `CancelStopsWriting`, the refinement
of `ImageCopy` -- from the same assumption and the same three lemmas. With one
thread the invariant is what is left of the above: where the loop is, `pos`
against `offset`, the prefix, and the bound on late writes.

`VerifyPipelineProofs` does the same for the read-back, from `ReaderAssumption`:
types, `PassIsFullCompare`, `FailureHasCause`, `CancelStopsReading`,
`WorkerSettled`, `NeverBothParked`, and the refinement of `ImageCompare`. What is
new in its `IInv` is that two threads count the same bytes without talking about
it. `InOrder` ties the counts together: what main compared, what it holds, what
is queued and the worker's `left` add up to `written`, and every item on the way
starts where the one before ends and has the length `ChunkOf` gives for that
place -- which is what main expects when it gets there. `WorkerCount` says the
same of the worker alone, which still matters once main has left the loop;
`Compared` that what was passed is equal and that the first difference is the one
to be named. From these, both `protocol` branches (a chunk of another length, a
silent exit of the worker) are dead, and a good outcome after the loop means
`remaining = left = 0` with no fault behind. `VerifySerialProofs` proves the
promises of the serial arm, which derives each chunk once: `Compared` and the
chunk under way suffice.

`ImiRunProofs` proves, from `DevicesAssumption`, for any number of devices, any
two of which may share an identity, and any number of replugs: types,
`OnlyApprovedIsWritten`, `ReportIsTruthful`, `FatalMatchesReport`,
`SuccessIsOnMedium`, `EarlyCancelCostsNothing`, `NothingLeftOpen` and the step
property `NeverWritesUnderUse`. All but the last speak of a run that ended, so
`IInv` says what must hold on the way, indexed by `pc`:

* `GuardMatches` and `OpenPhase`: what the guard says and which phase is open at
  each step. The notice, the error's phase and its device state are then computed
  from the same `pc` at the step that ends the run, and agree;
* `ClaimExcludes`: while the device behind the descriptor is plugged, it is the
  one behind the name and nobody uses it. The claim is refused otherwise, later
  uses respect it, and a replug makes the descriptor dead, on which no write
  succeeds. This is `NeverWritesUnderUse`;
* `Consented`: from the identity check on, the claimed device has the identity the
  operator agreed to. At the step right after the check only if it is still
  plugged: a replug between the check and the size query can have answered the
  check in place of the claimed device, and it is the query on the descriptor
  that finds this out;
* `EarlyStops` and `MediumMatches`: nothing is written up to the wipe, only `held`
  is afterwards, and a comparison reads the medium because the cache was dropped.

`Ending` lists the ways a run can end with what the medium is then; `ReportStep`
and `ApprovedStep` read the promises off it.

`HostTopologyProofs` proves, from `TopologyAssumption` (node kinds are disjoint,
a path has a length, bounds are naturals), for any partitions, any mount points
and any number of acts, types, `QuietWhileClaimed`, `RefusalHasCause` and
`SafeToUnplug`.

* `QuietWhileClaimed` needs only that the claim is refused on a device in use and
  that every later action of the host respects it. It does not rest on the scans
  at all, which is what it is there to show: a partition that appeared after the
  numbers were collected is protected by `O_EXCL` alone.
* `SafeToUnplug` needs that the numbers Phase 7 sweeps with cover the disk and
  every partition that did not appear after they were rebuilt, from `Rebuild` to
  the verdict (`NumbersAreNew`).
* `RefusalHasCause` is about a host that could be cleared and was `LeftAlone`.
  `Clears` says of it, step by step, that nothing is stacked on the target, that
  mounts are nested (no line of the table is above an earlier one), that the swaps
  still on are among those to be turned off, and that what is listed is all that
  is mounted (`AllListed`, a count per path, since two mounts may share one) or
  nothing of the target is. `DeepestIsDetachable` is the heart of it: of a list
  that counts what the table counts, a longest path names a mount that can be
  reached and has nothing beneath it, whatever was mounted over what. `umount2`
  goes by path and may detach another line than the one listed, and it is the
  counts that survive this (`UnmountKeepsListed`). Any other order of the list
  breaks the proof there, as it breaks the run.
* The types include that the sweep ends after three passes, and that what is to be
  unmounted came from the table, which needs that a filter keeps elements only
  (`PickedElements`). No run lists this invariant: it is here for the proofs'
  sake, and for the bound.

`PreflightProofs` proves, from `BlockAssumption`, `PreflightAssumption` and
`OptionAssumption` (the kinds of nodes are disjoint and finite in number, partitions
have a whole disk, sizes are naturals), for any disks, loop devices, stacks and
links between them, any sticks and any number of replugs, all that `preflight`
checks: types, `SubtreeIsStack`, `ImageVerdictIsExact`, `ClaimedIsShown`.

* Loops. `Saturate` is a recursive function on the subsets of a finite set.
  `LeastFixpoint` proves what it arrives at: the least set that has the first one
  in it and that a pass leaves alone. The least closed set shows
  that the recursion has a solution; a largest set on which the loop disagreed with
  it would be contradicted by the next pass, so no induction theorem with an
  operator parameter is needed. `HoldersAreLeast`, `OnTopIsLeast`
  and `SubtreeIsLeast` apply it to the two loops of the code and to the reference
  `OnTopOf`.
* `SubtreeIsOnTop`. Code and reference do not widen alike: a pass of the code
  takes in all that is stacked on what it has before it looks at loop devices once,
  and asks for each loop device's mount by the longest prefix. `PassStaysOnTop` and
  `PassIsComplete` show that neither leaves the other's fixpoint; they need `Host`:
  that every later mount is the deeper one, so that the longest prefix is the
  mount the path resolves to (`DeepestIsLast`).
* `ImageVerdictIsExact` follows from this and from `WholeDisk`: by the time the
  image is looked for, the target is one.
* `ClaimedIsShown`. Size, identity and model are read at three moments.
  `Sized` (the size admitted has room for image and wipes), `Captured` (the
  identity is of the stick that was seen, but for the size) and `Prompted` (the
  model is of that stick, or somebody has exchanged it since, once if the
  exchanged one is still there and twice if not) say what each reading left. An
  earlier form, which took the claimed device for the one shown unless sticks were
  exchanged twice, is false: a reader that has the same model, serial and WWID
  without its card lends the capture its names and the card its size. The property
  states both cases apart.
* `CandidatesAreDisks`: the menu is a list of disks, because the ranks of
  `order_for_display` are a permutation (`RanksAreOnto`).

`FrontEndProofs` proves, from `CommandLineAssumption` and `FrontEndAssumption`, for
any number of chunks, any `u64` width, any rate and cooldown and any moment of
the interrupt, all that `front_end` checks: types, `ScreenIsLegible`,
`ErrorIsClassified`, `ExitTellsTheTruth`, `InterruptIsHeard` and
`BadOptionCostsNothing`. Its `IInv` joins to them

* `ConfigIsValid`: what came out of the parser is in range. `RateParsed` is the
  lemma behind it: a product that passed `checked_mul` is a positive `u64`, since
  neither factor can be zero. With it the second looks of Phases 4 and 5 at the
  same options are dead, and no cause of type `option` exists at all, so that
  `BadOptionCostsNothing` follows from the types;
* `Window`: at which steps the device may have been written to, and that the guard
  is armed at exactly those where it is in an unknown state. On the way out
  (`drop`) it is the error that says so, and the guard agrees with it, which is
  what makes the FATAL notice true;
* `EarlyStops` and `SleepBound`: an interrupt before the wipe never gets past the
  gate; whatever is slept was begun when nothing had been slept yet, which needs
  `slept = 0` at the three steps that can begin a sleep without a look at the
  flag;
* `ScreenStage`: which of four shapes the screen has at each step -- nothing drawn
  (`Calm`), the countdown's row (`Counting`), a bar with a clock (`Drawing`), or
  over with what is `kept`. One lemma per method of `Events` says how it moves
  between them (`BarOpens`, `BarMoves`, `BarEnds`, `Counts`, `CalmFinishes`, ...),
  and phases that are finished without having been started are harmless because
  of `CalmFinishes`;
* `ExitsAgree`: the exit code against the lines on the screen and the guard.

What exit code 0 is worth rests on a second invariant, `Reached`, proved on top of
`IInv` (`SuccessIsEarned`): every step past the write loop has the image written,
and every step past the verification has it compared to the end, or verification
waived. `ExitTellsTheTruth` is both together.

An error is described by `Says`: the kind its cause gives it and the words of its
chain, each once. `layer` and `context` add a word that is not there yet
(`LayerSays`, `ContextSays`), `at` settles the kind and the device
(`AtSettles`). All failing steps then go through one lemma, `FailKeeps`, and all
others through `GoKeeps` and what they do to window, sleep and screen.

Only model-checked: `Terminates`, in the three models that state it. Liveness
under fairness is out of the prover's reach. What is proved of the same code is
the safety half: `NeverBothParked`, `WorkerSettled` and `PoolConserved` exclude
the states in which it could stop. The four expected violations are TLC's.

## 5. Not modelled, and why

* Image decoders are third-party: the models take any stream, of any length,
  failing or panicking at any read. The choice of a decoder is in `Preflight`.
* Parsing of `/proc` and `/sys` text (octal escapes, attribute files), wording,
  colours, `human_size`; the buffers' allocation and the ioctl wrappers, of which
  only the failure is modelled.
* Crash recovery does not exist in this program: nothing is persisted, and a run
  starts from scratch.
* A directory that was mounted over: the hosts of `Preflight` mount parents
  before children. With an older mount hidden under a later one,
  `source_of_longest_mount_prefix` finds the hidden one, being deeper; this
  matters only for an image on a filesystem with an anonymous number, and is
  listed as a hazard without a property.
* Partitions of an md device, and two loop devices over one file: the fixpoint
  does not follow them. Phase 1 refuses the stacked device in the first case.
* Names of virtual disks that begin with none of `VIRTUAL_PREFIXES`, read-only
  devices and devices too small for the wipe: the list offers them and Phase 0
  refuses them. `Preflight` has the refusals, not the names.
* The message of a panic's hook, which may land on a bar's row:
  `ScreenIsLegible` leaves panics out. Exit code 101 and death by signal, which
  the table in `imi/main.rs` does not name, are in `ExitTellsTheTruth`, as is the
  0 after `--help` and `--version`; what clap prints then is one line here.
* The rounding of a chunk's target time. That it does not overflow is an
  assumption on the constants (`CommandLineAssumption`), the one
  `common/throttle.rs` asserts of `BUF_SIZE` when it is compiled; of the rate
  itself the models have zero and the overflow of the suffix.
* A library caller may hand `Config` a throttle of zero, which is refused only in
  Phase 4, after the wipe. `BadOptionCostsNothing` is about the command line,
  whose parser refuses it; `FlashPipeline` and `VerifyPipeline` have the refusal.

## 6. What is left

1. Hidden mounts in `BlockStack`, with the property that names the device an
   image really lies on; md partitions.
2. More of the promises of single functions as lemmas: `chunk_target_nanos`, the
   identity comparison, the walk of `HostTopology` from `holders_recursive`.
