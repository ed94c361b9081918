------------------------------ MODULE FrontEnd ------------------------------
(***************************************************************************)
(* The imi process from its arguments to its exit code: main.rs, the       *)
(* signal handler, the calls a run makes on the terminal, the error on its *)
(* way up through the phases, and the guard that goes off when it passes.  *)
(* What the phases do to host and device is in the other modules; of each  *)
(* phase only what it tells the front end, and how it can fail, is here.   *)
(***************************************************************************)
EXTENDS CommandLine, ImiError, Terminal

CONSTANT
  Chunks  \* chunks of the image

ASSUME FrontEndAssumption == Chunks \in Nat /\ NoBar \notin ProgressBar

VARIABLES
  config,     \* the Config, once parsed
  picked,     \* --dev was given
  raw,        \* the image is raw: its length is known
  pc,
  chunk,      \* chunks written, or compared; seconds cooled down; sweeps made
  left,       \* ticks that cancellable_sleep still has to sleep
  term,       \* the screen
  cancel,     \* the flag the handler sets
  session,    \* none, Session or ArmedSession: what run_with holds
  phase_u8,   \* the guard's phase, encoded
  err,        \* the error on its way up
  exit,       \* the status of the process, Running before
  \* history
  touched,    \* a write was issued
  reached,    \* what was brought to its end: the write, the comparison
  cause,      \* where the error was raised, and what it was
  early,      \* the handler was called before Phase 3 looked
  slept       \* ticks and seconds begun since it was called

callVars == <<config, picked, raw>>
guardVars == <<session, phase_u8>>
loopVars == <<chunk, left>>
history == <<touched, reached, cause, early, slept>>
vars == <<callVars, pc, loopVars, term, cancel, guardVars, err, exit, history>>

Running == 256
NoError == [chain |-> << >>, kind |-> "Failed", device |-> "Untouched"]
NoCause == [at |-> "nowhere", type |-> "none"]

Text == {"cancelled by user", "cancelled by user during cooldown", "cancelled by user: settling",
         "verification mismatch", "io error", "refused", "bad cooldown", "bad rate",
         "no device", "no handler", "Phase 0", "Phase 1", "Phase 2", "Phase 3", "Phase 4", "Phase 5a",
         "Phase 5b", "Phase 7", "reading", "writing"}

Steps == {"parse", "pick", "install", "preflight", "confirm", "topology", "claim", "gate",
          "wipe", "flash", "write", "write pace", "write sleep", "cooldown", "countdown",
          "second", "verify", "compare", "compare pace", "compare sleep", "compare paced", "disarm",
          "release", "settle", "settle sleep", "sweep", "sweep pace", "sweep sleep",
          "drop", "unwinding", "report", "succeeded", "done"}

TypeOK ==
  /\ config \in Config /\ picked \in BOOLEAN /\ raw \in BOOLEAN
  /\ pc \in Steps
  /\ chunk \in Nat /\ left \in Nat
  /\ term \in Screen
  /\ cancel \in BOOLEAN
  /\ session \in {"none", "Session", "ArmedSession"}
  /\ phase_u8 \in 0 .. 4
  /\ err = NoError \/ err \in Error(Text)
  /\ exit \in {0, 1, 2, 101, 130, Running}
  /\ touched \in BOOLEAN /\ reached \subseteq {"written", "verified"} /\ early \in BOOLEAN
  /\ cause \in [at : Phase \cup {"nowhere", "pick"},
                type : {"none", "cancelled", "mismatch", "io", "refused", "option"}]
  /\ slept \in Nat

Init ==
  /\ config = new /\ picked = FALSE /\ raw \in BOOLEAN
  /\ pc = "parse"
  /\ chunk = 0 /\ left = 0
  /\ term = new_screen
  /\ cancel = FALSE
  /\ session = "none" /\ phase_u8 = 0
  /\ err = NoError
  /\ exit = Running
  /\ touched = FALSE /\ reached = {} /\ cause = NoCause /\ early = FALSE /\ slept = 0

-----------------------------------------------------------------------------
(* The guard (guard.rs): the phase behind a u8, and two types around it. *)

GuardPhase == <<"Disarmed", "WipingSignatures", "Writing", "Cooldown", "Verifying">>
Encode(phase) == (CHOOSE i \in DOMAIN GuardPhase : GuardPhase[i] = phase) - 1

\* A byte that encodes nothing would be loud.
from_u8(v) == IF v + 1 \in DOMAIN GuardPhase THEN GuardPhase[v + 1] ELSE "Writing"

would_warn_on_drop == session # "none" /\ from_u8(phase_u8) # "Disarmed"

Hold(type, phase) == session' = type /\ phase_u8' = Encode(phase)

\* advance_phase does nothing to a disarmed guard.
set_phase(phase) ==
  /\ phase_u8' = IF from_u8(phase_u8) # "Disarmed" THEN Encode(phase) ELSE phase_u8
  /\ UNCHANGED session

-----------------------------------------------------------------------------
(* Steps. *)

Frame == UNCHANGED <<callVars, cancel, exit, early>>
Quiet == UNCHANGED <<err, cause>>

\* On to step s, with the screen t.
Go(s, t) == pc' = s /\ term' = t /\ Frame /\ Quiet

\* An error e of phase p, raised as c, settled by the boundary of the phase.
Raise(p, e, device, c, t) ==
  /\ err' = at(e, device)
  /\ cause' = [at |-> p, type |-> c]
  /\ term' = phase_finished(t, p, "Failed")
  /\ pc' = "drop"
  /\ Frame

Same == UNCHANGED <<loopVars, guardVars, touched, reached, slept>>

\* What a check refuses by itself, and what a call under it reports.
Refused(p, text, device) ==
  \E e \in {msg("refused"), layer(text, msg("refused"))} :
    Raise(p, e, device, "refused", term)
IoFailed(p, text, device) ==
  Raise(p, layer(text, IoError), device, "io", term)

-----------------------------------------------------------------------------
(* main: arguments, device, handler. *)

\* clap prints its usage and exits with 2.
BadArguments ==
  /\ pc = "parse"
  /\ \E args \in Arguments : ~WellFormed(args)
  /\ pc' = "done" /\ exit' = 2
  /\ term' = Println(term, "usage")
  /\ UNCHANGED <<callVars, loopVars, cancel, guardVars, err, history>>

\* With --help or --version clap prints that, and exits with 0.
PrintHelp ==
  /\ pc = "parse"
  /\ pc' = "done" /\ exit' = 0
  /\ term' = Println(term, "help")
  /\ UNCHANGED <<callVars, loopVars, cancel, guardVars, err, history>>

Parse ==
  /\ pc = "parse"
  /\ \E args \in Arguments :
       /\ WellFormed(args)
       /\ config' = to_config(args)
       /\ picked' = args.dev
  /\ pc' = "pick"
  /\ UNCHANGED <<raw, loopVars, term, cancel, guardVars, err, exit, history>>

\* --dev, or the menu, which Escape and Ctrl-C leave; its errors are anyhow's.
ResolveDevice ==
  /\ pc = "pick"
  /\ \/ Go("install", term)
     \/ /\ ~picked
        /\ err' = msg("no device")
        /\ cause' = [at |-> "pick", type |-> "refused"]
        /\ pc' = "report"
        /\ Frame /\ UNCHANGED term
  /\ Same

\* set_handler, which may fail; the run begins.
InstallHandler ==
  /\ pc = "install"
  /\ \/ Go("preflight", phase_started(term, "Preflight"))
     \/ /\ err' = layer("no handler", IoError)
        /\ cause' = [at |-> "pick", type |-> "io"]
        /\ pc' = "report"
        /\ Frame /\ UNCHANGED term
  /\ Same

-----------------------------------------------------------------------------
(* Phases 0 to 2. *)

\* The cooldown is looked at before anything else.
Preflight ==
  /\ pc = "preflight"
  /\ IF validate_cooldown_secs(resolved_cooldown_secs(config))
     THEN \/ Go("confirm", term)
          \/ Refused("Preflight", "Phase 0", "Untouched")
          \/ IoFailed("Preflight", "Phase 0", "Untouched")
     ELSE Raise("Preflight", msg("bad cooldown"), "Untouched", "option", term)
  /\ Same

ConfirmDestruction ==
  /\ pc = "confirm"
  /\ \E answer \in Answer :
       LET t == IF config.yes THEN term ELSE confirm(term, answer) IN
       IF config.yes \/ response_approves(answer)
       THEN Go("topology",
               phase_started(phase_finished(t, "Preflight", "Completed"), "Topology"))
       ELSE Raise("Preflight", msg("refused"), "Untouched", "refused", t)
  /\ Same

\* Each swap and each mount taken away is reported.
Topology ==
  /\ pc = "topology"
  /\ \/ \E t \in {term, action(term)} :
          Go("claim", phase_started(phase_finished(t, "Topology", "Completed"), "Claim"))
     \/ Refused("Topology", "Phase 1", "Untouched")
     \/ IoFailed("Topology", "Phase 1", "Untouched")
  /\ Same

\* FlashGuard::new and Session::new, or the guard is dropped on the way out.
Claim ==
  /\ pc = "claim"
  /\ \/ Hold("Session", "Disarmed") /\ Go("gate", phase_finished(term, "Claim", "Completed"))
     \/ /\ \/ Refused("Claim", "Phase 2", "Untouched")
           \/ IoFailed("Claim", "Phase 2", "Untouched")
        /\ UNCHANGED guardVars
  /\ UNCHANGED <<loopVars, touched, reached, slept>>

-----------------------------------------------------------------------------
(* Phase 3. *)

\* Mutant of Gate: the window is opened before the flag is looked at.
ArmedGate ==
  /\ pc = "gate"
  /\ Hold("ArmedSession", "WipingSignatures")
  /\ IF cancel
     THEN Raise("Wipe", from_source(Cancelled), "Untouched", "cancelled", term)
     ELSE Go("wipe", phase_started(term, "Wipe"))
  /\ UNCHANGED <<loopVars, touched, reached, slept>>

\* preflight, then Session::arm.
Gate ==
  /\ pc = "gate"
  /\ IF cancel
     THEN /\ Raise("Wipe", from_source(Cancelled), "Untouched", "cancelled", term)
          /\ UNCHANGED guardVars
     ELSE /\ Hold("ArmedSession", "WipingSignatures")
          /\ Go("wipe", phase_started(term, "Wipe"))
  /\ UNCHANGED <<loopVars, touched, reached, slept>>

\* wipe_ends.
Wipe ==
  /\ pc = "wipe"
  /\ touched' = TRUE
  /\ \/ Go("flash", phase_finished(term, "Wipe", "Completed"))
     \/ Raise("Wipe", layer("Phase 3", layer("writing", IoError)), "Indeterminate", "io", term)
  /\ UNCHANGED <<loopVars, guardVars, reached, slept>>

-----------------------------------------------------------------------------
(* cancellable_sleep: ticks of 100 ms, the flag polled before each; a sleep *)
(* of one tick or less is not polled at all.                               *)

Slept(ticks) == slept' = IF cancel THEN slept + ticks ELSE slept

SleepFrame == UNCHANGED <<term, chunk, guardVars, touched, reached>> /\ Frame /\ Quiet

\* Mutant of BeginSleep: every sleep in one go.
SleepThrough(total, at_step, sleeping, next) ==
  /\ pc = at_step
  /\ left' = 0 /\ pc' = next /\ Slept(total)
  /\ SleepFrame

\* At step at_step; in step sleeping until it is over, then on to next.
BeginSleep(total, at_step, sleeping, next) ==
  /\ pc = at_step
  /\ IF total <= 1
     THEN left' = 0 /\ pc' = next /\ Slept(total)
     ELSE left' = total /\ pc' = sleeping /\ UNCHANGED slept
  /\ SleepFrame

Sleep(sleeping, next) ==
  /\ pc = sleeping
  /\ IF cancel \/ left = 0
     THEN left' = 0 /\ pc' = next
     ELSE left' = left - 1 /\ UNCHANGED pc
  /\ UNCHANGED slept
  /\ SleepFrame

\* What is left of the time a chunk should have taken.
Pace(at_step, sleeping, next) ==
  /\ pc = at_step
  /\ \E took \in {0, chunk_target(config.throttle)} :
       BeginSleep(chunk_target(config.throttle) - took, at_step, sleeping, next)

-----------------------------------------------------------------------------
(* Phase 4. *)

FlashFailed(e, c) ==
  /\ Raise("Flash", layer("Phase 4", e), "Indeterminate", c, term)
  /\ UNCHANGED <<loopVars, guardVars, touched, reached, slept>>

\* The image is opened, the rate looked at, the opening tick sent.
FlashStart ==
  /\ pc = "flash"
  /\ set_phase("Writing")
  /\ chunk' = 0
  /\ LET t == phase_started(term, "Flash")
         opened == progress(t, "Flash", 0, ~raw) IN
     \/ IF chunk_target_ok(config.throttle) THEN Go("write", opened)
        ELSE Raise("Flash", layer("Phase 4", msg("bad rate")), "Indeterminate", "option", opened)
     \/ \E u \in {t, opened} :
          Raise("Flash", layer("Phase 4", layer("reading", IoError)), "Indeterminate", "io", u)
  /\ UNCHANGED <<left, touched, reached, slept>>

\* A chunk and its report.
WriteChunk ==
  /\ pc = "write"
  /\ ~cancel /\ chunk < Chunks
  /\ chunk' = chunk + 1
  /\ Go("write pace", progress(term, "Flash", chunk + 1, ~raw))
  /\ UNCHANGED <<left, guardVars, touched, reached, slept>>

WritePace == Pace("write pace", "write sleep", "write")
WriteSleep == Sleep("write sleep", "write")

\* Worker and main thread: what was read or written fails, or the flag is set.
WriteStops ==
  /\ pc = "write"
  /\ \/ cancel /\ FlashFailed(from_source(Cancelled), "cancelled")
     \/ ~cancel /\ FlashFailed(context(from_source(IoError), "writing"), "io")
     \/ ~cancel /\ FlashFailed(context(from_source(IoError), "reading"), "io")
     \/ ~cancel /\ FlashFailed(msg("refused"), "refused")

\* The last report, then flash_finalize.
FlashEnds ==
  /\ pc = "write"
  /\ ~cancel /\ chunk = Chunks
  /\ LET t == progress(term, "Flash", chunk, ~raw) IN
     \/ /\ Go("cooldown", phase_finished(t, "Flash", "Completed"))
        /\ reached' = {"written"}
     \/ /\ Raise("Flash", layer("Phase 4", layer("writing", IoError)), "Indeterminate", "io", t)
        /\ UNCHANGED reached
  /\ UNCHANGED <<loopVars, guardVars, touched, slept>>

\* The decompressing worker panics: resume_unwind, past every boundary, and in
\* place of an error the loop stopped for.
Panics ==
  /\ \/ pc \in {"write", "compare"}
     \/ pc = "compare paced" /\ cancel
  /\ ~raw
  /\ pc' = "unwinding"
  /\ Frame /\ Quiet
  /\ UNCHANGED term
  /\ Same

-----------------------------------------------------------------------------
(* Phase 5. *)

VerifyFailed(text, e, c) ==
  /\ Raise("Verify", layer(text, e), "Indeterminate", c, term)
  /\ UNCHANGED <<loopVars, guardVars, touched, reached, slept>>

CooldownStart ==
  /\ pc = "cooldown"
  /\ chunk' = 0
  /\ IF config.skip_cooldown
     THEN Go("verify", phase_skipped(term, "Cooldown")) /\ UNCHANGED guardVars
     ELSE /\ set_phase("Cooldown")
          /\ IF validate_cooldown_secs(resolved_cooldown_secs(config))
             THEN Go("countdown", phase_started(term, "Cooldown"))
             ELSE Raise("Verify", msg("bad cooldown"), "Indeterminate", "option", term)
  /\ UNCHANGED <<left, touched, reached, slept>>

\* The flag, then the count.
CooldownSecond ==
  /\ pc = "countdown"
  /\ ~cancel /\ chunk < resolved_cooldown_secs(config)
  /\ Go("second", Countdown(term, chunk, resolved_cooldown_secs(config)))
  /\ Same

\* The second itself, in one go.
CooldownSleep ==
  /\ pc = "second"
  /\ chunk' = chunk + 1
  /\ Slept(TicksPerSecond)
  /\ Go("countdown", term)
  /\ UNCHANGED <<left, guardVars, touched, reached>>

\* The flag is not looked at after the last second.
CooldownEnds ==
  /\ pc = "countdown"
  /\ chunk = resolved_cooldown_secs(config)
  /\ Go("verify",
        phase_finished(Countdown(term, chunk, chunk), "Cooldown", "Completed"))
  /\ Same

\* cooldown finishes its phase, and the boundary around it Phase::Verify.
CooldownStops ==
  /\ pc = "countdown"
  /\ cancel /\ chunk < resolved_cooldown_secs(config)
  /\ Raise("Verify", layer("Phase 5a", from_source(CancelledDuring("cancelled by user during cooldown"))),
           "Indeterminate", "cancelled", phase_finished(term, "Cooldown", "Failed"))
  /\ Same

VerifyStart ==
  /\ pc = "verify"
  /\ chunk' = 0
  /\ LET t == phase_started(term, "Verify")
         opened == progress(t, "Verify", 0, FALSE) IN
     IF config.skip_verification
     THEN /\ Go("disarm",
                phase_finished(phase_skipped(term, "Verify"), "Verify", "Completed"))
          /\ UNCHANGED guardVars
     ELSE /\ set_phase("Verifying")
          /\ \/ IF chunk_target_ok(config.throttle) THEN Go("compare", opened)
                ELSE Raise("Verify", layer("Phase 5b", msg("bad rate")), "Indeterminate",
                           "option", opened)
             \/ \E u \in {t, opened} :
                  Raise("Verify", layer("Phase 5b", layer("reading", IoError)),
                        "Indeterminate", "io", u)
  /\ UNCHANGED <<left, touched, reached, slept>>

CompareChunk ==
  /\ pc = "compare"
  /\ ~cancel /\ chunk < Chunks
  /\ chunk' = chunk + 1
  /\ Go("compare pace", progress(term, "Verify", chunk + 1, FALSE))
  /\ UNCHANGED <<left, guardVars, touched, reached, slept>>

\* The pipelined arm, for an image that is decompressed, comes back to the flag
\* from the throttle's sleep, be it of no length.
PacedNext == IF raw \/ config.throttle = None THEN "compare" ELSE "compare paced"

\* A chunk may also take longer than it should: then there is no sleep.
ComparePace ==
  \/ Pace("compare pace", "compare sleep", PacedNext)
  \/ BeginSleep(0, "compare pace", "compare sleep", "compare")
CompareSleep == Sleep("compare sleep", PacedNext)

ComparePaced ==
  /\ pc = "compare paced"
  /\ \/ cancel /\ VerifyFailed("Phase 5b", from_source(Cancelled), "cancelled")
     \/ ~cancel /\ Go("compare", term) /\ Same

\* Either arm looks at the flag before a chunk, and at nothing after the last.
CompareStops ==
  /\ pc = "compare"
  /\ chunk < Chunks
  /\ \/ cancel /\ VerifyFailed("Phase 5b", from_source(Cancelled), "cancelled")
     \/ ~cancel /\ VerifyFailed("Phase 5b", from_source(VerificationMismatch), "mismatch")
     \/ ~cancel /\ VerifyFailed("Phase 5b", context(from_source(IoError), "reading"), "io")

CompareEnds ==
  /\ pc = "compare"
  /\ chunk = Chunks
  /\ Go("disarm", phase_finished(term, "Verify", "Completed"))
  /\ reached' = reached \cup {"verified"}
  /\ UNCHANGED <<loopVars, guardVars, touched, slept>>

-----------------------------------------------------------------------------
(* Phases 6 and 7. *)

\* ArmedSession::disarm comes before the first event.
Disarm ==
  /\ pc = "disarm"
  /\ Hold("Session", "Disarmed")
  /\ Go("release", phase_started(term, "KernelSync"))
  /\ UNCHANGED <<loopVars, touched, reached, slept>>

\* BLKRRPART, whose failure is a warning, and into_file.
Release ==
  /\ pc = "release"
  /\ \E t \in {term, warning(term)} :
       Go("settle", phase_started(phase_finished(t, "KernelSync", "Completed"), "Automount"))
  /\ session' = "none" /\ phase_u8' = 0
  /\ chunk' = 0
  /\ UNCHANGED <<left, touched, reached, slept>>

AutomountFailed(e, c) ==
  /\ Raise("Automount", e, "Written", c, term)
  /\ UNCHANGED <<loopVars, guardVars, touched, reached, slept>>

\* Two seconds, then two seconds after each sweep that found something.
Settle == BeginSleep(2 * TicksPerSecond, "settle", "settle sleep", "sweep")
SettleSleep == Sleep("settle sleep", "sweep")

SweepPass ==
  /\ pc = "sweep"
  /\ ~cancel /\ chunk < 3
  /\ chunk' = chunk + 1
  /\ \E stubborn \in BOOLEAN :
       LET t == action(warning(term)) IN
       Go("sweep pace", IF stubborn THEN warning(t) ELSE t)
  /\ UNCHANGED <<left, guardVars, touched, reached, slept>>

SweepPace == BeginSleep(2 * TicksPerSecond, "sweep pace", "sweep sleep", "sweep")
SweepSleep == Sleep("sweep sleep", "sweep")

SweepStops ==
  /\ pc = "sweep"
  /\ \/ /\ cancel /\ chunk < 3
        /\ AutomountFailed(from_source(CancelledDuring("cancelled by user: settling")), "cancelled")
     \/ AutomountFailed(layer("Phase 7", IoError), "io")
     \/ chunk = 3 /\ AutomountFailed(msg("refused"), "refused")

\* A pass that finds nothing, or the final verdict: run_with calls finished.
SweepClean ==
  /\ pc = "sweep"
  /\ ~cancel \/ chunk = 3
  /\ Go("succeeded", finished(phase_finished(term, "Automount", "Completed")))
  /\ Same

-----------------------------------------------------------------------------
(* The way out. *)

\* Drop: the notice begins with a line feed of its own.
Notice(t) == Println([t EXCEPT !.row = IF t.bar = NoBar THEN "free" ELSE @], "FATAL")

DropSession(next) ==
  /\ term' = IF would_warn_on_drop THEN Notice(term) ELSE term
  /\ session' = "none" /\ phase_u8' = 0
  /\ pc' = next

\* run_with returns the error, dropping the session.
Return ==
  /\ pc = "drop"
  /\ DropSession("report")
  /\ Quiet /\ Frame
  /\ UNCHANGED <<loopVars, touched, reached, slept>>

Unwind ==
  /\ pc = "unwinding"
  /\ DropSession("done")
  /\ exit' = 101
  /\ UNCHANGED <<callVars, loopVars, cancel, err, history>>

\* eprintln!("error: {e:#}"), and exit.
Report ==
  /\ pc = "report"
  /\ term' = Println(term, "error")
  /\ exit' = 1
  /\ pc' = "done"
  /\ UNCHANGED <<callVars, loopVars, cancel, guardVars, err, history>>

Exit ==
  /\ pc = "succeeded"
  /\ exit' = 0
  /\ pc' = "done"
  /\ UNCHANGED <<callVars, loopVars, term, cancel, guardVars, err, history>>

-----------------------------------------------------------------------------
(* SIGINT and SIGTERM. *)

BeforeWipe == {"preflight", "confirm", "topology", "claim", "gate"}

\* The handler sets the flag and nothing else, however often it is called.
Interrupt ==
  /\ pc \notin {"parse", "pick", "install", "done"}
  /\ ~cancel
  /\ cancel' = TRUE
  /\ early' = (pc \in BeforeWipe)
  /\ UNCHANGED <<callVars, pc, loopVars, term, guardVars, err, exit, touched, reached, cause, slept>>

\* Without the handler the signal ends the process.
Killed ==
  /\ pc \in {"parse", "pick", "install"}
  /\ pc' = "done" /\ exit' = 130
  /\ UNCHANGED <<callVars, loopVars, term, cancel, guardVars, err, history>>

Main ==
  \/ BadArguments \/ PrintHelp \/ Parse \/ ResolveDevice \/ InstallHandler
  \/ Preflight \/ ConfirmDestruction \/ Topology \/ Claim \/ Gate \/ Wipe
  \/ FlashStart \/ WriteChunk \/ WritePace \/ WriteSleep \/ WriteStops \/ FlashEnds \/ Panics
  \/ CooldownStart \/ CooldownSecond \/ CooldownSleep \/ CooldownEnds \/ CooldownStops
  \/ VerifyStart \/ CompareChunk \/ ComparePace \/ CompareSleep \/ ComparePaced
  \/ CompareStops \/ CompareEnds
  \/ Disarm \/ Release
  \/ Settle \/ SettleSleep \/ SweepPass \/ SweepPace \/ SweepSleep \/ SweepStops \/ SweepClean
  \/ Return \/ Unwind \/ Report \/ Exit

Terminated == exit # Running /\ UNCHANGED vars

Next == Main \/ Interrupt \/ Killed \/ Terminated

Spec == Init /\ [][Next]_vars

-----------------------------------------------------------------------------
(* Properties. *)

Panicked == pc = "unwinding" \/ exit = 101

\* ui.rs and progress.rs against the events a run really sends, where phases
\* are finished that were never started: no line is printed on the row of a bar
\* or of the countdown; a bar is on the screen only in its own phase, and its
\* rate is taken from a clock of its own; what stays on the screen at the end
\* is the bar of the phase that failed.
ScreenIsLegible ==
  ~Panicked =>
    /\ ~term.torn
    /\ term.bar # NoBar =>
         /\ pc \in CASE term.bar.phase = "Flash" -> {"write", "write pace", "write sleep"}
                    [] term.bar.phase = "Verify" ->
                         {"compare", "compare pace", "compare sleep", "compare paced"}
         /\ term.bar.position > 0 => term.bar.timed
    /\ exit # Running => term.kept \subseteq {cause.at}
    /\ exit = 1 /\ cause.type = "mismatch" => term.kept = {"Verify"}

\* error.rs: through however many layers, and two boundaries of which the
\* inner may come first, an error still says what was raised and what that
\* means for the device -- nothing of it twice.
ErrorIsClassified ==
  pc \in {"drop", "report"} /\ cause.at # "pick" =>
    /\ err.device = "Untouched" <=> ~touched
    /\ err.device = "Written" <=> cause.at = "Automount"
    /\ err.kind = CASE cause.type = "cancelled" -> "Cancelled"
                    [] cause.type = "mismatch" -> "VerificationFailed"
                    [] OTHER -> IF touched THEN "Failed" ELSE "Refused"
    /\ err.kind = "Cancelled" => cancel
    /\ \A i, j \in DOMAIN err.chain : err.chain[i] = err.chain[j] => i = j

\* main.rs, "Exit codes" and "Why exit() is safe here".  0 is SUCCESS over a
\* device that was written and read back -- or not read back because that was
\* asked for, which is less than the table says (ZeroMeansVerified) -- or clap's
\* help, and nothing happened.  On 1 the error is the last line, below the FATAL
\* notice, which is there exactly when the device is left in an unknown state.
\* On 2, or a signal before the handler is in, nothing happened either.
ExitTellsTheTruth ==
  exit # Running =>
    /\ exit = 0 <=> "SUCCESS" \in term.said \/ "help" \in term.said
    /\ "SUCCESS" \in term.said =>
         /\ "written" \in reached
         /\ config.skip_verification \/ "verified" \in reached
    /\ exit = 1 <=> term.last = "error"
    /\ "FATAL" \in term.said <=>
         \/ exit = 101
         \/ exit = 1 /\ cause.at # "pick" /\ err.device = "Indeterminate"
    /\ exit \in {2, 130} \/ "help" \in term.said => ~touched /\ session = "none"

\* main.rs:10 on exit code 0, of a run that wrote to a device: "the device was
\* written and verified".  The code exits with 0 after --skip-verification too.
ZeroMeansVerified == exit = 0 /\ touched => {"written", "verified"} \subseteq reached

\* signals.rs, cancel.rs: an interrupt before the wipe -- at the prompt, whatever
\* is then typed -- costs the device nothing and never ends in success; and
\* from the interrupt on, the process sleeps no longer than one tick, or the one
\* second of the countdown.
InterruptIsHeard ==
  /\ early => ~touched /\ exit # 0
  /\ slept <= IF config.skip_cooldown THEN 1 ELSE TicksPerSecond

\* A bad option -- a rate of zero, a cooldown out of bounds -- is looked at again
\* in Phases 4 and 5, after the wipe.  From the command line none gets there.
BadOptionCostsNothing == cause.type = "option" => ~touched
=============================================================================
