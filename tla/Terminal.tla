------------------------------ MODULE Terminal ------------------------------
(***************************************************************************)
(* The terminal front end (imi/src/ui.rs, imi/src/progress.rs): what each  *)
(* method of Events does to the screen.  Nothing of the wording is kept,   *)
(* only which line it is and on which row it lands.  A terminal is a value,*)
(* so that two calls in a row are one function of the other.               *)
(***************************************************************************)
EXTENDS Naturals

CONSTANT NoBar  \* None of Option<ProgressBar>

Phase == {"Preflight", "Topology", "Claim", "Wipe", "Flash", "Cooldown", "Verify",
          "KernelSync", "Automount"}
PhaseOutcome == {"Completed", "Failed"}

Line == {"wiping", "flashing", "verifying", "securing", "cooldown skipped",
         "verification skipped", "cooled down", "line closed", "action", "warning",
         "banner", "no terminal", "SUCCESS", "FATAL", "error", "usage", "help"}

\* unknown: no total, which is when indicatif's own thread draws the spinner.
ProgressBar == [phase : Phase, style : {"flash", "verify"}, unknown : BOOLEAN,
                position : Nat, timed : BOOLEAN]

Screen == [
  bar : ProgressBar \cup {NoBar},
  bar_started : BOOLEAN,
  row : {"free", "bar", "countdown"},  \* what the cursor's row holds
  kept : SUBSET Phase,                 \* bars left on the screen
  said : SUBSET Line,
  last : Line \cup {"none"},
  torn : BOOLEAN]                      \* history: a line was printed on such a row

new_screen == [bar |-> NoBar, bar_started |-> FALSE, row |-> "free", kept |-> {},
               said |-> {}, last |-> "none", torn |-> FALSE]

Println(t, line) ==
  [t EXCEPT !.said = @ \cup {line}, !.last = line, !.torn = @ \/ t.row # "free"]

\* The methods that print nothing, for most phases.
PhaseLine == [Wipe |-> "wiping", Flash |-> "flashing", Verify |-> "verifying",
              KernelSync |-> "securing"]
SkipLine == [Cooldown |-> "cooldown skipped", Verify |-> "verification skipped"]
PrintIfAny(t, lines, phase) ==
  IF phase \in DOMAIN lines THEN Println(t, lines[phase]) ELSE t

\* Mutant of phase_started: the clock of the last bar is taken for this one's.
StartedStays(t, phase) == PrintIfAny(t, PhaseLine, phase)

phase_started(t, phase) == PrintIfAny([t EXCEPT !.bar_started = FALSE], PhaseLine, phase)

phase_skipped(t, phase) == PrintIfAny(t, SkipLine, phase)

countdown_remaining(done, total) == IF done >= total THEN 0 ELSE total - done

uses_verify_bar(phase) == phase = "Verify"

\* A bar has a total, or is a spinner; the verify bar always has one.
make_bar(phase, unknown) ==
  [phase |-> phase,
   style |-> IF uses_verify_bar(phase) THEN "verify" ELSE "flash",
   unknown |-> ~uses_verify_bar(phase) /\ unknown,
   position |-> 0, timed |-> FALSE]

\* get_or_insert_with: the bar there is, or one for this phase.
TheBar(t, phase, unknown) == IF t.bar = NoBar THEN make_bar(phase, unknown) ELSE t.bar

\* The first call starts the clock and draws nothing; a later one draws.
progress(t, phase, done, unknown) ==
  LET bar == TheBar(t, phase, unknown) IN
  IF t.bar_started
  THEN [t EXCEPT !.bar = [bar EXCEPT !.position = done], !.row = "bar"]
  ELSE [t EXCEPT !.bar = [bar EXCEPT !.timed = TRUE],
                 !.bar_started = TRUE,
                 !.row = IF bar.unknown THEN "bar" ELSE @]

\* The same method for Phase::Cooldown: it rewrites the row it is on.
Countdown(t, done, total) ==
  IF countdown_remaining(done, total) > 0 THEN [t EXCEPT !.row = "countdown"] ELSE t

keeps_bar_on_screen(outcome) == outcome = "Failed"

\* abandon leaves the bar on its row, finish_and_clear takes it off.
TakeBar(t, outcome) ==
  IF t.bar = NoBar THEN t
  ELSE [t EXCEPT !.bar = NoBar, !.row = "free",
                 !.kept = IF keeps_bar_on_screen(outcome) THEN @ \cup {t.bar.phase} ELSE @]

\* The countdown is overwritten, or its row closed.
CloseCountdown(t, outcome) ==
  Println([t EXCEPT !.row = "free"],
          IF outcome = "Completed" THEN "cooled down" ELSE "line closed")

phase_finished(t, phase, outcome) ==
  IF phase = "Cooldown" THEN CloseCountdown(TakeBar(t, outcome), outcome)
  ELSE TakeBar(t, outcome)

action(t) == Println(t, "action")
warning(t) == Println(t, "warning")
finished(t) == Println(t, "SUCCESS")

\* What the operator does at the prompt, and what is made of it.
Answer == {"no tty", "hung up", "yes", "anything else"}
response_approves(answer) == answer = "yes"
confirm(t, answer) ==
  LET asked == Println(t, "banner") IN
  IF answer = "no tty" THEN Println(asked, "no terminal") ELSE asked
=============================================================================
