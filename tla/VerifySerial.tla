---------------------------- MODULE VerifySerial ----------------------------
(***************************************************************************)
(* The serial arm of Phase 5b (phases/phase_5.rs, verify_serial): one      *)
(* thread reads a chunk of the device, then the same chunk of a raw image, *)
(* and compares them.                                                      *)
(***************************************************************************)
EXTENDS ChunkReader

vars == <<fixedVars, cancel, faults, pc, remaining, offset, outcome, diffAt,
          result, late>>

States == {"setup", "check", "read", "fill", "compare", "throttle", "done"}

TypeOK == ReaderTypeOK /\ pc \in States

Init == ReaderInit

-----------------------------------------------------------------------------
\* Two buffers, then the throttle rate.
Setup ==
  /\ pc = "setup"
  /\ IF throttle = "zero" THEN Finish("rate")
     ELSE pc' = "check" /\ UNCHANGED result
  /\ UNCHANGED <<fixedVars, cancel, faults, remaining, offset, outcome, diffAt,
                 late>>

\* while remaining > 0, and the cancel check inside it.
Check ==
  /\ pc = "check"
  /\ IF remaining = 0 THEN Finish("ok")
     ELSE IF cancel THEN Finish("cancelled")
     ELSE pc' = "read" /\ UNCHANGED result
  /\ UNCHANGED <<fixedVars, cancel, faults, remaining, offset, outcome, diffAt,
                 late>>

ReadDevice ==
  /\ pc = "read"
  /\ ReadsDevice
  /\ pc' = "fill"
  /\ UNCHANGED <<fixedVars, cancel, faults, remaining, offset, outcome, diffAt,
                 result>>

\* Mutant of Fill: the end of the image is the end of the verification.
FillToEnd ==
  /\ pc = "fill"
  /\ IF Yields(offset, ChunkOf(remaining))
     THEN pc' = "compare" /\ UNCHANGED result
     ELSE Finish("ok")
  /\ UNCHANGED <<fixedVars, cancel, faults, remaining, offset, outcome, diffAt,
                 late>>

\* fill_exact: the matching chunk of the image, or an early end of file.
Fill ==
  /\ pc = "fill"
  /\ IF Yields(offset, ChunkOf(remaining))
     THEN pc' = "compare" /\ UNCHANGED result
     ELSE Finish("io")
  /\ UNCHANGED <<fixedVars, cancel, faults, remaining, offset, outcome, diffAt,
                 late>>

\* An allocation, the device or the image file fails.
Fault ==
  /\ pc \in {"setup", "read", "fill"}
  /\ Finish("io")
  /\ faults' = faults \cup {IF pc = "fill" THEN "reader" ELSE "device"}
  /\ UNCHANGED <<fixedVars, cancel, remaining, offset, outcome, diffAt, late>>

CompareEqual ==
  /\ pc = "compare"
  /\ Matched(offset, ChunkOf(remaining))
  /\ pc' = IF throttle = "rate" THEN "throttle" ELSE "check"
  /\ UNCHANGED <<fixedVars, cancel, faults, result, late>>

CompareDiffers ==
  /\ pc = "compare"
  /\ Mismatched(offset, ChunkOf(remaining))
  /\ Finish("mismatch")
  /\ UNCHANGED <<fixedVars, cancel, faults, late>>

\* cancellable_sleep returns early on the flag; the next check acts on it.
Throttle ==
  /\ pc = "throttle"
  /\ pc' = "check"
  /\ UNCHANGED <<fixedVars, cancel, faults, remaining, offset, outcome, diffAt,
                 result, late>>

Main ==
  \/ Setup \/ Check \/ ReadDevice \/ Fill \/ Fault
  \/ CompareEqual \/ CompareDiffers \/ Throttle

-----------------------------------------------------------------------------
\* The caller's flag, stored by a signal handler or by another thread.
RequestCancel ==
  /\ ~cancel
  /\ cancel' = TRUE
  /\ UNCHANGED <<fixedVars, faults, pc, remaining, offset, outcome, diffAt,
                 result, late>>

Terminated == pc = "done" /\ UNCHANGED vars

Next == Main \/ RequestCancel \/ Terminated

Spec == Init /\ [][Next]_vars
=============================================================================
