---------------------------- MODULE FlashSerial ----------------------------
(***************************************************************************)
(* The serial arm of Phase 4 (phases/phase_4.rs, flash_serial): one thread *)
(* reads a raw image into one buffer and writes it, chunk after chunk.     *)
(***************************************************************************)
EXTENDS ChunkWriter

VARIABLES
  hand,  \* the filled buffer
  pos    \* sectors the reader has yielded

mainVars == <<pc, offset, total, outcome, result, late>>
vars == <<fixedVars, cancel, faults, deviceVars, mainVars, hand, pos>>

States == {"setup", "check", "fill", "chunk", "throttle", "clear_direct",
           "sync", "done"}

TypeOK ==
  /\ WriterTypeOK
  /\ pc \in States
  /\ hand \in [from : Nat, n : 0 .. BUF_SIZE]
  /\ pos \in Nat

Init ==
  /\ WriterInit
  /\ hand = [from |-> 0, n |-> 0]
  /\ pos = 0

-----------------------------------------------------------------------------
\* set_direct, the buffer, and then the throttle rate.
Setup ==
  /\ pc = "setup"
  /\ direct' = TRUE
  /\ IF throttle = "zero" THEN Finish("rate")
     ELSE pc' = "check" /\ UNCHANGED result
  /\ UNCHANGED <<fixedVars, cancel, faults, disk, dirty, offset, total, outcome,
                 late, hand, pos>>

SetupFault ==
  /\ pc = "setup"
  /\ direct' \in BOOLEAN
  /\ Finish("io")
  /\ faults' = faults \cup {"device"}
  /\ UNCHANGED <<fixedVars, cancel, disk, dirty, offset, total, outcome, late,
                 hand, pos>>

CheckCancel ==
  /\ pc = "check"
  /\ IF cancel THEN Finish("cancelled")
     ELSE pc' = "fill" /\ UNCHANGED result
  /\ UNCHANGED <<fixedVars, cancel, faults, deviceVars, offset, total, outcome,
                 late, hand, pos>>

Fill ==
  /\ pc = "fill"
  /\ hand' = [from |-> pos, n |-> FillAt(pos)]
  /\ pos' = pos + FillAt(pos)
  /\ pc' = "chunk"
  /\ UNCHANGED <<fixedVars, cancel, faults, deviceVars, offset, total, outcome,
                 result, late>>

FillError ==
  /\ pc = "fill"
  /\ faults' = faults \cup {"reader"}
  /\ Finish("io")
  /\ UNCHANGED <<fixedVars, cancel, deviceVars, offset, total, outcome, late,
                 hand, pos>>

ProcessContinue ==
  /\ pc = "chunk"
  /\ FullChunk(hand)
  /\ IF outcome' = "ok" THEN pc' = "throttle" /\ UNCHANGED result
     ELSE Finish(outcome')
  /\ UNCHANGED <<fixedVars, cancel, hand, pos>>

ProcessEnd ==
  /\ pc = "chunk"
  /\ LastChunk(hand) \/ ChunkError(hand)
  /\ IF outcome' = "ok" THEN pc' = "clear_direct" /\ UNCHANGED result
     ELSE Finish(outcome')
  /\ UNCHANGED <<fixedVars, cancel, hand, pos>>

\* The cancellable sleep, if any; the top of the loop polls the flag.
Throttle ==
  /\ pc = "throttle"
  /\ pc' = "check"
  /\ UNCHANGED <<fixedVars, cancel, faults, deviceVars, offset, total, outcome,
                 result, late, hand, pos>>

Main ==
  \/ Setup \/ SetupFault \/ CheckCancel \/ Fill \/ FillError
  \/ ProcessContinue \/ ProcessEnd \/ Throttle
  \/ Finalize /\ UNCHANGED <<fixedVars, cancel, hand, pos>>

RequestCancel ==
  /\ ~cancel
  /\ cancel' = TRUE
  /\ UNCHANGED <<fixedVars, faults, deviceVars, mainVars, hand, pos>>

Terminated == pc = "done" /\ UNCHANGED vars

Next == Main \/ RequestCancel \/ Terminated

Spec == Init /\ [][Next]_vars
=============================================================================
