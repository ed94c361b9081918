---------------------------- MODULE ChunkReader ----------------------------
(***************************************************************************)
(* What the serial and the pipelined arm of Phase 5b share                 *)
(* (phases/phase_5.rs): the chunk both sides derive from bytes_written,    *)
(* fill_exact, compare_chunk, and the thread that owns the descriptor.     *)
(* The image is the sequence 0, 1, 2, ...; a place of the device that      *)
(* holds anything but its own number differs from the image as it reads    *)
(* now, whether the device lost it or the image file was edited since.     *)
(***************************************************************************)
EXTENDS Naturals

CONSTANTS
  BUF_SIZE,  \* places in one AlignedBuf
  DevSize,   \* places on the target device
  MaxImage,  \* bound on the length of the second reading of the image
  Old        \* what a place holds that does not hold the image

ASSUME ReaderAssumption ==
  /\ BUF_SIZE \in Nat \ {0}
  /\ DevSize \in Nat
  /\ Old \notin Nat

VARIABLES
  \* fixed for the run
  written,   \* bytes_written of the FlashOutcome
  imageLen,  \* what the reopened image yields before end of file
  throttle,  \* "off", "rate", or the "zero" rate chunk_target_nanos refuses
  disk,      \* content of each place of the device, held under O_EXCL
  \* the run's environment
  cancel,    \* the caller's cancel flag: set at any time, never cleared
  faults,    \* history: the failures the environment injected so far
  \* the thread that owns the descriptor
  pc, remaining, offset,
  outcome,   \* how the compare loop ended so far: "ok" or an error
  diffAt,    \* the offset a VerificationMismatch carries
  result,    \* "running", then what verify returns ("panic": it unwinds)
  late       \* history: chunks read from the device after cancel was set

fixedVars == <<written, imageLen, throttle, disk>>

Places == 0 .. DevSize - 1
FaultKinds == {"device", "reader", "panic", "spawn"}
Outcomes == {"ok", "cancelled", "mismatch", "io", "rate", "protocol"}

ReaderTypeOK ==
  /\ written \in 0 .. DevSize
  /\ imageLen \in 0 .. MaxImage
  /\ throttle \in {"off", "rate", "zero"}
  /\ disk \in [Places -> Nat \cup {Old}]
  /\ cancel \in BOOLEAN
  /\ faults \in SUBSET FaultKinds
  /\ remaining \in 0 .. written
  /\ offset \in 0 .. written
  /\ outcome \in Outcomes
  /\ diffAt \in Nat
  /\ result \in Outcomes \cup {"running", "panic"}
  /\ late \in Nat

ReaderInit ==
  /\ written \in 0 .. DevSize
  /\ imageLen \in 0 .. MaxImage
  /\ throttle \in {"off", "rate", "zero"}
  /\ \E lost \in SUBSET (0 .. written - 1) :
       disk = [i \in Places |-> IF i < written /\ i \notin lost THEN i ELSE Old]
  /\ cancel = FALSE
  /\ faults = {}
  /\ pc = "setup"
  /\ remaining = written
  /\ offset = 0
  /\ outcome = "ok"
  /\ diffAt = 0
  /\ result = "running"
  /\ late = 0

-----------------------------------------------------------------------------
\* Mutant of ChunkOf: the last chunk is rounded up to a whole buffer.
ChunkRoundedUp(left) == BUF_SIZE

\* remaining.min(BUF_SIZE), which main and the worker compute each for itself.
ChunkOf(left) == IF left < BUF_SIZE THEN left ELSE BUF_SIZE

\* fill_exact at position p: n places, or an error when the stream ends before.
Yields(p, n) == p + n <= imageLen

\* Where a chunk of n places read at offset differs from the image from p on.
Differing(p, n) == {i \in 0 .. n - 1 : disk[offset + i] # p + i}

Finish(r) == pc' = "done" /\ result' = r

\* read_exact_at on the device succeeds.
ReadsDevice == late' = IF cancel THEN late + 1 ELSE late

\* Mutant of Mismatched: the offset is that of the chunk.
MismatchedAtChunk(p, n) ==
  /\ Differing(p, n) # {}
  /\ outcome' = "mismatch"
  /\ diffAt' = offset
  /\ UNCHANGED <<remaining, offset>>

\* compare_chunk: the first differing byte, at its absolute offset.
Mismatched(p, n) ==
  /\ outcome' = "mismatch"
  /\ \E i \in Differing(p, n) :
       /\ \A j \in Differing(p, n) : i <= j
       /\ diffAt' = offset + i
  /\ UNCHANGED <<remaining, offset>>

\* The chunk was found equal: both counters move by its length.
Matched(p, n) ==
  /\ Differing(p, n) = {}
  /\ remaining' = remaining - n
  /\ offset' = offset + n
  /\ UNCHANGED <<outcome, diffAt>>

-----------------------------------------------------------------------------
(* The properties both arms share. *)

\* phase_5.rs, verify: a pass means that every byte Phase 4 reported was read
\* back and found equal, over an image that still has them all, and that no
\* failure was swallowed on the way.
PassIsFullCompare ==
  result = "ok" =>
    /\ offset = written /\ remaining = 0
    /\ imageLen >= written
    /\ \A i \in 0 .. written - 1 : disk[i] = i
    /\ faults = {}

\* The phase fails only for a reason outside it; the two derivations of the
\* chunk sequence never diverge into a pipeline protocol violation.
FailureHasCause ==
  /\ result = "cancelled" => cancel
  /\ result = "io" => faults \cap {"device", "reader"} # {} \/ imageLen < written
  /\ result = "panic" => faults \cap {"panic", "spawn"} # {}
  /\ result = "rate" => throttle = "zero"
  /\ result # "protocol"

\* Once the flag is set at most one more chunk is read from the device.
CancelStopsReading == late <= 1

\* What Phase 5b promises, seen through the device and the verdict.
Promise == INSTANCE ImageCompare WITH
             compared <- offset,
             verdict <- IF result \in {"running", "ok", "mismatch"} THEN result
                        ELSE "failed",
             diffAt <- IF result = "mismatch" THEN diffAt ELSE 0
CompareSpec == Promise!Spec
=============================================================================
