---------------------------- MODULE ChunkWriter ----------------------------
(***************************************************************************)
(* The device side of Phase 4, shared by the serial and the pipelined arm  *)
(* (phases/phase_4.rs): process_chunk, the two writes, flash_finalize, and *)
(* the O_DIRECT flag of the claimed descriptor.  Sizes are in sectors, the *)
(* unit O_DIRECT aligns to; the image is the sequence 0, 1, 2, ... so that *)
(* a sector that holds anything but its own number is out of place.        *)
(***************************************************************************)
EXTENDS Naturals

CONSTANTS
  BUF_SIZE,  \* sectors of one AlignedBuf
  DevSize,   \* sectors of the target device (BLKGETSIZE64)
  MaxImage,  \* bound on the length of the image stream
  Old        \* what a sector holds before the image reaches it

ASSUME SizesAssumption ==
  /\ BUF_SIZE \in Nat \ {0}
  /\ DevSize \in Nat
  /\ MaxImage \in Nat
  /\ Old \notin Nat

VARIABLES
  \* fixed for the run
  imageLen,  \* sectors the image stream yields before end of file
  throttle,  \* "off", "rate", or the "zero" rate chunk_target_nanos refuses
  \* the run's environment
  cancel,    \* the caller's cancel flag: set at any time, never cleared
  faults,    \* history: the failures the environment injected so far
  \* the device and its descriptor
  disk,      \* content of each sector
  direct,    \* O_DIRECT is set on the descriptor
  dirty,     \* written since the last fdatasync
  \* the thread that owns the descriptor
  pc, offset, total,
  outcome,   \* how the write loop ended so far: "ok" or an error
  result,    \* "running", then what flash returns ("panic": it unwinds)
  late       \* history: writes that reached the device after cancel was set

deviceVars == <<disk, direct, dirty>>
fixedVars == <<imageLen, throttle>>

Sectors == 0 .. DevSize - 1
Throttles == {"off", "rate", "zero"}
FaultKinds == {"device", "reader", "panic", "spawn"}
Outcomes == {"ok", "cancelled", "capacity", "io", "rate", "protocol"}

WriterTypeOK ==
  /\ imageLen \in 0 .. MaxImage
  /\ throttle \in Throttles
  /\ cancel \in BOOLEAN
  /\ faults \in SUBSET FaultKinds
  /\ disk \in [Sectors -> Nat \cup {Old}]
  /\ direct \in BOOLEAN
  /\ dirty \in BOOLEAN
  /\ offset \in Nat
  /\ total \in Nat
  /\ outcome \in Outcomes
  /\ result \in Outcomes \cup {"running", "panic"}
  /\ late \in Nat

WriterInit ==
  /\ imageLen \in 0 .. MaxImage
  /\ throttle \in Throttles
  /\ cancel = FALSE
  /\ faults = {}
  /\ disk = [i \in Sectors |-> Old]
  /\ direct = FALSE
  /\ dirty = FALSE
  /\ pc = "setup"
  /\ offset = 0
  /\ total = 0
  /\ outcome = "ok"
  /\ result = "running"
  /\ late = 0

-----------------------------------------------------------------------------
(* One filled buffer, [from |-> its place in the image, n |-> its length]. *)

\* What one fill_buffer yields at position p: a full buffer, or what is left.
FillAt(p) == IF imageLen - p < BUF_SIZE THEN imageLen - p ELSE BUF_SIZE

\* Mutant of ChunkEndWithin: off by one.
ChunkEndPastByOne(n) == offset + n <= DevSize + 1

ChunkEndWithin(n) == offset + n <= DevSize

\* The device after the first k sectors of chunk c were written at offset.
Stored(c, k) ==
  [i \in Sectors |->
     IF i \in offset .. offset + k - 1 THEN c.from + (i - offset) ELSE disk[i]]

\* The kernel refuses an unaligned transfer on an O_DIRECT descriptor.
Accepts(flag, n) == flag => (n = BUF_SIZE /\ offset % BUF_SIZE = 0)

\* write_all_at on a descriptor whose O_DIRECT flag is now `flag`.
Pwrite(c, flag) ==
  /\ direct' = flag
  /\ IF Accepts(flag, c.n)
     THEN /\ disk' = Stored(c, c.n)
          /\ dirty' = TRUE
          /\ total' = offset + c.n
          /\ late' = IF cancel THEN late + 1 ELSE late
          /\ UNCHANGED outcome
     ELSE /\ outcome' = "io"
          /\ UNCHANGED <<disk, dirty, total, late>>

\* process_chunk, no data: Done { end: offset }.
EmptyChunk(c) ==
  /\ c.n = 0
  /\ total' = offset
  /\ UNCHANGED <<disk, direct, dirty, offset, outcome, faults, late>>

\* Mutant of FullChunk: Continue does not move the offset.
FullChunkInPlace(c) ==
  /\ c.n = BUF_SIZE
  /\ ChunkEndWithin(c.n)
  /\ Pwrite(c, direct)
  /\ UNCHANGED <<offset, faults>>

\* process_chunk, a full buffer under O_DIRECT: Continue { end }.
FullChunk(c) ==
  /\ c.n = BUF_SIZE
  /\ ChunkEndWithin(c.n)
  /\ Pwrite(c, direct)
  /\ offset' = IF outcome' = "ok" THEN offset + c.n ELSE offset
  /\ UNCHANGED faults

\* process_chunk, the tail, through the page cache: Done { end }.
TailChunk(c) ==
  /\ 0 < c.n
  /\ c.n < BUF_SIZE
  /\ ChunkEndWithin(c.n)
  /\ Pwrite(c, FALSE)
  /\ UNCHANGED <<offset, faults>>

\* process_chunk, the image is larger than the device: nothing is written.
OverCapacity(c) ==
  /\ c.n > 0
  /\ ~ChunkEndWithin(c.n)
  /\ outcome' = "capacity"
  /\ UNCHANGED <<disk, direct, dirty, offset, total, faults, late>>

\* A failed write may have stored any part of the chunk.
WriteFault(c) ==
  /\ c.n > 0
  /\ ChunkEndWithin(c.n)
  /\ \E k \in 0 .. c.n : disk' = Stored(c, k)
  /\ dirty' = TRUE
  /\ direct' = (direct /\ c.n = BUF_SIZE)
  /\ outcome' = "io"
  /\ faults' = faults \cup {"device"}
  /\ UNCHANGED <<offset, total, late>>

\* Clearing O_DIRECT before the tail fails.
TailFlagFault(c) ==
  /\ 0 < c.n
  /\ c.n < BUF_SIZE
  /\ ChunkEndWithin(c.n)
  /\ outcome' = "io"
  /\ faults' = faults \cup {"device"}
  /\ UNCHANGED <<disk, direct, dirty, offset, total, late>>

\* process_chunk ending the loop: the image's end, or an error.
LastChunk(c) == EmptyChunk(c) \/ TailChunk(c)
ChunkError(c) == OverCapacity(c) \/ WriteFault(c) \/ TailFlagFault(c)

-----------------------------------------------------------------------------
(* flash_finalize, after a write loop that ended well. *)

Finish(r) == pc' = "done" /\ result' = r

ClearDirect ==
  /\ pc = "clear_direct"
  /\ direct' = FALSE
  /\ pc' = "sync"
  /\ UNCHANGED <<disk, dirty, offset, total, outcome, result, faults, late>>

Fdatasync ==
  /\ pc = "sync"
  /\ dirty' = FALSE
  /\ Finish("ok")
  /\ UNCHANGED <<disk, direct, offset, total, outcome, faults, late>>

FinalizeFault ==
  /\ pc \in {"clear_direct", "sync"}
  /\ Finish("io")
  /\ faults' = faults \cup {"device"}
  /\ UNCHANGED <<deviceVars, offset, total, outcome, late>>

Finalize == ClearDirect \/ Fdatasync \/ FinalizeFault

-----------------------------------------------------------------------------
(* The properties both arms share. *)

\* phase_4.rs, run's "# Errors" and flash_finalize's "durable commit before
\* Phase 5 reads the device back": Ok means the whole image is on the medium,
\* in place, nothing past its end was touched, no failure was swallowed on the
\* way, and the descriptor is back to buffered I/O for the next phase.
SuccessIsDurableImage ==
  result = "ok" =>
    /\ total = imageLen
    /\ imageLen <= DevSize
    /\ \A i \in Sectors : disk[i] = IF i < imageLen THEN i ELSE Old
    /\ ~dirty
    /\ ~direct
    /\ faults = {}

\* The phase fails only for a reason outside it: it never invents an alignment
\* error of its own, never refuses an image that fits, and never runs into the
\* branch that reports a pipeline protocol violation.
FailureHasCause ==
  /\ result = "cancelled" => cancel
  /\ result = "capacity" => imageLen > DevSize
  /\ result = "io" => faults \cap {"device", "reader"} # {}
  /\ result = "panic" => faults \cap {"panic", "spawn"} # {}
  /\ result = "rate" => throttle = "zero"
  /\ result # "protocol"

\* The polls of the cancel flag stand where they stop the loop before a second
\* chunk: once the flag is set at most one more chunk reaches the device.
CancelStopsWriting == late <= 1

\* What Phase 4 promises, seen through the device and the verdict.
Copy == INSTANCE ImageCopy WITH
          verdict <- IF result \in {"running", "ok"} THEN result ELSE "failed"
CopySpec == Copy!Spec
=============================================================================
