------------------------- MODULE FlashSerialProofs -------------------------
(***************************************************************************)
(* Proofs about the serial arm of Phase 4, for every buffer, device and    *)
(* image size: it keeps the promises of ChunkWriter and implements         *)
(* ImageCopy.                                                              *)
(***************************************************************************)
EXTENDS FlashSerial, TLAPS

-----------------------------------------------------------------------------
(* The device side, which both arms share: what one chunk does to a device  *)
(* that holds a prefix of the image.                                        *)

\* The first k sectors hold the image, the others what they held before.
CopiedTo(k) == [i \in Sectors |-> IF i < k THEN i ELSE Old]

\* The device holds the image up to offset, and c is what a fill at offset yields.
Ready(c) ==
  /\ outcome = "ok"
  /\ offset \in Nat /\ imageLen \in Nat
  /\ offset = total /\ total <= imageLen /\ total <= DevSize
  /\ offset % BUF_SIZE = 0
  /\ disk = CopiedTo(offset)
  /\ late = 0
  /\ c.from = offset /\ c.n = FillAt(offset)

-----------------------------------------------------------------------------
(* Arithmetic of the chunks. *)

\* Euclid's division, as far as the next lemma needs it.
LEMMA Division ==
  ASSUME NEW a \in Nat, NEW b \in Nat \ {0}
  PROVE  a = b * (a \div b) + (a % b) /\ (a \div b) \in Nat
  BY Z3

\* A multiple of b leaves no remainder.
LEMMA MultipleAligned ==
  ASSUME NEW q \in Nat, NEW b \in Nat \ {0}
  PROVE  (q * b) % b = 0
  OBVIOUS

\* Writing a full buffer at an aligned offset leaves the offset aligned.
LEMMA NextOffsetAligned ==
  ASSUME NEW a \in Nat, NEW b \in Nat \ {0}, a % b = 0
  PROVE  (a + b) % b = 0
<1> DEFINE q == a \div b
<1>1. a = b * q /\ q \in Nat
  BY Division
<1> HIDE DEF q
<1>2. a + b = (q + 1) * b /\ q + 1 \in Nat
  BY <1>1
<1> QED
  BY <1>2, MultipleAligned

\* A fill is at most a buffer, never passes the end of the stream, and is short
\* only when it reaches that end.
LEMMA FillBounds ==
  ASSUME NEW p \in Nat, imageLen \in Nat, p <= imageLen
  PROVE  /\ FillAt(p) \in 0 .. BUF_SIZE
         /\ p + FillAt(p) \in Nat
         /\ p + FillAt(p) <= imageLen
         /\ FillAt(p) # BUF_SIZE => p + FillAt(p) = imageLen
  BY SizesAssumption DEF SizesAssumption, FillAt

\* Writing k sectors of the chunk that starts at offset extends the prefix.
LEMMA StoredExtends ==
  ASSUME NEW c, NEW k \in Nat, offset \in Nat, c.from = offset,
         disk = CopiedTo(offset)
  PROVE  Stored(c, k) = CopiedTo(offset + k)
<1>1. ASSUME NEW i \in Sectors
      PROVE  (IF i \in offset .. offset + k - 1 THEN c.from + (i - offset) ELSE disk[i])
             = (IF i < offset + k THEN i ELSE Old)
  <2>1. i \in Nat
    BY SizesAssumption DEF SizesAssumption, Sectors
  <2>2. CASE i < offset
    BY <2>1, <2>2 DEF CopiedTo
  <2>3. CASE offset <= i /\ i < offset + k
    BY <2>1, <2>3
  <2>4. CASE offset + k <= i
    <3>1. i \notin offset .. offset + k - 1 /\ ~(i < offset + k) /\ ~(i < offset)
      BY <2>1, <2>4
    <3>2. disk[i] = Old
      BY <3>1 DEF CopiedTo
    <3> QED
      BY <3>1, <3>2, Zenon
  <2>5. i < offset \/ (offset <= i /\ i < offset + k) \/ offset + k <= i
    BY <2>1
  <2> QED
    BY <2>2, <2>3, <2>4, <2>5
<1> QED
  BY <1>1 DEF Stored, CopiedTo

-----------------------------------------------------------------------------
(* What processing one chunk does to the device. *)

\* A full chunk is accepted whole, and moves the prefix and the offset on.
LEMMA WholeChunk ==
  ASSUME NEW c, Ready(c), FullChunk(c)
  PROVE  /\ outcome' = "ok"
         /\ total' = offset + BUF_SIZE
         /\ offset' = offset + BUF_SIZE
         /\ offset' % BUF_SIZE = 0
         /\ total' <= imageLen /\ total' <= DevSize
         /\ disk' = CopiedTo(total')
         /\ late' \in {0, 1} /\ (late' = 1 => cancel)
<1>1. /\ outcome = "ok" /\ offset % BUF_SIZE = 0
      /\ disk = CopiedTo(offset) /\ offset \in Nat /\ imageLen \in Nat
      /\ offset <= imageLen /\ late = 0 /\ c.from = offset /\ c.n = FillAt(offset)
  BY DEF Ready
<1>2. c.n = BUF_SIZE /\ BUF_SIZE \in Nat \ {0} /\ offset + BUF_SIZE <= DevSize
  BY SizesAssumption DEF SizesAssumption, FullChunk, ChunkEndWithin
<1>3. Accepts(direct, c.n)
  BY <1>1, <1>2 DEF Accepts
<1>4. /\ disk' = Stored(c, c.n) /\ total' = offset + c.n
      /\ outcome' = outcome /\ offset' = offset + c.n
      /\ late' = IF cancel THEN late + 1 ELSE late
  BY <1>1, <1>3 DEF FullChunk, Pwrite
<1>5. disk' = CopiedTo(offset + BUF_SIZE)
  BY <1>1, <1>2, <1>4, StoredExtends
<1>6. offset + BUF_SIZE <= imageLen
  BY <1>1, <1>2, FillBounds
<1>7. (offset + BUF_SIZE) % BUF_SIZE = 0
  BY <1>1, <1>2, NextOffsetAligned
<1> QED
  BY <1>1, <1>2, <1>4, <1>5, <1>6, <1>7

\* The last chunk, a tail or nothing, completes the image on the device.
LEMMA FinalChunk ==
  ASSUME NEW c, Ready(c), LastChunk(c)
  PROVE  /\ outcome' = "ok"
         /\ total' = imageLen
         /\ total' <= DevSize
         /\ disk' = CopiedTo(total')
         /\ offset' = offset
         /\ faults' = faults
         /\ late' \in {0, 1} /\ (late' = 1 => cancel)
<1>1. /\ outcome = "ok" /\ offset = total /\ total <= DevSize
      /\ disk = CopiedTo(offset) /\ offset \in Nat /\ imageLen \in Nat
      /\ offset <= imageLen /\ late = 0 /\ c.from = offset /\ c.n = FillAt(offset)
  BY DEF Ready
<1>2. BUF_SIZE \in Nat \ {0}
  BY SizesAssumption DEF SizesAssumption
<1>3. c.n \in Nat /\ c.n # BUF_SIZE
  <2>1. c.n \in 0 .. BUF_SIZE
    BY <1>1, FillBounds
  <2>2. CASE EmptyChunk(c)
    BY <1>2, <2>2 DEF EmptyChunk
  <2>3. CASE TailChunk(c)
    BY <1>2, <2>1, <2>3 DEF TailChunk
  <2> QED
    BY <2>2, <2>3 DEF LastChunk
<1>4. offset + c.n = imageLen
  BY <1>1, <1>2, <1>3, FillBounds
<1>5. CASE EmptyChunk(c)
  BY <1>1, <1>3, <1>4, <1>5 DEF EmptyChunk
<1>6. CASE TailChunk(c)
  <2>1. /\ disk' = Stored(c, c.n) /\ total' = offset + c.n
        /\ outcome' = outcome /\ offset' = offset /\ faults' = faults
        /\ late' = IF cancel THEN late + 1 ELSE late
        /\ offset + c.n <= DevSize
    BY <1>6 DEF TailChunk, Pwrite, Accepts, ChunkEndWithin
  <2>2. disk' = CopiedTo(offset + c.n)
    BY <1>1, <1>3, <2>1, StoredExtends
  <2> QED
    BY <1>1, <1>4, <2>1, <2>2
<1> QED
  BY <1>5, <1>6 DEF LastChunk

\* An error leaves a prefix too: all of it before the chunk, part of the chunk
\* perhaps, and never anything past the image.
LEMMA FailedChunk ==
  ASSUME NEW c, Ready(c), ChunkError(c)
  PROVE  /\ \/ outcome' = "io" /\ "device" \in faults'
            \/ outcome' = "capacity" /\ imageLen > DevSize
         /\ faults \subseteq faults' /\ faults' \subseteq faults \cup {"device"}
         /\ \E k \in 0 .. DevSize : /\ offset <= k /\ k <= imageLen
                                   /\ disk' = CopiedTo(k)
         /\ offset' = offset /\ total' = total /\ late' = late
<1>1. /\ offset = total /\ total <= DevSize
      /\ disk = CopiedTo(offset) /\ offset \in Nat /\ imageLen \in Nat
      /\ offset <= imageLen /\ c.from = offset /\ c.n = FillAt(offset)
  BY DEF Ready
<1>2. offset + c.n <= imageLen /\ c.n \in Nat
  BY <1>1, FillBounds, SizesAssumption DEF SizesAssumption
<1>3. offset \in 0 .. DevSize /\ DevSize \in Nat
  BY <1>1, SizesAssumption DEF SizesAssumption
<1>4. CASE OverCapacity(c)
  <2>1. imageLen > DevSize
    BY <1>1, <1>2, <1>3, <1>4 DEF OverCapacity, ChunkEndWithin
  <2> QED
    BY <1>1, <1>3, <1>4, <2>1 DEF OverCapacity
<1>5. CASE WriteFault(c)
  <2>1. PICK k \in 0 .. c.n : disk' = Stored(c, k)
    BY <1>5 DEF WriteFault
  <2>2. /\ k \in Nat /\ offset <= offset + k
        /\ offset + k <= imageLen /\ offset + k \in 0 .. DevSize
    BY <1>1, <1>2, <1>3, <1>5 DEF WriteFault, ChunkEndWithin
  <2>3. disk' = CopiedTo(offset + k)
    BY <1>1, <2>1, <2>2, StoredExtends
  <2> QED
    BY <1>5, <2>2, <2>3 DEF WriteFault
<1>6. CASE TailFlagFault(c)
  BY <1>1, <1>3, <1>6 DEF TailFlagFault
<1> QED
  BY <1>4, <1>5, <1>6 DEF ChunkError

-----------------------------------------------------------------------------
(* The serial loop. *)

InLoop == {"setup", "check", "fill", "chunk", "throttle"}

\* Where the loop is, and what that says of the counters and the buffer.
Stages ==
  /\ result = "running" <=> pc # "done"
  /\ pc # "done" => outcome = "ok" /\ faults = {}
  /\ pc \in InLoop => offset = total
  /\ pc \in InLoop \ {"chunk"} => pos = offset
  /\ pc = "chunk" => /\ hand.from = offset /\ hand.n = FillAt(offset)
                     /\ pos = offset + hand.n
  /\ pc \in {"clear_direct", "sync"} => total = imageLen
  /\ pc = "sync" => ~direct

\* The device holds a prefix of the image, up to `total` while all went well.
DiskIsPrefix ==
  /\ \E k \in 0 .. DevSize : k <= imageLen /\ disk = CopiedTo(k)
  /\ outcome = "ok" => total <= imageLen /\ total <= DevSize /\ disk = CopiedTo(total)
  /\ offset % BUF_SIZE = 0

CancelBound ==
  /\ late <= 1
  /\ late > 0 => cancel
  /\ pc \in {"fill", "chunk"} => late = 0

IInv ==
  /\ TypeOK
  /\ Stages
  /\ DiskIsPrefix
  /\ CancelBound
  /\ SuccessIsDurableImage
  /\ FailureHasCause

-----------------------------------------------------------------------------
(* What one chunk does. *)

\* The types the steps below compute with.
LEMMA Numbers ==
  ASSUME IInv
  PROVE  /\ imageLen \in Nat /\ offset \in Nat /\ total \in Nat /\ late \in Nat
         /\ pos \in Nat
  BY SizesAssumption DEF SizesAssumption, IInv, TypeOK, WriterTypeOK

\* The buffer that was filled is the one that belongs at offset.
LEMMA HandReady ==
  ASSUME IInv, pc = "chunk"
  PROVE  Ready(hand)
  BY Numbers DEF IInv, Stages, InLoop, DiskIsPrefix, CancelBound, Ready

\* A full buffer is written whole and the loop goes on.
LEMMA ContinueEffect ==
  ASSUME IInv, ProcessContinue
  PROVE  /\ outcome' = "ok" /\ pc' = "throttle" /\ UNCHANGED <<result, faults>>
         /\ total' = offset + BUF_SIZE /\ offset' = total' /\ pos = offset'
         /\ offset' % BUF_SIZE = 0 /\ total' \in Nat
         /\ total' <= imageLen /\ total' <= DevSize
         /\ disk' = CopiedTo(total')
         /\ late' \in {0, 1} /\ (late' = 1 => cancel)
<1>1. /\ outcome' = "ok" /\ total' = offset + BUF_SIZE /\ offset' = offset + BUF_SIZE
      /\ offset' % BUF_SIZE = 0 /\ total' <= imageLen /\ total' <= DevSize
      /\ disk' = CopiedTo(total') /\ late' \in {0, 1} /\ (late' = 1 => cancel)
  BY HandReady, WholeChunk DEF ProcessContinue
<1>2. hand.n = BUF_SIZE /\ pos = offset + hand.n /\ faults' = faults
  BY DEF ProcessContinue, FullChunk, IInv, Stages
<1>3. total' \in Nat
  BY <1>1, Numbers, SizesAssumption DEF SizesAssumption
<1> QED
  BY <1>1, <1>2, <1>3 DEF ProcessContinue

\* The end of the image is on the device, or the loop ends in an error that has a
\* cause and leaves a prefix.
LEMMA EndEffect ==
  ASSUME IInv, ProcessEnd
  PROVE  /\ offset' = offset /\ total' \in Nat
         /\ late' \in {0, 1} /\ (late' = 1 => cancel)
         /\ \/ /\ outcome' = "ok" /\ pc' = "clear_direct" /\ UNCHANGED <<result, faults>>
               /\ total' = imageLen /\ imageLen <= DevSize /\ disk' = CopiedTo(imageLen)
            \/ /\ pc' = "done" /\ result' = outcome' /\ total' = total
               /\ \/ outcome' = "io" /\ "device" \in faults'
                  \/ outcome' = "capacity" /\ imageLen > DevSize
               /\ faults' \subseteq faults \cup {"device"}
               /\ \E k \in 0 .. DevSize : /\ offset <= k /\ k <= imageLen
                                         /\ disk' = CopiedTo(k)
<1>1. Ready(hand) /\ late = 0
  BY HandReady DEF ProcessEnd, Ready
<1>2. CASE LastChunk(hand)
  BY <1>1, <1>2, FinalChunk, Numbers DEF ProcessEnd
<1>3. CASE ChunkError(hand)
  <2>1. outcome' \in {"io", "capacity"}
    BY <1>1, <1>3, FailedChunk
  <2> QED
    BY <1>1, <1>3, <2>1, FailedChunk, Numbers DEF ProcessEnd, Finish
<1> QED
  BY <1>2, <1>3 DEF ProcessEnd

\* A prefix of the image is a content of the device.
LEMMA PrefixType == \A k : CopiedTo(k) \in [Sectors -> Nat \cup {Old}]
  BY SizesAssumption DEF SizesAssumption, CopiedTo, Sectors

-----------------------------------------------------------------------------
(* The invariant. *)

LEMMA InitInv == Init => IInv
<1> SUFFICES ASSUME Init PROVE IInv
  OBVIOUS
<1>1. /\ pc = "setup" /\ result = "running" /\ outcome = "ok" /\ faults = {} /\ late = 0
      /\ offset = 0 /\ total = 0 /\ pos = 0 /\ hand = [from |-> 0, n |-> 0]
      /\ disk = [i \in Sectors |-> Old] /\ imageLen \in 0 .. MaxImage
      /\ throttle \in Throttles
  BY DEF Init, WriterInit
<1>2. DevSize \in Nat /\ BUF_SIZE \in Nat \ {0} /\ imageLen \in Nat
  BY <1>1, SizesAssumption DEF SizesAssumption
<1>3. disk = CopiedTo(0)
  BY <1>1, <1>2 DEF CopiedTo, Sectors
<1>4. TypeOK
  <2>1. cancel \in BOOLEAN /\ direct \in BOOLEAN /\ dirty \in BOOLEAN
    BY Zenon DEF Init, WriterInit
  <2>2. hand \in [from : Nat, n : 0 .. BUF_SIZE]
    BY <1>1, <1>2
  <2>3. disk \in [Sectors -> Nat \cup {Old}]
    BY <1>3, PrefixType
  <2>4. faults \in SUBSET FaultKinds
    BY <1>1
  <2> QED
    BY <1>1, <2>1, <2>2, <2>3, <2>4 DEF TypeOK, WriterTypeOK, States, Outcomes
<1>5. DiskIsPrefix
  <2>1. 0 \in 0 .. DevSize /\ 0 <= imageLen /\ 0 % BUF_SIZE = 0
    BY <1>2
  <2> QED
    BY <1>1, <1>2, <1>3, <2>1 DEF DiskIsPrefix
<1>6. Stages /\ CancelBound /\ SuccessIsDurableImage /\ FailureHasCause
  BY <1>1 DEF Stages, InLoop, CancelBound, SuccessIsDurableImage, FailureHasCause
<1> QED
  BY <1>4, <1>5, <1>6 DEF IInv

LEMMA TypeStep ==
  ASSUME IInv, [Next]_vars
  PROVE  TypeOK'
<1>1. /\ imageLen \in 0 .. MaxImage /\ throttle \in Throttles
      /\ cancel \in BOOLEAN /\ direct \in BOOLEAN /\ dirty \in BOOLEAN
      /\ faults \in SUBSET FaultKinds /\ disk \in [Sectors -> Nat \cup {Old}]
      /\ offset \in Nat /\ total \in Nat /\ outcome \in Outcomes
      /\ result \in Outcomes \cup {"running", "panic"} /\ late \in Nat
      /\ pc \in States /\ hand \in [from : Nat, n : 0 .. BUF_SIZE] /\ pos \in Nat
  BY DEF IInv, TypeOK, WriterTypeOK
<1>2. imageLen' \in 0 .. MaxImage /\ throttle' \in Throttles
  BY <1>1 DEF Next, Main, Setup, SetupFault, CheckCancel, Fill, FillError,
              ProcessContinue, ProcessEnd, Throttle, RequestCancel, Terminated, vars,
              fixedVars
<1>3. cancel' \in BOOLEAN
  BY <1>1, Zenon DEF Next, Main, Setup, SetupFault, CheckCancel, Fill, FillError,
                     ProcessContinue, ProcessEnd, Throttle, RequestCancel, Terminated, vars
<1>4. direct' \in BOOLEAN
  <2>1. CASE ProcessContinue
    BY <1>1, <2>1, Zenon DEF ProcessContinue, FullChunk, Pwrite
  <2>2. CASE ProcessEnd
    BY <1>1, <2>2, Zenon
       DEF ProcessEnd, LastChunk, ChunkError, EmptyChunk, TailChunk, Pwrite,
           OverCapacity, WriteFault, TailFlagFault
  <2>3. ASSUME ~ProcessContinue, ~ProcessEnd PROVE direct' \in BOOLEAN
    BY <1>1, <2>3, Zenon
       DEF Next, Main, Setup, SetupFault, CheckCancel, Fill, FillError, Throttle,
           Finalize, ClearDirect, Fdatasync, FinalizeFault, RequestCancel, Terminated,
           vars, deviceVars
  <2> QED
    BY <2>1, <2>2, <2>3
<1>5. dirty' \in BOOLEAN
  <2>1. CASE ProcessContinue
    BY <1>1, <2>1, Zenon DEF ProcessContinue, FullChunk, Pwrite
  <2>2. CASE ProcessEnd
    BY <1>1, <2>2, Zenon
       DEF ProcessEnd, LastChunk, ChunkError, EmptyChunk, TailChunk, Pwrite,
           OverCapacity, WriteFault, TailFlagFault
  <2>3. ASSUME ~ProcessContinue, ~ProcessEnd PROVE dirty' \in BOOLEAN
    BY <1>1, <2>3, Zenon
       DEF Next, Main, Setup, SetupFault, CheckCancel, Fill, FillError, Throttle,
           Finalize, ClearDirect, Fdatasync, FinalizeFault, RequestCancel, Terminated,
           vars, deviceVars
  <2> QED
    BY <2>1, <2>2, <2>3
<1>6. /\ hand' \in [from : Nat, n : 0 .. BUF_SIZE] /\ pos' \in Nat
  <2>1. CASE Fill
    <3>1. pos <= imageLen
      BY <2>1 DEF Fill, IInv, Stages, InLoop, DiskIsPrefix
    <3> QED
      BY <1>1, <2>1, <3>1, FillBounds, Numbers DEF Fill
  <2>2. ASSUME ~Fill PROVE UNCHANGED <<hand, pos>>
    BY <2>2 DEF Next, Main, Setup, SetupFault, CheckCancel, FillError, ProcessContinue,
                ProcessEnd, Throttle, RequestCancel, Terminated, vars
  <2> QED
    BY <1>1, <2>1, <2>2
<1>7. /\ faults' \in SUBSET FaultKinds /\ disk' \in [Sectors -> Nat \cup {Old}]
      /\ offset' \in Nat /\ total' \in Nat /\ outcome' \in Outcomes
      /\ result' \in Outcomes \cup {"running", "panic"} /\ late' \in Nat
      /\ pc' \in States
  <2>1. CASE ProcessContinue
    BY <1>1, <2>1, ContinueEffect, PrefixType DEF Outcomes, States
  <2>2. CASE ProcessEnd
    <3>1. /\ offset' = offset /\ total' \in Nat /\ late' \in {0, 1}
          /\ pc' \in {"clear_direct", "done"} /\ outcome' \in {"ok", "io", "capacity"}
          /\ result' \in {result, outcome'}
      BY <2>2, EndEffect
    <3>2. faults' \subseteq faults \cup {"device"}
      BY <2>2, EndEffect
    <3>3. faults' \in SUBSET FaultKinds
      BY <1>1, <3>2 DEF FaultKinds
    <3>4. \E k : disk' = CopiedTo(k)
      BY <2>2, EndEffect
    <3>5. disk' \in [Sectors -> Nat \cup {Old}]
      BY <3>4, PrefixType
    <3> QED
      BY <1>1, <3>1, <3>3, <3>5 DEF Outcomes, States
  <2>3. CASE Finalize
    BY <1>1, <2>3 DEF Finalize, ClearDirect, Fdatasync, FinalizeFault, Finish,
                      deviceVars, Outcomes, States, FaultKinds
  <2>4. CASE Setup \/ SetupFault \/ CheckCancel \/ Fill \/ FillError \/ Throttle
    BY <1>1, <2>4 DEF Setup, SetupFault, CheckCancel, Fill, FillError, Throttle, Finish,
                      deviceVars, Outcomes, States, FaultKinds
  <2>5. CASE RequestCancel \/ Terminated \/ UNCHANGED vars
    BY <1>1, <2>5 DEF RequestCancel, Terminated, vars, deviceVars, mainVars
  <2> QED
    BY <2>1, <2>2, <2>3, <2>4, <2>5 DEF Next, Main
<1> QED
  BY <1>2, <1>3, <1>4, <1>5, <1>6, <1>7 DEF TypeOK, WriterTypeOK

LEMMA StagesStep ==
  ASSUME IInv, [Next]_vars
  PROVE  Stages'
<1> USE DEF Stages, InLoop, Finish
<1>1. Stages
  BY DEF IInv
<1>2. CASE Setup \/ SetupFault \/ CheckCancel \/ FillError \/ Throttle
  BY <1>1, <1>2 DEF Setup, SetupFault, CheckCancel, FillError, Throttle, deviceVars
<1>3. CASE Fill
  BY <1>1, <1>3 DEF Fill, FillAt, fixedVars
<1>4. CASE ProcessContinue
  <2>1. UNCHANGED <<hand, pos>> /\ result = "running"
    BY <1>1, <1>4 DEF ProcessContinue
  <2> QED
    BY <1>1, <1>4, <2>1, ContinueEffect DEF ProcessContinue
<1>5. CASE ProcessEnd
  <2>1. UNCHANGED <<hand, pos, imageLen>> /\ result = "running" /\ outcome' # "running"
    BY <1>1, <1>5, EndEffect DEF ProcessEnd, fixedVars
  <2> QED
    BY <1>1, <1>5, <2>1, EndEffect DEF ProcessEnd
<1>6. CASE Finalize /\ UNCHANGED <<fixedVars, cancel, hand, pos>>
  BY <1>1, <1>6 DEF Finalize, ClearDirect, Fdatasync, FinalizeFault, deviceVars, fixedVars
<1>7. CASE RequestCancel \/ Terminated \/ UNCHANGED vars
  BY <1>1, <1>7 DEF RequestCancel, Terminated, vars, deviceVars, mainVars, FillAt, fixedVars
<1> QED
  BY <1>2, <1>3, <1>4, <1>5, <1>6, <1>7 DEF Next, Main

\* Only a chunk moves what the device holds and how far the loop got.
LEMMA DeviceFrame ==
  ASSUME [Next]_vars, ~ProcessContinue, ~ProcessEnd
  PROVE  UNCHANGED <<imageLen, disk, offset, total, outcome, late>>
  BY DEF Next, Main, Setup, SetupFault, CheckCancel, Fill, FillError, Throttle, Finalize,
         ClearDirect, Fdatasync, FinalizeFault, RequestCancel, Terminated, vars,
         deviceVars, mainVars, fixedVars

LEMMA DiskStep ==
  ASSUME IInv, [Next]_vars
  PROVE  DiskIsPrefix'
<1>1. DiskIsPrefix /\ DevSize \in Nat
  BY SizesAssumption DEF IInv, SizesAssumption
<1>2. CASE ProcessContinue
  <2>1. total' \in 0 .. DevSize /\ total' <= imageLen' /\ imageLen' = imageLen
    BY <1>1, <1>2, ContinueEffect DEF ProcessContinue, fixedVars
  <2> QED
    BY <1>2, <2>1, ContinueEffect DEF DiskIsPrefix, CopiedTo
<1>3. CASE ProcessEnd
  <2>1. imageLen' = imageLen /\ imageLen \in Nat
    BY <1>3, Numbers DEF ProcessEnd, fixedVars
  <2>2. CASE outcome' = "ok"
    <3>1. total' = imageLen /\ imageLen \in 0 .. DevSize /\ disk' = CopiedTo(imageLen)
      BY <1>1, <1>3, <2>1, <2>2, EndEffect
    <3> QED
      BY <1>1, <1>3, <2>1, <3>1, EndEffect DEF DiskIsPrefix, CopiedTo
  <2>3. CASE outcome' # "ok"
    BY <1>1, <1>3, <2>1, <2>3, EndEffect DEF DiskIsPrefix, CopiedTo
  <2> QED
    BY <2>2, <2>3
<1>4. ASSUME ~ProcessContinue, ~ProcessEnd PROVE DiskIsPrefix'
  BY <1>1, <1>4, DeviceFrame DEF DiskIsPrefix, CopiedTo
<1> QED
  BY <1>2, <1>3, <1>4

LEMMA CancelStep ==
  ASSUME IInv, [Next]_vars
  PROVE  CancelBound'
<1> USE DEF CancelBound
<1>1. CancelBound
  BY DEF IInv
<1>2. CASE ProcessContinue
  BY <1>1, <1>2, ContinueEffect DEF ProcessContinue
<1>3. CASE ProcessEnd
  BY <1>1, <1>3, EndEffect DEF ProcessEnd
<1>4. ASSUME ~ProcessContinue, ~ProcessEnd PROVE CancelBound'
  <2>1. late' = late
    BY <1>4, DeviceFrame
  <2>2. cancel => cancel'
    BY <1>4 DEF Next, Main, Setup, SetupFault, CheckCancel, Fill, FillError, Throttle,
                RequestCancel, Terminated, vars
  <2>3. pc' \in {"fill", "chunk"} => late = 0
    BY <1>1, <1>4, Numbers
       DEF Next, Main, Setup, SetupFault, CheckCancel, Fill, FillError, Throttle,
           Finalize, ClearDirect, Fdatasync, FinalizeFault, RequestCancel, Terminated,
           vars, mainVars, Finish
  <2> QED
    BY <1>1, <2>1, <2>2, <2>3
<1> QED
  BY <1>2, <1>3, <1>4

LEMMA PromisesStep ==
  ASSUME IInv, [Next]_vars
  PROVE  SuccessIsDurableImage' /\ FailureHasCause'
<1> USE DEF Finish
<1>1. SuccessIsDurableImage /\ FailureHasCause /\ Stages /\ DiskIsPrefix
  BY DEF IInv
<1>2. CASE result' = "running"
  BY <1>2 DEF SuccessIsDurableImage, FailureHasCause
<1>3. CASE Setup \/ SetupFault \/ CheckCancel \/ FillError
  BY <1>1, <1>2, <1>3
     DEF Setup, SetupFault, CheckCancel, FillError, Stages, fixedVars,
         SuccessIsDurableImage, FailureHasCause
<1>4. CASE Fill \/ Throttle
  BY <1>1, <1>2, <1>4 DEF Fill, Throttle, Stages
<1>5. CASE ProcessContinue
  BY <1>1, <1>2, <1>5, ContinueEffect DEF ProcessContinue, Stages
<1>6. CASE ProcessEnd
  <2>1. result = "running" /\ imageLen' = imageLen
    BY <1>1, <1>6 DEF ProcessEnd, Stages, fixedVars
  <2> QED
    BY <1>2, <1>6, <2>1, EndEffect DEF SuccessIsDurableImage, FailureHasCause
<1>7. CASE ClearDirect \/ FinalizeFault
  BY <1>1, <1>2, <1>7 DEF ClearDirect, FinalizeFault, Stages, SuccessIsDurableImage,
                          FailureHasCause
<1>8. CASE Fdatasync /\ UNCHANGED fixedVars
  <2>1. /\ total = imageLen /\ imageLen <= DevSize /\ disk = CopiedTo(imageLen)
        /\ ~direct /\ faults = {}
    BY <1>1, <1>8 DEF Fdatasync, Stages, DiskIsPrefix
  <2>2. /\ result' = "ok" /\ ~dirty' /\ UNCHANGED <<disk, direct, total, faults, imageLen>>
    BY <1>8 DEF Fdatasync, fixedVars
  <2> QED
    BY <2>1, <2>2 DEF SuccessIsDurableImage, FailureHasCause, CopiedTo
<1>9. CASE RequestCancel
  BY <1>1, <1>9 DEF RequestCancel, fixedVars, deviceVars, mainVars,
                    SuccessIsDurableImage, FailureHasCause
<1>10. CASE Terminated \/ UNCHANGED vars
  BY <1>1, <1>10 DEF Terminated, vars, fixedVars, deviceVars, mainVars,
                     SuccessIsDurableImage, FailureHasCause
<1> QED
  BY <1>3, <1>4, <1>5, <1>6, <1>7, <1>8, <1>9, <1>10 DEF Next, Main, Finalize

LEMMA StepInv == IInv /\ [Next]_vars => IInv'
  BY TypeStep, StagesStep, DiskStep, CancelStep, PromisesStep DEF IInv

-----------------------------------------------------------------------------
(* The theorems. *)

\* The strengthened invariant: what flash_serial's loop knows at each step.
THEOREM Invariance == Spec => []IInv
  BY InitInv, StepInv, PTL DEF Spec

\* TypeOK: every variable of flash_serial stays in its type.
THEOREM TypeCorrect == Spec => []TypeOK
<1>1. IInv => TypeOK
  BY DEF IInv
<1> QED
  BY Invariance, <1>1, PTL

\* SuccessIsDurableImage: flash_serial returns Ok only over a complete, durable
\* image, with no failure swallowed and the descriptor back to buffered I/O.
THEOREM SuccessMeansImage == Spec => []SuccessIsDurableImage
<1>1. IInv => SuccessIsDurableImage
  BY DEF IInv
<1> QED
  BY Invariance, <1>1, PTL

\* FailureHasCause: flash_serial reports no error that was not caused; in
\* particular no write of its own is misaligned.
THEOREM FailureIsCaused == Spec => []FailureHasCause
<1>1. IInv => FailureHasCause
  BY DEF IInv
<1> QED
  BY Invariance, <1>1, PTL

\* CancelStopsWriting: after the flag is set at most one more chunk is written.
THEOREM CancelIsPrompt == Spec => []CancelStopsWriting
<1>1. IInv => CancelStopsWriting
  BY DEF IInv, CancelBound, CancelStopsWriting
<1> QED
  BY Invariance, <1>1, PTL

\* One step of the loop is a step of the abstract copy, or a stutter.
LEMMA CopyStep == IInv /\ IInv' /\ [Next]_vars => [Copy!Next]_(Copy!vars)
<1> SUFFICES ASSUME IInv, IInv', [Next]_vars PROVE [Copy!Next]_(Copy!vars)
  OBVIOUS
<1> USE DEF Finish
<1>1. /\ Stages /\ Stages' /\ DiskIsPrefix /\ imageLen' = imageLen
      /\ DevSize \in Nat /\ imageLen \in Nat
  BY Numbers, SizesAssumption
     DEF IInv, SizesAssumption, Next, Main, Setup, SetupFault, CheckCancel, Fill,
         FillError, ProcessContinue, ProcessEnd, Throttle, RequestCancel, Terminated,
         vars, fixedVars
<1>2. ASSUME result = "running",
             NEW j \in 0 .. DevSize, NEW k \in 0 .. DevSize,
             j <= k, k <= imageLen, disk = CopiedTo(j), disk' = CopiedTo(k)
      PROVE  Copy!Advance
  BY <1>2 DEF Copy!Advance, Copy!CopiedTo, CopiedTo, Sectors
<1>3. CASE UNCHANGED <<disk, result>>
  BY <1>1, <1>3 DEF Copy!vars
<1>4. ASSUME result = "running", result' \notin {"running", "ok"}, disk' = disk
      PROVE  [Copy!Next]_(Copy!vars)
  <2>1. PICK k \in 0 .. DevSize : k <= imageLen /\ disk = CopiedTo(k)
    BY <1>1 DEF DiskIsPrefix
  <2>2. Copy!Advance
    BY <1>2, <1>4, <2>1
  <2> QED
    BY <1>1, <1>4, <2>2 DEF Copy!Next, Copy!Fail
<1>5. CASE ProcessContinue
  <2>1. /\ result = "running" /\ result' = "running" /\ offset = total
        /\ disk = CopiedTo(offset) /\ offset <= DevSize
    BY <1>1, <1>5, ContinueEffect DEF ProcessContinue, Stages, InLoop, DiskIsPrefix
  <2>2. offset \in 0 .. DevSize /\ total' \in 0 .. DevSize /\ offset <= total'
    BY <1>1, <1>5, <2>1, ContinueEffect, Numbers, SizesAssumption DEF SizesAssumption
  <2>3. Copy!Advance
    BY <1>2, <1>5, <2>1, <2>2, ContinueEffect
  <2> QED
    BY <1>1, <2>1, <2>3 DEF Copy!Next, Copy!Extend
<1>6. CASE ProcessEnd
  <2>1. /\ result = "running" /\ offset = total /\ offset <= imageLen
        /\ disk = CopiedTo(offset) /\ offset \in 0 .. DevSize
    BY <1>1, <1>6, Numbers DEF ProcessEnd, Stages, InLoop, DiskIsPrefix
  <2>2. CASE outcome' = "ok"
    <3>1. /\ result' = "running" /\ imageLen \in 0 .. DevSize
          /\ disk' = CopiedTo(imageLen)
      BY <1>1, <1>6, <2>1, <2>2, EndEffect
    <3>2. Copy!Advance
      BY <1>2, <2>1, <3>1
    <3> QED
      BY <1>1, <2>1, <3>1, <3>2 DEF Copy!Next, Copy!Extend
  <2>3. CASE outcome' # "ok"
    <3>1. PICK k \in 0 .. DevSize : offset <= k /\ k <= imageLen /\ disk' = CopiedTo(k)
      BY <1>6, <2>3, EndEffect
    <3>2. result' \in {"io", "capacity"}
      BY <1>6, <2>3, EndEffect
    <3>3. Copy!Advance
      BY <1>2, <2>1, <3>1
    <3> QED
      BY <1>1, <2>1, <3>2, <3>3 DEF Copy!Next, Copy!Fail
  <2> QED
    BY <2>2, <2>3
<1>7. CASE Fdatasync
  <2>1. /\ result = "running" /\ result' = "ok" /\ disk' = disk
        /\ imageLen <= DevSize /\ disk = CopiedTo(imageLen)
    BY <1>1, <1>7 DEF Fdatasync, Stages, DiskIsPrefix
  <2> QED
    BY <1>1, <2>1 DEF Copy!Next, Copy!Succeed, Copy!CopiedTo, CopiedTo, Sectors
<1>8. CASE Setup \/ SetupFault \/ CheckCancel \/ FillError \/ FinalizeFault
  <2>1. /\ result = "running" /\ disk' = disk
        /\ result' = "running" \/ result' \notin {"running", "ok"}
    BY <1>1, <1>8 DEF Setup, SetupFault, CheckCancel, FillError, FinalizeFault, Stages,
                      deviceVars
  <2> QED
    BY <1>3, <1>4, <2>1
<1>9. CASE Fill \/ Throttle \/ ClearDirect \/ RequestCancel \/ Terminated \/ UNCHANGED vars
  BY <1>3, <1>9 DEF Fill, Throttle, ClearDirect, RequestCancel, Terminated, vars,
                    deviceVars, mainVars
<1> QED
  BY <1>5, <1>6, <1>7, <1>8, <1>9 DEF Next, Main, Finalize

\* CopySpec: flash_serial keeps the promise ImageCopy states, that the device only
\* ever holds an in-order prefix of the image and that Ok comes with all of it.
THEOREM SerialCopies == Spec => CopySpec
<1>1. Init => Copy!Init
  BY DEF Init, WriterInit, Copy!Init, Copy!CopiedTo, Sectors
<1> QED
  BY <1>1, Invariance, CopyStep, PTL DEF Spec, CopySpec, Copy!Spec
=============================================================================
