------------------------ MODULE FlashPipelineProofs ------------------------
(***************************************************************************)
(* Proofs about the pipelined arm of Phase 4, for every buffer, device and *)
(* image size.  The safety properties the runs check are not inductive:    *)
(* IInv adds to them what the two threads know about each other.           *)
(***************************************************************************)
EXTENDS FlashPipeline, SequenceTheorems, TLAPS

-----------------------------------------------------------------------------
(* The device side, which both arms share: what one chunk does to a device  *)
(* that holds a prefix of the image.                                        *)

\* The first k sectors hold the image, the others what they held before.
CopiedTo(k) == [i \in Sectors |-> IF i < k THEN i ELSE Old]

\* The device holds the image up to offset, and c is what a fill at offset yields.
Ready(c) ==
  /\ outcome = "ok"
  /\ offset \in Nat /\ imageLen \in Nat
  /\ offset = total /\ total <= imageLen /\ total <= DevSize
  /\ offset % BUF_SIZE = 0
  /\ disk = CopiedTo(offset)
  /\ late = 0
  /\ c.from = offset /\ c.n = FillAt(offset)

-----------------------------------------------------------------------------
(* Arithmetic of the chunks. *)

\* Euclid's division, as far as the next lemma needs it.
LEMMA Division ==
  ASSUME NEW a \in Nat, NEW b \in Nat \ {0}
  PROVE  a = b * (a \div b) + (a % b) /\ (a \div b) \in Nat
  BY Z3

\* A multiple of b leaves no remainder.
LEMMA MultipleAligned ==
  ASSUME NEW q \in Nat, NEW b \in Nat \ {0}
  PROVE  (q * b) % b = 0
  OBVIOUS

\* Writing a full buffer at an aligned offset leaves the offset aligned.
LEMMA NextOffsetAligned ==
  ASSUME NEW a \in Nat, NEW b \in Nat \ {0}, a % b = 0
  PROVE  (a + b) % b = 0
<1> DEFINE q == a \div b
<1>1. a = b * q /\ q \in Nat
  BY Division
<1> HIDE DEF q
<1>2. a + b = (q + 1) * b /\ q + 1 \in Nat
  BY <1>1
<1> QED
  BY <1>2, MultipleAligned

\* A fill is at most a buffer, never passes the end of the stream, and is short
\* only when it reaches that end.
LEMMA FillBounds ==
  ASSUME NEW p \in Nat, imageLen \in Nat, p <= imageLen
  PROVE  /\ FillAt(p) \in 0 .. BUF_SIZE
         /\ p + FillAt(p) \in Nat
         /\ p + FillAt(p) <= imageLen
         /\ FillAt(p) # BUF_SIZE => p + FillAt(p) = imageLen
  BY SizesAssumption DEF SizesAssumption, FillAt

\* Writing k sectors of the chunk that starts at offset extends the prefix.
LEMMA StoredExtends ==
  ASSUME NEW c, NEW k \in Nat, offset \in Nat, c.from = offset,
         disk = CopiedTo(offset)
  PROVE  Stored(c, k) = CopiedTo(offset + k)
<1>1. ASSUME NEW i \in Sectors
      PROVE  (IF i \in offset .. offset + k - 1 THEN c.from + (i - offset) ELSE disk[i])
             = (IF i < offset + k THEN i ELSE Old)
  <2>1. i \in Nat
    BY SizesAssumption DEF SizesAssumption, Sectors
  <2>2. CASE i < offset
    BY <2>1, <2>2 DEF CopiedTo
  <2>3. CASE offset <= i /\ i < offset + k
    BY <2>1, <2>3
  <2>4. CASE offset + k <= i
    <3>1. i \notin offset .. offset + k - 1 /\ ~(i < offset + k) /\ ~(i < offset)
      BY <2>1, <2>4
    <3>2. disk[i] = Old
      BY <3>1 DEF CopiedTo
    <3> QED
      BY <3>1, <3>2, Zenon
  <2>5. i < offset \/ (offset <= i /\ i < offset + k) \/ offset + k <= i
    BY <2>1
  <2> QED
    BY <2>2, <2>3, <2>4, <2>5
<1> QED
  BY <1>1 DEF Stored, CopiedTo

-----------------------------------------------------------------------------
(* What processing one chunk does to the device. *)

\* A full chunk is accepted whole, and moves the prefix and the offset on.
LEMMA WholeChunk ==
  ASSUME NEW c, Ready(c), FullChunk(c)
  PROVE  /\ outcome' = "ok"
         /\ total' = offset + BUF_SIZE
         /\ offset' = offset + BUF_SIZE
         /\ offset' % BUF_SIZE = 0
         /\ total' <= imageLen /\ total' <= DevSize
         /\ disk' = CopiedTo(total')
         /\ late' \in {0, 1} /\ (late' = 1 => cancel)
<1>1. /\ outcome = "ok" /\ offset % BUF_SIZE = 0
      /\ disk = CopiedTo(offset) /\ offset \in Nat /\ imageLen \in Nat
      /\ offset <= imageLen /\ late = 0 /\ c.from = offset /\ c.n = FillAt(offset)
  BY DEF Ready
<1>2. c.n = BUF_SIZE /\ BUF_SIZE \in Nat \ {0} /\ offset + BUF_SIZE <= DevSize
  BY SizesAssumption DEF SizesAssumption, FullChunk, ChunkEndWithin
<1>3. Accepts(direct, c.n)
  BY <1>1, <1>2 DEF Accepts
<1>4. /\ disk' = Stored(c, c.n) /\ total' = offset + c.n
      /\ outcome' = outcome /\ offset' = offset + c.n
      /\ late' = IF cancel THEN late + 1 ELSE late
  BY <1>1, <1>3 DEF FullChunk, Pwrite
<1>5. disk' = CopiedTo(offset + BUF_SIZE)
  BY <1>1, <1>2, <1>4, StoredExtends
<1>6. offset + BUF_SIZE <= imageLen
  BY <1>1, <1>2, FillBounds
<1>7. (offset + BUF_SIZE) % BUF_SIZE = 0
  BY <1>1, <1>2, NextOffsetAligned
<1> QED
  BY <1>1, <1>2, <1>4, <1>5, <1>6, <1>7

\* The last chunk, a tail or nothing, completes the image on the device.
LEMMA FinalChunk ==
  ASSUME NEW c, Ready(c), LastChunk(c)
  PROVE  /\ outcome' = "ok"
         /\ total' = imageLen
         /\ total' <= DevSize
         /\ disk' = CopiedTo(total')
         /\ offset' = offset
         /\ faults' = faults
         /\ late' \in {0, 1} /\ (late' = 1 => cancel)
<1>1. /\ outcome = "ok" /\ offset = total /\ total <= DevSize
      /\ disk = CopiedTo(offset) /\ offset \in Nat /\ imageLen \in Nat
      /\ offset <= imageLen /\ late = 0 /\ c.from = offset /\ c.n = FillAt(offset)
  BY DEF Ready
<1>2. BUF_SIZE \in Nat \ {0}
  BY SizesAssumption DEF SizesAssumption
<1>3. c.n \in Nat /\ c.n # BUF_SIZE
  <2>1. c.n \in 0 .. BUF_SIZE
    BY <1>1, FillBounds
  <2>2. CASE EmptyChunk(c)
    BY <1>2, <2>2 DEF EmptyChunk
  <2>3. CASE TailChunk(c)
    BY <1>2, <2>1, <2>3 DEF TailChunk
  <2> QED
    BY <2>2, <2>3 DEF LastChunk
<1>4. offset + c.n = imageLen
  BY <1>1, <1>2, <1>3, FillBounds
<1>5. CASE EmptyChunk(c)
  BY <1>1, <1>3, <1>4, <1>5 DEF EmptyChunk
<1>6. CASE TailChunk(c)
  <2>1. /\ disk' = Stored(c, c.n) /\ total' = offset + c.n
        /\ outcome' = outcome /\ offset' = offset /\ faults' = faults
        /\ late' = IF cancel THEN late + 1 ELSE late
        /\ offset + c.n <= DevSize
    BY <1>6 DEF TailChunk, Pwrite, Accepts, ChunkEndWithin
  <2>2. disk' = CopiedTo(offset + c.n)
    BY <1>1, <1>3, <2>1, StoredExtends
  <2> QED
    BY <1>1, <1>4, <2>1, <2>2
<1> QED
  BY <1>5, <1>6 DEF LastChunk

\* An error leaves a prefix too: all of it before the chunk, part of the chunk
\* perhaps, and never anything past the image.
LEMMA FailedChunk ==
  ASSUME NEW c, Ready(c), ChunkError(c)
  PROVE  /\ \/ outcome' = "io" /\ "device" \in faults'
            \/ outcome' = "capacity" /\ imageLen > DevSize
         /\ faults \subseteq faults' /\ faults' \subseteq faults \cup {"device"}
         /\ \E k \in 0 .. DevSize : /\ offset <= k /\ k <= imageLen
                                   /\ disk' = CopiedTo(k)
         /\ offset' = offset /\ total' = total /\ late' = late
<1>1. /\ offset = total /\ total <= DevSize
      /\ disk = CopiedTo(offset) /\ offset \in Nat /\ imageLen \in Nat
      /\ offset <= imageLen /\ c.from = offset /\ c.n = FillAt(offset)
  BY DEF Ready
<1>2. offset + c.n <= imageLen /\ c.n \in Nat
  BY <1>1, FillBounds, SizesAssumption DEF SizesAssumption
<1>3. offset \in 0 .. DevSize /\ DevSize \in Nat
  BY <1>1, SizesAssumption DEF SizesAssumption
<1>4. CASE OverCapacity(c)
  <2>1. imageLen > DevSize
    BY <1>1, <1>2, <1>3, <1>4 DEF OverCapacity, ChunkEndWithin
  <2> QED
    BY <1>1, <1>3, <1>4, <2>1 DEF OverCapacity
<1>5. CASE WriteFault(c)
  <2>1. PICK k \in 0 .. c.n : disk' = Stored(c, k)
    BY <1>5 DEF WriteFault
  <2>2. /\ k \in Nat /\ offset <= offset + k
        /\ offset + k <= imageLen /\ offset + k \in 0 .. DevSize
    BY <1>1, <1>2, <1>3, <1>5 DEF WriteFault, ChunkEndWithin
  <2>3. disk' = CopiedTo(offset + k)
    BY <1>1, <2>1, <2>2, StoredExtends
  <2> QED
    BY <1>5, <2>2, <2>3 DEF WriteFault
<1>6. CASE TailFlagFault(c)
  BY <1>1, <1>3, <1>6 DEF TailFlagFault
<1> QED
  BY <1>4, <1>5, <1>6 DEF ChunkError

-----------------------------------------------------------------------------
(* `filled`, a channel of at most two items: the pool has two buffers. *)

\* `filled` never holds more than two items: it is empty, a single or a pair.
LEMMA OneOrTwo ==
  ASSUME NEW n \in Nat, n # 0, n <= 2
  PROVE  n \in {1, 2}
  OBVIOUS

\* With room for one item only, `filled` is empty or a single.
LEMMA AtMostOne ==
  ASSUME NEW n \in Nat, n # 0, n <= 1
  PROVE  n = 1
  OBVIOUS

\* A sequence with an item has a positive length.
LEMMA NonEmpty ==
  ASSUME NEW S, NEW s \in Seq(S)
  PROVE  s # << >> <=> Len(s) # 0
  BY EmptySeq

\* What recv takes from the front of `filled`, and what it leaves.
LEMMA TakeFirst ==
  ASSUME NEW S, NEW s \in Seq(S), s # << >>, Len(s) <= 2
  PROVE  /\ Head(s) = s[1]
         /\ s[1] \in S
         /\ Tail(s) \in Seq(S)
         /\ Len(s) \in {1, 2}
         /\ Len(Tail(s)) = Len(s) - 1
         /\ Len(s) = 1 => Tail(s) = << >>
         /\ Len(s) = 2 => Tail(s) # << >> /\ Tail(s)[1] = s[2]
<1>1. Len(s) \in {1, 2}
  BY NonEmpty, OneOrTwo, LenProperties
<1>2. Head(s) = s[1] /\ s[1] \in S
  BY <1>1
<1>3. /\ Tail(s) \in Seq(S)
      /\ Len(Tail(s)) = Len(s) - 1
      /\ \A i \in 1 .. Len(Tail(s)) : Tail(s)[i] = s[i+1]
  BY HeadTailProperties
<1>4. Len(s) = 1 => Tail(s) = << >>
  <2>1. Len(s) = 1 => Len(Tail(s)) = 0
    BY <1>3
  <2> QED
    BY <1>3, <2>1, NonEmpty
<1>5. Len(s) = 2 => Tail(s) # << >>
  <2>1. Len(s) = 2 => Len(Tail(s)) # 0
    BY <1>3
  <2> QED
    BY <1>3, <2>1, NonEmpty
<1>6. Len(s) = 2 => Tail(s)[1] = s[2]
  BY <1>3
<1> QED
  BY <1>1, <1>2, <1>3, <1>4, <1>5, <1>6

\* What send appends to `filled`, item by item.
LEMMA AddLast ==
  ASSUME NEW S, NEW s \in Seq(S), NEW e \in S, Len(s) <= 1
  PROVE  /\ Append(s, e) \in Seq(S)
         /\ Append(s, e) # << >>
         /\ Len(Append(s, e)) = Len(s) + 1
         /\ Append(s, e)[Len(s) + 1] = e
         /\ s = << >> => Append(s, e)[1] = e /\ Len(s) = 0
         /\ s # << >> => Append(s, e)[1] = s[1] /\ Append(s, e)[2] = e /\ Len(s) = 1
<1>1. /\ Append(s, e) \in Seq(S)
      /\ Append(s, e) # << >>
      /\ Len(Append(s, e)) = Len(s) + 1
      /\ Append(s, e)[Len(s) + 1] = e
      /\ \A i \in 1 .. Len(s) : Append(s, e)[i] = s[i]
  BY AppendProperties
<1>2. s = << >> => Len(s) = 0
  BY EmptySeq
<1>3. s # << >> => Len(s) = 1
  BY AtMostOne, NonEmpty, LenProperties
<1>4. Len(s) = 0 => Append(s, e)[1] = e
  BY <1>1
<1>5. Len(s) = 1 => Append(s, e)[1] = s[1] /\ Append(s, e)[2] = e
  BY <1>1
<1> QED
  BY <1>1, <1>2, <1>3, <1>4, <1>5

-----------------------------------------------------------------------------
(* The invariant. *)

Running == wpc \in {"acquire", "poll", "fill", "send"}
Leaving == wpc \in {"drop_filled", "drop_free", "gone"}
Cleanup == {"drop_filled", "drop_free", "join", "clear_direct", "sync"}

\* How far each thread is, and what that says of the outcome so far.
Stages ==
  /\ result = "running" <=> pc # "done"
  /\ wpc = "unborn" => pc \in {"setup", "done"}
  /\ pc = "setup" => /\ wpc = "unborn" /\ filled = << >> /\ free = 0 /\ pos = 0
                     /\ offset = 0 /\ total = 0 /\ outcome = "ok" /\ ~mirror
                     /\ faults = {} /\ late = 0
  /\ pc \in InLoop \cup {"join_early"} => outcome = "ok" /\ ~mirror
  /\ pc \in {"clear_direct", "sync", "done"} => wpc \in {"unborn", "gone"}
  /\ pc \in {"clear_direct", "sync"} => outcome = "ok" /\ "panic" \notin faults
  /\ pc = "join_early" => wpc \in {"drop_free", "gone"} /\ "panic" \in faults
  /\ pc = "sync" => ~direct
  /\ pos <= imageLen

\* The device holds a prefix of the image, up to `total` while all went well.
DiskIsPrefix ==
  /\ \E k \in 0 .. DevSize : k <= imageLen /\ disk = CopiedTo(k)
  /\ outcome = "ok" => total <= imageLen /\ total <= DevSize /\ disk = CopiedTo(total)
  /\ pc \in InLoop \cup {"join_early"} => offset = total
  /\ offset % BUF_SIZE = 0

\* While main consumes: what it holds, what is queued and what the worker is
\* about to send are consecutive parts of the image.
Held == IF pc = "chunk" THEN hand.n ELSE 0
Front == offset + Held
Queued == IF filled = << >> THEN 0
          ELSE IF Len(filled) = 1 THEN filled[1].n
          ELSE filled[1].n + filled[2].n
Sending == IF wpc = "send" THEN item.n ELSE 0
Genuine(i, p) == IF i.ok THEN i.from = p /\ i.n = FillAt(p)
                 ELSE i.n = 0 /\ "reader" \in faults

InOrder ==
  /\ Len(filled) <= 2
  /\ pc = "chunk" => hand.ok /\ Genuine(hand, offset)
  /\ filled # << >> => Genuine(filled[1], Front)
  /\ Len(filled) = 2 => Genuine(filled[2], Front + filled[1].n)
  /\ wpc = "send" => Genuine(item, Front + Queued)
  /\ pos = Front + Queued + Sending

\* Only the last item may be short or an error, and a worker that leaves without
\* a panic has sent one.
LastIsFinal ==
  /\ pc = "chunk" /\ filled # << >> => MoreAfter(hand)
  /\ Len(filled) = 2 => MoreAfter(filled[1])
  /\ Running => /\ pc = "chunk" => MoreAfter(hand)
                /\ filled # << >> => MoreAfter(filled[Len(filled)])
  /\ Leaving /\ "panic" \notin faults =>
       IF filled # << >> THEN ~MoreAfter(filled[Len(filled)])
       ELSE pc = "chunk" /\ ~MoreAfter(hand)
  /\ "reader" \in faults =>
       \/ wpc = "send" /\ ~item.ok
       \/ filled # << >> /\ ~filled[Len(filled)].ok
  /\ faults \cap {"device", "spawn"} = {}
  /\ "panic" \in faults => Leaving

\* Both buffers are accounted for until the worker leaves.
InUse == Len(filled) + (IF pc \in {"chunk", "return"} THEN 1 ELSE 0)
PoolConserved ==
  /\ Running => free + InUse + (IF wpc = "acquire" THEN 0 ELSE 1) = POOL
  /\ Leaving => free + InUse <= POOL

Flow == pc \in InLoop => wpc # "unborn" /\ InOrder /\ LastIsFinal /\ PoolConserved

\* After the loop a good outcome means the whole image, or a panic on the way.
LoopOutcome ==
  /\ pc \in Cleanup /\ outcome = "ok" /\ "panic" \notin faults =>
       total = imageLen /\ Leaving /\ faults = {}
  /\ outcome = "cancelled" => cancel
  /\ outcome = "capacity" => imageLen > DevSize
  /\ outcome = "io" => faults \cap {"device", "reader"} # {}
  /\ outcome \notin {"rate", "protocol"}

CancelBound ==
  /\ late <= 1
  /\ late > 0 => cancel
  /\ pc \in {"recv", "chunk"} => late = 0

IInv ==
  /\ TypeOK
  /\ Stages
  /\ DiskIsPrefix
  /\ Flow
  /\ LoopOutcome
  /\ CancelBound
  /\ SuccessIsDurableImage
  /\ FailureHasCause
  /\ WorkerSettled

-----------------------------------------------------------------------------
(* What processing one chunk does to the device. *)

\* The chunk main holds is the one that belongs at offset.
LEMMA HandReady ==
  ASSUME IInv, pc = "chunk"
  PROVE  Ready(hand)
<1>1. hand.from = offset /\ hand.n = FillAt(offset)
  BY DEF IInv, Flow, InLoop, InOrder, Genuine
<1>2. /\ outcome = "ok" /\ offset = total /\ offset % BUF_SIZE = 0
      /\ disk = CopiedTo(offset) /\ offset \in Nat /\ total <= DevSize
      /\ total <= imageLen /\ late = 0
  BY DEF IInv, Stages, InLoop, DiskIsPrefix, TypeOK, WriterTypeOK, CancelBound
<1>3. imageLen \in Nat
  BY SizesAssumption DEF SizesAssumption, IInv, TypeOK, WriterTypeOK
<1> QED
  BY <1>1, <1>2, <1>3 DEF Ready

\* A full chunk is accepted whole, and moves the prefix and the offset on.
LEMMA FullChunkEffect ==
  ASSUME IInv, pc = "chunk", FullChunk(hand)
  PROVE  /\ outcome' = "ok"
         /\ total' = offset + BUF_SIZE
         /\ offset' = offset + BUF_SIZE
         /\ offset' % BUF_SIZE = 0
         /\ total' <= imageLen /\ total' <= DevSize
         /\ disk' = CopiedTo(total')
         /\ late' \in {0, 1} /\ (late' = 1 => cancel)
  BY HandReady, WholeChunk

\* The last chunk, a tail or nothing, completes the image on the device.
LEMMA LastChunkEffect ==
  ASSUME IInv, pc = "chunk", LastChunk(hand)
  PROVE  /\ outcome' = "ok"
         /\ total' = imageLen
         /\ total' <= DevSize
         /\ disk' = CopiedTo(total')
         /\ offset' = offset
         /\ faults' = faults
         /\ late' \in {0, 1} /\ (late' = 1 => cancel)
  BY HandReady, FinalChunk

\* An error leaves a prefix too, and has a cause.
LEMMA ChunkErrorEffect ==
  ASSUME IInv, pc = "chunk", ChunkError(hand)
  PROVE  /\ \/ outcome' = "io" /\ "device" \in faults'
            \/ outcome' = "capacity" /\ imageLen > DevSize
         /\ faults \subseteq faults' /\ faults' \subseteq faults \cup {"device"}
         /\ \E k \in 0 .. DevSize : /\ offset <= k /\ k <= imageLen
                                   /\ disk' = CopiedTo(k)
         /\ offset' = offset /\ total' = total /\ late' = late
  BY HandReady, FailedChunk

-----------------------------------------------------------------------------
(* The flow of buffers between the threads, while main is in its loop. *)

\* Every step keeps the items between the threads consecutive and accounted for.
LEMMA FlowStep ==
  ASSUME IInv, Next, pc' \in InLoop
  PROVE  wpc' # "unborn" /\ InOrder' /\ LastIsFinal' /\ PoolConserved'
<1> USE SizesAssumption DEF SizesAssumption
<1>1. CASE Spawn
  BY <1>1 DEF Spawn, IInv, Stages, TypeOK, WriterTypeOK, InLoop, InOrder, Held,
     Front, Queued, Sending, LastIsFinal, Running, Leaving, PoolConserved, InUse, POOL
<1> SUFFICES ASSUME ~Spawn
             PROVE  wpc' # "unborn" /\ InOrder' /\ LastIsFinal' /\ PoolConserved'
  BY <1>1
<1>2. pc \in InLoop
  BY DEF Next, Main, Worker, InLoop, RefuseZeroRate, SetupFault, CheckCancel, Recv,
     RecvDisconnected, JoinEarly, ProcessContinue, ProcessEnd, ReturnBuffer, Throttle,
     DropFilledRx, DropFreeTx, Join, FinalizeMain, Finalize, ClearDirect, Fdatasync,
     FinalizeFault, Finish, Acquire, AcquireDisconnected, PollMirror, Fill, FillError,
     FillPanic, Send, DropFilledTx, DropFreeRx, RequestCancel, Terminated,
     writerVars, vars, LeaveCancelled
<1>3. /\ wpc # "unborn" /\ InOrder /\ LastIsFinal /\ PoolConserved
      /\ outcome = "ok" /\ ~mirror /\ pos <= imageLen
  BY <1>2 DEF IInv, Flow, Stages
<1>4. /\ filled \in Seq(Item) /\ item \in Item /\ hand \in Item
      /\ \A i \in Item : i.n \in Nat
      /\ offset \in Nat /\ pos \in Nat /\ free \in Nat /\ imageLen \in Nat
  BY DEF IInv, TypeOK, WriterTypeOK, Item, POOL
<1>lens. /\ hand.n \in Nat /\ item.n \in Nat /\ Len(filled) \in Nat
         /\ filled # << >> => Len(filled) \in {1, 2} /\ filled[1].n \in Nat
         /\ Len(filled) = 2 => filled # << >> /\ filled[2].n \in Nat
  <2>1. Len(filled) \in Nat /\ hand.n \in Nat /\ item.n \in Nat
    BY <1>4
  <2>2. filled # << >> => Len(filled) \in {1, 2} /\ filled[1] \in Item
    BY <1>3, <1>4, TakeFirst DEF InOrder
  <2>3. Len(filled) = 2 => filled # << >> /\ filled[2] \in Item
    <3>1. Len(filled) = 2 => filled[2] \in Item
      BY <1>4
    <3>2. filled # << >> <=> Len(filled) # 0
      BY <1>4, NonEmpty
    <3> QED
      BY <3>1, <3>2
  <2> QED
    BY <1>4, <2>1, <2>2, <2>3
<1>sums. Front \in Nat /\ Queued \in Nat
  BY <1>lens, <1>4 DEF Front, Held, Queued
<1>5. CASE CheckCancel
  BY <1>2, <1>3, <1>4, <1>5
     DEF CheckCancel, LeaveCancelled, InLoop, deviceVars, workerVars, fixedVars,
         InOrder, Held, Front, Queued, Sending, Genuine, FillAt, LastIsFinal, Running,
         Leaving, MoreAfter, PoolConserved, InUse
<1>6. CASE Recv
  <2>1. /\ filled # << >> /\ Len(filled) \in {1, 2} /\ Head(filled) = filled[1]
        /\ filled' = Tail(filled) /\ Len(filled') = Len(filled) - 1
        /\ filled[1] \in Item
        /\ Len(filled) = 1 => filled' = << >>
        /\ Len(filled) = 2 => filled' # << >> /\ filled'[1] = filled[2]
    BY <1>3, <1>4, <1>6, TakeFirst DEF Recv, InOrder
  <2>2. /\ pc = "recv" /\ pc' = "chunk" /\ filled[1].ok /\ hand' = filled[1]
        /\ UNCHANGED <<imageLen, faults, offset, free, wpc, pos, item, outcome>>
    BY <1>6, <2>1 DEF Recv, InLoop, workerVars, fixedVars
  <2>3. InOrder'
    <3>1. Front = offset /\ Front' = offset + filled[1].n /\ Sending' = Sending
      BY <1>4, <2>2 DEF Front, Held, Sending
    <3>2. Front' + Queued' = Front + Queued
      BY <1>lens, <1>4, <2>1, <2>2, <3>1 DEF Queued
    <3>3. \A i, p : Genuine(i, p)' <=> Genuine(i, p)
      BY <2>2 DEF Genuine, FillAt
    <3>4. Genuine(filled[1], offset)
      BY <1>3, <2>1, <3>1 DEF InOrder
    <3>5. Len(filled) = 2 => Genuine(filled[2], Front')
      BY <1>3, <3>1 DEF InOrder
    <3>6. Len(filled') <= 1
      BY <2>1
    <3>7. pc' = "chunk" => hand'.ok /\ Genuine(hand, offset)'
      BY <2>2, <3>4 DEF Genuine, FillAt
    <3>8. (filled # << >> => Genuine(filled[1], Front))'
      BY <2>1, <2>2, <3>5 DEF Genuine, FillAt
    <3>9. (wpc = "send" => Genuine(item, Front + Queued))'
      BY <1>3, <2>2, <3>2 DEF InOrder, Genuine, FillAt
    <3>10. pos' = Front' + Queued' + Sending'
      BY <1>3, <2>2, <3>1, <3>2 DEF InOrder
    <3> QED
      BY <3>6, <3>7, <3>8, <3>9, <3>10 DEF InOrder
  <2>4. LastIsFinal'
    BY <1>3, <1>4, <2>1, <2>2 DEF LastIsFinal, Running, Leaving, MoreAfter
  <2>5. PoolConserved'
    BY <1>3, <1>4, <2>1, <2>2 DEF PoolConserved, Running, Leaving, InUse
  <2> QED
    BY <1>3, <2>2, <2>3, <2>4, <2>5
<1>7. CASE ProcessContinue
  <2>1. /\ pc = "chunk" /\ pc' = "return" /\ offset' = offset + BUF_SIZE
        /\ hand.n = BUF_SIZE /\ hand.ok
        /\ UNCHANGED <<imageLen, faults, filled, hand, free, wpc, pos, item>>
    BY <1>3, <1>7, FullChunkEffect
       DEF ProcessContinue, FullChunk, workerVars, fixedVars, InOrder
  <2>2. InOrder'
    BY <1>3, <1>4, <2>1
       DEF InOrder, Held, Front, Queued, Sending, Genuine, FillAt
  <2>3. LastIsFinal'
    BY <1>3, <2>1 DEF LastIsFinal, Running, Leaving, MoreAfter
  <2>4. PoolConserved'
    BY <1>3, <2>1 DEF PoolConserved, Running, Leaving, InUse
  <2> QED
    BY <1>3, <2>1, <2>2, <2>3, <2>4
<1>8. CASE ReturnBuffer
  <2>1. /\ pc = "return" /\ pc' \in {"throttle", "check"}
        /\ free' = IF wpc # "gone" THEN free + 1 ELSE free
        /\ UNCHANGED <<imageLen, faults, offset, filled, hand, wpc, pos, item>>
    BY <1>8 DEF ReturnBuffer, FreeRx, workerVars, fixedVars
  <2>2. InOrder'
    BY <1>3, <1>4, <2>1
       DEF InOrder, Held, Front, Queued, Sending, Genuine, FillAt
  <2>3. LastIsFinal'
    BY <1>3, <2>1 DEF LastIsFinal, Running, Leaving, MoreAfter
  <2>4. PoolConserved'
    <3> DEFINE u == InUse
               v == InUse'
    <3>1. u = v + 1 /\ u \in Nat /\ v \in Nat
      BY <1>lens, <2>1 DEF InUse
    <3>2. (Running' <=> Running) /\ (Leaving' <=> Leaving)
      BY <2>1 DEF Running, Leaving
    <3>3. Running => free + u + (IF wpc = "acquire" THEN 0 ELSE 1) = 2
      BY <1>3 DEF PoolConserved, POOL
    <3>4. Leaving => free + u <= 2
      BY <1>3 DEF PoolConserved, POOL
    <3>5. Running => free' = free + 1
      BY <2>1 DEF Running
    <3> HIDE DEF u, v
    <3>6. Running => free' + v + (IF wpc = "acquire" THEN 0 ELSE 1) = 2
      BY <1>4, <3>1, <3>3, <3>5
    <3>7. Leaving => free' + v <= 2
      BY <1>4, <2>1, <3>1, <3>4
    <3> QED
      BY <2>1, <3>2, <3>6, <3>7 DEF PoolConserved, POOL, v
  <2> QED
    BY <1>3, <2>1, <2>2, <2>3, <2>4
<1>9. CASE Throttle
  BY <1>2, <1>3, <1>4, <1>9
     DEF Throttle, LeaveCancelled, InLoop, deviceVars, workerVars, fixedVars,
         InOrder, Held, Front, Queued, Sending, Genuine, FillAt, LastIsFinal, Running,
         Leaving, MoreAfter, PoolConserved, InUse
<1>10. CASE Acquire
  BY <1>3, <1>4, <1>10
     DEF Acquire, writerVars, InOrder, Held, Front, Queued, Sending, Genuine, FillAt,
         LastIsFinal, Running, Leaving, MoreAfter, PoolConserved, InUse
<1>11. CASE PollMirror
  BY <1>3, <1>4, <1>11
     DEF PollMirror, writerVars, InOrder, Held, Front, Queued, Sending, Genuine, FillAt,
         LastIsFinal, Running, Leaving, MoreAfter, PoolConserved, InUse
<1>12. CASE Fill
  <2>1. /\ wpc = "fill" /\ wpc' = "send"
        /\ item' = [ok |-> TRUE, from |-> pos, n |-> FillAt(pos)]
        /\ pos' = pos + FillAt(pos)
        /\ UNCHANGED <<imageLen, faults, offset, filled, hand, free, pc>>
    BY <1>12 DEF Fill, writerVars
  <2>2. FillAt(pos) \in Nat /\ FillAt(pos)' = FillAt(pos')
    BY <1>3, <1>4, <2>1, FillBounds DEF FillAt
  <2>3. Front + Queued = pos
    BY <1>3, <1>sums, <2>1 DEF InOrder, Sending
  <2>4. InOrder'
    <3>1. Front' = Front /\ Queued' = Queued /\ Sending' = FillAt(pos)
      BY <2>1 DEF Front, Held, Queued, Sending
    <3>2. (wpc = "send" => Genuine(item, Front + Queued))'
      BY <2>1, <2>3, <3>1 DEF Genuine, FillAt
    <3>3. pos' = Front' + Queued' + Sending'
      BY <2>1, <2>3, <3>1
    <3>4. \A i, p : Genuine(i, p)' <=> Genuine(i, p)
      BY <2>1 DEF Genuine, FillAt
    <3> QED
      BY <1>3, <2>1, <3>1, <3>2, <3>3 DEF InOrder, Genuine, FillAt
  <2>5. LastIsFinal'
    BY <1>3, <2>1 DEF LastIsFinal, Running, Leaving, MoreAfter
  <2>6. PoolConserved'
    BY <1>3, <2>1 DEF PoolConserved, Running, Leaving, InUse
  <2> QED
    BY <1>3, <2>1, <2>4, <2>5, <2>6
<1>13. CASE FillError
  BY <1>3, <1>4, <1>13
     DEF FillError, Nothing, fixedVars, InOrder, Held, Front, Queued, Sending, Genuine,
         FillAt, LastIsFinal, Running, Leaving, MoreAfter, PoolConserved, InUse
<1>14. CASE FillPanic
  BY <1>3, <1>4, <1>14
     DEF FillPanic, fixedVars, InOrder, Held, Front, Queued, Sending, Genuine, FillAt,
         LastIsFinal, Running, Leaving, MoreAfter, PoolConserved, InUse, POOL
<1>15. CASE Send
  <2>1. Len(filled) <= 1
    <3>1. Len(filled) \in Nat
      BY <1>4
    <3> QED
      BY <1>3, <1>4, <1>15, <3>1 DEF Send, PoolConserved, Running, InUse, POOL
  <2>2. /\ filled' = Append(filled, item)
        /\ wpc = "send" /\ wpc' = IF MoreAfter(item) THEN "acquire" ELSE "drop_filled"
        /\ UNCHANGED <<imageLen, faults, offset, hand, free, pc, pos, item>>
    BY <1>2, <1>15 DEF Send, FilledRx, writerVars
  <2>3. /\ filled' # << >> /\ Len(filled') = Len(filled) + 1
        /\ filled'[Len(filled')] = item
        /\ filled = << >> => filled'[1] = item /\ Len(filled) = 0
        /\ filled # << >> => filled'[1] = filled[1] /\ filled'[2] = item /\ Len(filled) = 1
    BY <1>4, <2>1, <2>2, AddLast
  <2>4. InOrder'
    <3>1. Front' = Front /\ Sending = item.n /\ Sending' = 0
      BY <2>2 DEF Front, Held, Sending
    <3>2. Queued' = Queued + item.n /\ Len(filled') <= 2
      BY <1>lens, <2>1, <2>2, <2>3 DEF Queued
    <3>3. Genuine(item, Front + Queued)
      BY <1>3, <2>2 DEF InOrder
    <3>4. filled = << >> => Queued = 0
      BY DEF Queued
    <3>5. filled # << >> => Queued = filled[1].n
      BY <2>3 DEF Queued
    <3>6. (filled # << >> => Genuine(filled[1], Front))'
      BY <1>3, <1>sums, <2>2, <2>3, <3>1, <3>3, <3>4 DEF InOrder, Genuine, FillAt
    <3>7. (Len(filled) = 2 => Genuine(filled[2], Front + filled[1].n))'
      BY <2>2, <2>3, <3>1, <3>3, <3>5 DEF Genuine, FillAt
    <3>8. (pc = "chunk" => hand.ok /\ Genuine(hand, offset))'
      BY <1>3, <2>2 DEF InOrder, Genuine, FillAt
    <3>9. pos' = Front' + Queued' + Sending'
      BY <1>3, <1>lens, <1>sums, <2>2, <3>1, <3>2 DEF InOrder
    <3>10. wpc' # "send"
      BY <2>2
    <3> QED
      BY <3>2, <3>6, <3>7, <3>8, <3>9, <3>10 DEF InOrder
  <2>5. LastIsFinal'
    BY <1>3, <2>2, <2>3 DEF LastIsFinal, Running, Leaving, MoreAfter
  <2>6. PoolConserved'
    BY <1>3, <1>4, <2>2, <2>3 DEF PoolConserved, Running, Leaving, InUse
  <2> QED
    BY <2>2, <2>4, <2>5, <2>6
<1>16. CASE DropFilledTx
  BY <1>3, <1>4, <1>16
     DEF DropFilledTx, writerVars, InOrder, Held, Front, Queued, Sending, Genuine,
         FillAt, LastIsFinal, Running, Leaving, MoreAfter, PoolConserved, InUse
<1>17. CASE DropFreeRx
  <2>1. /\ wpc = "drop_free" /\ wpc' = "gone" /\ free' = 0
        /\ UNCHANGED <<imageLen, faults, offset, filled, hand, pc, pos, item>>
    BY <1>17 DEF DropFreeRx, writerVars
  <2>2. InOrder'
    BY <1>3, <2>1 DEF InOrder, Held, Front, Queued, Sending, Genuine, FillAt
  <2>3. LastIsFinal'
    BY <1>3, <2>1 DEF LastIsFinal, Running, Leaving, MoreAfter
  <2>4. PoolConserved'
    <3>1. InUse' = InUse /\ InUse \in Nat
      BY <1>lens, <2>1 DEF InUse
    <3> QED
      BY <1>3, <1>4, <2>1, <3>1 DEF PoolConserved, Running, Leaving, POOL
  <2> QED
    BY <2>1, <2>2, <2>3, <2>4
<1>18. CASE RequestCancel
  BY <1>3, <1>4, <1>18
     DEF RequestCancel, fixedVars, deviceVars, workerVars, InOrder, Held, Front, Queued,
         Sending, Genuine, FillAt, LastIsFinal, Running, Leaving, MoreAfter,
         PoolConserved, InUse
<1> QED
  BY <1>2, <1>5, <1>6, <1>7, <1>8, <1>9, <1>10, <1>11, <1>12, <1>13, <1>14, <1>15,
     <1>16, <1>17, <1>18
     DEF Next, Main, Worker, InLoop, FilledRx, FreeTx, RefuseZeroRate, SetupFault,
         RecvDisconnected, JoinEarly, ProcessEnd, DropFilledRx, DropFreeTx, Join,
         FinalizeMain, Finalize, ClearDirect, Fdatasync, FinalizeFault, Finish,
         AcquireDisconnected, Terminated

-----------------------------------------------------------------------------
(* One lemma per conjunct of the invariant, one step per action. *)

ControlTypeOK ==
  /\ pc \in MainStates
  /\ wpc \in WorkerStates
  /\ hand \in Item
  /\ item \in Item
  /\ filled \in Seq(Item)
  /\ free \in 0 .. POOL
  /\ mirror \in BOOLEAN
  /\ pos \in Nat

\* TypeOK is the device side's type and the threads' type together.
LEMMA TypeSplit == WriterTypeOK' /\ ControlTypeOK' => TypeOK'
  BY DEF TypeOK, ControlTypeOK

\* A device that holds a prefix of the image is well typed.
LEMMA PrefixType == \A k : CopiedTo(k) \in [Sectors -> Nat \cup {Old}]
  BY SizesAssumption DEF SizesAssumption, CopiedTo, Sectors

\* Every step keeps the variables in their types.
LEMMA TypeStep ==
  ASSUME IInv, Next
  PROVE  TypeOK'
<1>0. TypeOK /\ BUF_SIZE \in Nat \ {0} /\ DevSize \in Nat
  BY SizesAssumption DEF SizesAssumption, IInv
<1>1. CASE Spawn
  <2>1. WriterTypeOK'
    BY <1>0, <1>1 DEF Spawn, fixedVars, deviceVars, workerVars, writerVars, TypeOK,
       WriterTypeOK, Outcomes, FaultKinds
  <2>2. ControlTypeOK'
    BY <1>0, <1>1 DEF Spawn, fixedVars, deviceVars, workerVars, writerVars, TypeOK,
       ControlTypeOK, MainStates, InLoop, WorkerStates, POOL
  <2> QED
    BY <2>1, <2>2, TypeSplit
<1>2. CASE RefuseZeroRate
  BY <1>0, <1>2 DEF RefuseZeroRate, Finish, fixedVars, deviceVars, workerVars,
     writerVars, TypeOK, WriterTypeOK, MainStates, InLoop, WorkerStates, Outcomes,
     FaultKinds
<1>3. CASE SetupFault
  BY <1>0, <1>3 DEF SetupFault, Finish, fixedVars, deviceVars, workerVars, writerVars,
     TypeOK, WriterTypeOK, MainStates, InLoop, WorkerStates, Outcomes, FaultKinds
<1>4. CASE CheckCancel
  <2>1. WriterTypeOK'
    BY <1>0, <1>4 DEF CheckCancel, LeaveCancelled, fixedVars, deviceVars, workerVars,
       writerVars, TypeOK, WriterTypeOK, Outcomes, FaultKinds
  <2>2. ControlTypeOK'
    BY <1>0, <1>4 DEF CheckCancel, LeaveCancelled, fixedVars, deviceVars, workerVars,
       writerVars, TypeOK, ControlTypeOK, MainStates, InLoop, WorkerStates, POOL
  <2> QED
    BY <2>1, <2>2, TypeSplit
<1>5. CASE Recv
  BY <1>0, <1>5 DEF Recv, fixedVars, deviceVars, workerVars, writerVars, TypeOK,
     WriterTypeOK, MainStates, InLoop, WorkerStates, Outcomes, FaultKinds
<1>6. CASE RecvDisconnected
  BY <1>0, <1>6 DEF RecvDisconnected, FilledTx, fixedVars, deviceVars, workerVars,
     writerVars, TypeOK, WriterTypeOK, MainStates, InLoop, WorkerStates, Outcomes,
     FaultKinds
<1>7. CASE JoinEarly
  BY <1>0, <1>7 DEF JoinEarly, fixedVars, deviceVars, workerVars, writerVars, TypeOK,
     WriterTypeOK, MainStates, InLoop, WorkerStates, Outcomes, FaultKinds
<1>8. CASE ProcessContinue
  <2>1. /\ outcome' = "ok" /\ offset' \in Nat /\ total' \in Nat
        /\ disk' \in [Sectors -> Nat \cup {Old}] /\ late' \in Nat
        /\ direct' \in BOOLEAN /\ dirty' \in BOOLEAN /\ faults' = faults
    <3>1. /\ total' = offset + BUF_SIZE /\ offset' = offset + BUF_SIZE
          /\ disk' = CopiedTo(total') /\ outcome' = "ok" /\ late' \in {0, 1}
      BY <1>8, FullChunkEffect DEF ProcessContinue
    <3>2. offset' \in Nat /\ total' \in Nat
      BY <1>0, <3>1 DEF TypeOK, WriterTypeOK
    <3>3. direct' \in BOOLEAN /\ dirty' \in BOOLEAN /\ faults' = faults
      BY <1>0, <1>8 DEF ProcessContinue, FullChunk, Pwrite, TypeOK, WriterTypeOK
    <3> QED
      BY <3>1, <3>2, <3>3, PrefixType
  <2>2. WriterTypeOK'
    BY <1>0, <1>8, <2>1 DEF ProcessContinue, fixedVars, TypeOK, WriterTypeOK, Outcomes
  <2>3. ControlTypeOK'
    BY <1>0, <1>8, <2>1 DEF ProcessContinue, workerVars, TypeOK, ControlTypeOK, MainStates, InLoop
  <2> QED
    BY <2>2, <2>3, TypeSplit
<1>9. CASE ProcessEnd
  <2>1. /\ outcome' \in Outcomes /\ offset' = offset /\ total' \in Nat
        /\ disk' \in [Sectors -> Nat \cup {Old}] /\ late' \in Nat
        /\ faults' \in SUBSET FaultKinds
    <3>1. CASE LastChunk(hand)
      BY <1>0, <1>9, <3>1, LastChunkEffect, PrefixType
         DEF ProcessEnd, TypeOK, WriterTypeOK, Outcomes
    <3>2. CASE ChunkError(hand)
      <4>1. PICK k \in 0 .. DevSize : disk' = CopiedTo(k)
        BY <1>9, <3>2, ChunkErrorEffect DEF ProcessEnd
      <4>2. disk' \in [Sectors -> Nat \cup {Old}]
        BY <4>1, PrefixType
      <4> QED
        BY <1>0, <1>9, <3>2, <4>2, ChunkErrorEffect
           DEF ProcessEnd, TypeOK, WriterTypeOK, Outcomes, FaultKinds
    <3> QED
      BY <1>9, <3>1, <3>2 DEF ProcessEnd
  <2>2. direct' \in BOOLEAN /\ dirty' \in BOOLEAN
    BY <1>0, <1>9 DEF ProcessEnd, LastChunk, ChunkError, EmptyChunk, TailChunk, Pwrite,
       OverCapacity, WriteFault, TailFlagFault, TypeOK, WriterTypeOK
  <2>3. WriterTypeOK'
    BY <1>0, <1>9, <2>1, <2>2 DEF ProcessEnd, fixedVars, TypeOK, WriterTypeOK
  <2>4. ControlTypeOK'
    BY <1>0, <1>9 DEF ProcessEnd, workerVars, TypeOK, ControlTypeOK, MainStates, InLoop
  <2> QED
    BY <2>3, <2>4, TypeSplit
<1>10. CASE ReturnBuffer
  <2>1. WriterTypeOK'
    BY <1>0, <1>10 DEF ReturnBuffer, fixedVars, deviceVars, TypeOK, WriterTypeOK
  <2>2. FreeRx => free + 1 <= POOL
    <3>1. free \in Nat /\ Len(filled) \in Nat
      BY <1>0 DEF TypeOK, POOL
    <3>2. PoolConserved /\ wpc # "unborn"
      BY <1>10 DEF ReturnBuffer, IInv, Flow, InLoop
    <3>3. pc = "return" /\ wpc \in WorkerStates
      BY <1>0, <1>10 DEF ReturnBuffer, TypeOK
    <3>4. FreeRx => Running \/ Leaving
      BY <3>2, <3>3 DEF FreeRx, Running, Leaving, WorkerStates
    <3>5. InUse = Len(filled) + 1
      BY <3>3 DEF InUse
    <3>6. Running => free + InUse <= POOL
      BY <3>1, <3>2, <3>5 DEF PoolConserved, POOL
    <3> QED
      BY <3>1, <3>2, <3>4, <3>5, <3>6 DEF PoolConserved, POOL
  <2>3. ControlTypeOK'
    BY <1>0, <2>2, <1>10 DEF ReturnBuffer, workerVars, TypeOK, ControlTypeOK, MainStates,
       InLoop, POOL
  <2> QED
    BY <2>1, <2>3, TypeSplit
<1>11. CASE Throttle
  <2>1. WriterTypeOK'
    BY <1>0, <1>11 DEF Throttle, LeaveCancelled, fixedVars, deviceVars, workerVars,
       writerVars, TypeOK, WriterTypeOK, Outcomes, FaultKinds
  <2>2. ControlTypeOK'
    BY <1>0, <1>11 DEF Throttle, LeaveCancelled, fixedVars, deviceVars, workerVars,
       writerVars, TypeOK, ControlTypeOK, MainStates, InLoop, WorkerStates, POOL
  <2> QED
    BY <2>1, <2>2, TypeSplit
<1>12. CASE DropFilledRx
  BY <1>0, <1>12 DEF DropFilledRx, fixedVars, deviceVars, workerVars, writerVars,
     TypeOK, WriterTypeOK, MainStates, InLoop, WorkerStates, Outcomes, FaultKinds
<1>13. CASE DropFreeTx
  BY <1>0, <1>13 DEF DropFreeTx, fixedVars, deviceVars, workerVars, writerVars,
     TypeOK, WriterTypeOK, MainStates, InLoop, WorkerStates, Outcomes, FaultKinds
<1>14. CASE Join
  BY <1>0, <1>14 DEF Join, Finish, fixedVars, deviceVars, workerVars, writerVars,
     TypeOK, WriterTypeOK, MainStates, InLoop, WorkerStates, Outcomes, FaultKinds
<1>15. CASE FinalizeMain
  <2>1. WriterTypeOK'
    BY <1>0, <1>15 DEF FinalizeMain, Finalize, ClearDirect, Fdatasync, FinalizeFault,
       Finish, fixedVars, deviceVars, workerVars, writerVars, TypeOK, WriterTypeOK,
       Outcomes, FaultKinds
  <2>2. ControlTypeOK'
    BY <1>0, <1>15 DEF FinalizeMain, Finalize, ClearDirect, Fdatasync, FinalizeFault,
       Finish, fixedVars, deviceVars, workerVars, writerVars, TypeOK, ControlTypeOK,
       MainStates, InLoop, WorkerStates, POOL
  <2> QED
    BY <2>1, <2>2, TypeSplit
<1>16. CASE Acquire
  <2>1. WriterTypeOK'
    BY <1>0, <1>16 DEF Acquire, fixedVars, deviceVars, workerVars, writerVars, TypeOK,
       WriterTypeOK, Outcomes, FaultKinds
  <2>2. ControlTypeOK'
    BY <1>0, <1>16 DEF Acquire, fixedVars, deviceVars, workerVars, writerVars, TypeOK,
       ControlTypeOK, MainStates, InLoop, WorkerStates, POOL
  <2> QED
    BY <2>1, <2>2, TypeSplit
<1>17. CASE AcquireDisconnected
  BY <1>0, <1>17 DEF AcquireDisconnected, FreeTx, FilledRx, fixedVars, deviceVars,
     workerVars, writerVars, TypeOK, WriterTypeOK, MainStates, InLoop, WorkerStates,
     Outcomes, FaultKinds
<1>18. CASE PollMirror
  BY <1>0, <1>18 DEF PollMirror, fixedVars, deviceVars, workerVars, writerVars,
     TypeOK, WriterTypeOK, MainStates, InLoop, WorkerStates, Outcomes, FaultKinds
<1>19. CASE Fill
  <2>1. WriterTypeOK'
    BY <1>0, <1>19 DEF Fill, fixedVars, deviceVars, workerVars, writerVars, TypeOK,
       WriterTypeOK, Outcomes, FaultKinds
  <2>2. /\ item' = [ok |-> TRUE, from |-> pos, n |-> FillAt(pos)]
        /\ pos' = pos + FillAt(pos) /\ wpc' = "send"
        /\ UNCHANGED <<pc, hand, filled, free, mirror>>
    BY <1>19 DEF Fill, writerVars
  <2>3. pos \in Nat /\ FillAt(pos) \in 0 .. BUF_SIZE /\ pos + FillAt(pos) \in Nat
    <3>1. pos \in Nat /\ imageLen \in Nat /\ pos <= imageLen
      BY <1>0 DEF TypeOK, WriterTypeOK, IInv, Stages
    <3> QED
      BY <3>1, FillBounds
  <2>4. item' \in Item
    BY <2>2, <2>3 DEF Item
  <2>5. ControlTypeOK'
    BY <1>0, <2>2, <2>3, <2>4 DEF TypeOK, ControlTypeOK, WorkerStates
  <2> QED
    BY <2>1, <2>5, TypeSplit
<1>20. CASE FillError
  <2>1. WriterTypeOK'
    BY <1>0, <1>20 DEF FillError, fixedVars, deviceVars, workerVars, writerVars, TypeOK,
       WriterTypeOK, Outcomes, FaultKinds
  <2>a. Nothing \in Item
    BY <1>0 DEF Nothing, Item
  <2>2. ControlTypeOK'
    BY <1>0, <1>20, <2>a DEF FillError, fixedVars, deviceVars, workerVars, writerVars,
       TypeOK, ControlTypeOK, MainStates, InLoop, WorkerStates, POOL
  <2> QED
    BY <2>1, <2>2, TypeSplit
<1>21. CASE FillPanic
  BY <1>0, <1>21 DEF FillPanic, fixedVars, deviceVars, workerVars, writerVars, TypeOK,
     WriterTypeOK, MainStates, InLoop, WorkerStates, Outcomes, FaultKinds
<1>22. CASE Send
  BY <1>0, <1>22 DEF Send, FilledRx, fixedVars, deviceVars, workerVars, writerVars,
     TypeOK, WriterTypeOK, MainStates, InLoop, WorkerStates, Outcomes, FaultKinds
<1>23. CASE DropFilledTx
  BY <1>0, <1>23 DEF DropFilledTx, fixedVars, deviceVars, workerVars, writerVars,
     TypeOK, WriterTypeOK, MainStates, InLoop, WorkerStates, Outcomes, FaultKinds
<1>24. CASE DropFreeRx
  <2>1. WriterTypeOK'
    BY <1>0, <1>24 DEF DropFreeRx, fixedVars, deviceVars, workerVars, writerVars, TypeOK,
       WriterTypeOK, Outcomes, FaultKinds
  <2>2. ControlTypeOK'
    BY <1>0, <1>24 DEF DropFreeRx, fixedVars, deviceVars, workerVars, writerVars, TypeOK,
       ControlTypeOK, MainStates, InLoop, WorkerStates, POOL
  <2> QED
    BY <2>1, <2>2, TypeSplit
<1>25. CASE RequestCancel
  BY <1>0, <1>25 DEF RequestCancel, fixedVars, deviceVars, workerVars, writerVars,
     TypeOK, WriterTypeOK, MainStates, InLoop, WorkerStates, Outcomes, FaultKinds
<1>26. CASE Terminated
  BY <1>0, <1>26 DEF Terminated, vars, fixedVars, deviceVars, workerVars, writerVars,
     TypeOK, WriterTypeOK, MainStates, InLoop, WorkerStates, Outcomes, FaultKinds
<1> QED
  BY <1>1, <1>2, <1>3, <1>4, <1>5, <1>6, <1>7, <1>8, <1>9, <1>10, <1>11, <1>12, <1>13,
     <1>14, <1>15, <1>16, <1>17, <1>18, <1>19, <1>20, <1>21, <1>22, <1>23, <1>24,
     <1>25, <1>26 DEF Next, Main, Worker

\* Each thread knows how far the other one is.
LEMMA StagesStep ==
  ASSUME IInv, Next
  PROVE  Stages'
<1>0. TypeOK /\ Stages
  BY DEF IInv
<1>1. CASE Spawn
  BY <1>0, <1>1 DEF Spawn, fixedVars, deviceVars, workerVars, writerVars, TypeOK,
     WriterTypeOK, Stages, MainStates, InLoop, WorkerStates
<1>2. CASE RefuseZeroRate
  BY <1>0, <1>2 DEF RefuseZeroRate, Finish, fixedVars, deviceVars, workerVars,
     writerVars, TypeOK, WriterTypeOK, Stages, MainStates, InLoop, WorkerStates
<1>3. CASE SetupFault
  BY <1>0, <1>3 DEF SetupFault, Finish, fixedVars, deviceVars, workerVars, writerVars,
     TypeOK, WriterTypeOK, Stages, MainStates, InLoop, WorkerStates
<1>4. CASE CheckCancel
  BY <1>0, <1>4 DEF CheckCancel, LeaveCancelled, fixedVars, deviceVars, workerVars,
     writerVars, TypeOK, WriterTypeOK, Stages, MainStates, InLoop, WorkerStates
<1>5. CASE Recv
  BY <1>0, <1>5 DEF Recv, fixedVars, deviceVars, workerVars, writerVars, TypeOK,
     WriterTypeOK, Stages, MainStates, InLoop, WorkerStates
<1>6. CASE RecvDisconnected
  <2>1. /\ pc = "recv" /\ pc' = "join_early" /\ filled = << >>
        /\ wpc \in {"drop_free", "gone"}
        /\ UNCHANGED <<result, wpc, outcome, mirror, faults, imageLen, pos>>
    BY <1>6 DEF RecvDisconnected, FilledTx, fixedVars, workerVars
  <2>2. "panic" \in faults
    BY <2>1 DEF IInv, Flow, InLoop, LastIsFinal, Leaving
  <2> QED
    BY <1>0, <2>1, <2>2 DEF Stages, InLoop
<1>7. CASE JoinEarly
  BY <1>0, <1>7 DEF JoinEarly, fixedVars, deviceVars, workerVars, writerVars, TypeOK,
     WriterTypeOK, Stages, MainStates, InLoop, WorkerStates
<1>8. CASE ProcessContinue
  BY <1>0, <1>8 DEF ProcessContinue, fixedVars, deviceVars, workerVars, writerVars,
     TypeOK, WriterTypeOK, Stages, MainStates, InLoop, WorkerStates
<1>9. CASE ProcessEnd
  BY <1>0, <1>9 DEF ProcessEnd, fixedVars, deviceVars, workerVars, writerVars, TypeOK,
     WriterTypeOK, Stages, MainStates, InLoop, WorkerStates
<1>10. CASE ReturnBuffer
  BY <1>0, <1>10 DEF ReturnBuffer, FreeRx, fixedVars, deviceVars, workerVars,
     writerVars, TypeOK, WriterTypeOK, Stages, MainStates, InLoop, WorkerStates
<1>11. CASE Throttle
  BY <1>0, <1>11 DEF Throttle, LeaveCancelled, fixedVars, deviceVars, workerVars,
     writerVars, TypeOK, WriterTypeOK, Stages, MainStates, InLoop, WorkerStates
<1>12. CASE DropFilledRx
  BY <1>0, <1>12 DEF DropFilledRx, fixedVars, deviceVars, workerVars, writerVars,
     TypeOK, WriterTypeOK, Stages, MainStates, InLoop, WorkerStates
<1>13. CASE DropFreeTx
  BY <1>0, <1>13 DEF DropFreeTx, fixedVars, deviceVars, workerVars, writerVars,
     TypeOK, WriterTypeOK, Stages, MainStates, InLoop, WorkerStates
<1>14. CASE Join
  BY <1>0, <1>14 DEF Join, Finish, fixedVars, deviceVars, workerVars, TypeOK, WriterTypeOK,
     Outcomes, Stages, InLoop
<1>15. CASE FinalizeMain
  BY <1>0, <1>15 DEF FinalizeMain, Finalize, ClearDirect, Fdatasync, FinalizeFault,
     Finish, fixedVars, deviceVars, workerVars, writerVars, TypeOK, WriterTypeOK,
     Stages, MainStates, InLoop, WorkerStates
<1>16. CASE Acquire
  BY <1>0, <1>16 DEF Acquire, fixedVars, deviceVars, workerVars, writerVars, TypeOK,
     WriterTypeOK, Stages, MainStates, InLoop, WorkerStates
<1>17. CASE AcquireDisconnected
  BY <1>0, <1>17 DEF AcquireDisconnected, FreeTx, FilledRx, fixedVars, deviceVars,
     workerVars, writerVars, TypeOK, WriterTypeOK, Stages, MainStates, InLoop,
     WorkerStates
<1>18. CASE PollMirror
  BY <1>0, <1>18 DEF PollMirror, fixedVars, deviceVars, workerVars, writerVars,
     TypeOK, WriterTypeOK, Stages, MainStates, InLoop, WorkerStates
<1>19. CASE Fill
  <2>1. pos' \in Nat /\ pos' <= imageLen /\ imageLen' = imageLen
    BY <1>0, <1>19, FillBounds DEF Fill, writerVars, TypeOK, WriterTypeOK, Stages
  <2> QED
    BY <1>0, <1>19, <2>1 DEF Fill, writerVars, Stages, InLoop
<1>20. CASE FillError
  BY <1>0, <1>20 DEF FillError, fixedVars, deviceVars, workerVars, writerVars, TypeOK,
     WriterTypeOK, Stages, MainStates, InLoop, WorkerStates
<1>21. CASE FillPanic
  BY <1>0, <1>21 DEF FillPanic, fixedVars, deviceVars, workerVars, writerVars, TypeOK,
     WriterTypeOK, Stages, MainStates, InLoop, WorkerStates
<1>22. CASE Send
  BY <1>0, <1>22 DEF Send, FilledRx, fixedVars, deviceVars, workerVars, writerVars,
     TypeOK, WriterTypeOK, Stages, MainStates, InLoop, WorkerStates
<1>23. CASE DropFilledTx
  BY <1>0, <1>23 DEF DropFilledTx, fixedVars, deviceVars, workerVars, writerVars,
     TypeOK, WriterTypeOK, Stages, MainStates, InLoop, WorkerStates
<1>24. CASE DropFreeRx
  BY <1>0, <1>24 DEF DropFreeRx, fixedVars, deviceVars, workerVars, writerVars,
     TypeOK, WriterTypeOK, Stages, MainStates, InLoop, WorkerStates
<1>25. CASE RequestCancel
  BY <1>0, <1>25 DEF RequestCancel, fixedVars, deviceVars, workerVars, writerVars,
     TypeOK, WriterTypeOK, Stages, MainStates, InLoop, WorkerStates
<1>26. CASE Terminated
  BY <1>0, <1>26 DEF Terminated, vars, fixedVars, deviceVars, workerVars, writerVars,
     TypeOK, WriterTypeOK, Stages, MainStates, InLoop, WorkerStates
<1> QED
  BY <1>1, <1>2, <1>3, <1>4, <1>5, <1>6, <1>7, <1>8, <1>9, <1>10, <1>11, <1>12, <1>13,
     <1>14, <1>15, <1>16, <1>17, <1>18, <1>19, <1>20, <1>21, <1>22, <1>23, <1>24,
     <1>25, <1>26 DEF Next, Main, Worker

\* The device keeps holding a prefix of the image.
LEMMA DiskStep ==
  ASSUME IInv, Next
  PROVE  DiskIsPrefix'
<1>0. Stages /\ DiskIsPrefix /\ result \in Outcomes \cup {"running", "panic"}
  BY DEF IInv, TypeOK, WriterTypeOK
<1>1. CASE Spawn
  BY <1>0, <1>1 DEF Spawn, fixedVars, deviceVars, workerVars, writerVars, Stages,
     DiskIsPrefix, CopiedTo, InLoop, Sectors
<1>2. CASE RefuseZeroRate
  BY <1>0, <1>2 DEF RefuseZeroRate, Finish, fixedVars, deviceVars, workerVars,
     writerVars, Stages, DiskIsPrefix, CopiedTo, InLoop, Sectors
<1>3. CASE SetupFault
  BY <1>0, <1>3 DEF SetupFault, Finish, fixedVars, deviceVars, workerVars, writerVars,
     Stages, DiskIsPrefix, CopiedTo, InLoop, Sectors
<1>4. CASE CheckCancel
  BY <1>0, <1>4 DEF CheckCancel, LeaveCancelled, fixedVars, deviceVars, workerVars,
     writerVars, Stages, DiskIsPrefix, CopiedTo, InLoop, Sectors
<1>5. CASE Recv
  BY <1>0, <1>5 DEF Recv, fixedVars, deviceVars, workerVars, writerVars, Stages,
     DiskIsPrefix, CopiedTo, InLoop, Sectors
<1>6. CASE RecvDisconnected
  BY <1>0, <1>6 DEF RecvDisconnected, FilledTx, fixedVars, deviceVars, workerVars,
     writerVars, Stages, DiskIsPrefix, CopiedTo, InLoop, Sectors
<1>7. CASE JoinEarly
  BY <1>0, <1>7 DEF JoinEarly, fixedVars, deviceVars, workerVars, writerVars, Stages,
     DiskIsPrefix, CopiedTo, InLoop, Sectors
<1>8. CASE ProcessContinue
  <2>1. /\ offset' = total' /\ offset' % BUF_SIZE = 0 /\ total' <= imageLen
        /\ total' <= DevSize /\ total' \in Nat /\ disk' = CopiedTo(total')
        /\ imageLen' = imageLen
    BY <1>8, FullChunkEffect, SizesAssumption
       DEF ProcessContinue, fixedVars, IInv, TypeOK, WriterTypeOK, SizesAssumption
  <2>2. total' \in 0 .. DevSize
    BY <2>1, SizesAssumption DEF SizesAssumption
  <2> QED
    BY <2>1, <2>2 DEF DiskIsPrefix, CopiedTo, Sectors
<1>9. CASE ProcessEnd
  <2>1. /\ pc' = "drop_filled" /\ imageLen' = imageLen /\ imageLen \in Nat
        /\ offset % BUF_SIZE = 0
    BY <1>9 DEF ProcessEnd, fixedVars, IInv, DiskIsPrefix, TypeOK, WriterTypeOK
  <2>2. CASE LastChunk(hand)
    <3>1. /\ total' = imageLen /\ total' <= DevSize /\ disk' = CopiedTo(total')
          /\ offset' = offset
      BY <1>9, <2>2, LastChunkEffect DEF ProcessEnd
    <3>2. total' \in 0 .. DevSize /\ total' <= imageLen'
      BY <2>1, <3>1, SizesAssumption DEF SizesAssumption
    <3> QED
      BY <2>1, <3>1, <3>2 DEF DiskIsPrefix, CopiedTo, Sectors, InLoop
  <2>3. CASE ChunkError(hand)
    <3>1. PICK k \in 0 .. DevSize : k <= imageLen /\ disk' = CopiedTo(k)
      BY <1>9, <2>3, ChunkErrorEffect DEF ProcessEnd
    <3>2. offset' = offset /\ outcome' # "ok"
      BY <1>9, <2>3, ChunkErrorEffect DEF ProcessEnd
    <3> QED
      BY <2>1, <3>1, <3>2 DEF DiskIsPrefix, CopiedTo, Sectors, InLoop
  <2> QED
    BY <1>9, <2>2, <2>3 DEF ProcessEnd
<1>10. CASE ReturnBuffer
  BY <1>0, <1>10 DEF ReturnBuffer, FreeRx, fixedVars, deviceVars, workerVars,
     writerVars, Stages, DiskIsPrefix, CopiedTo, InLoop, Sectors
<1>11. CASE Throttle
  BY <1>0, <1>11 DEF Throttle, LeaveCancelled, fixedVars, deviceVars, workerVars,
     writerVars, Stages, DiskIsPrefix, CopiedTo, InLoop, Sectors
<1>12. CASE DropFilledRx
  BY <1>0, <1>12 DEF DropFilledRx, fixedVars, deviceVars, workerVars, writerVars,
     Stages, DiskIsPrefix, CopiedTo, InLoop, Sectors
<1>13. CASE DropFreeTx
  BY <1>0, <1>13 DEF DropFreeTx, fixedVars, deviceVars, workerVars, writerVars,
     Stages, DiskIsPrefix, CopiedTo, InLoop, Sectors
<1>14. CASE Join
  BY <1>0, <1>14 DEF Join, Finish, fixedVars, deviceVars, workerVars, writerVars,
     Stages, DiskIsPrefix, CopiedTo, InLoop, Sectors
<1>15. CASE FinalizeMain
  BY <1>0, <1>15 DEF FinalizeMain, Finalize, ClearDirect, Fdatasync, FinalizeFault,
     Finish, fixedVars, deviceVars, workerVars, writerVars, Stages, DiskIsPrefix,
     CopiedTo, InLoop, Sectors
<1>16. CASE Acquire
  BY <1>0, <1>16 DEF Acquire, fixedVars, deviceVars, workerVars, writerVars, Stages,
     DiskIsPrefix, CopiedTo, InLoop, Sectors
<1>17. CASE AcquireDisconnected
  BY <1>0, <1>17 DEF AcquireDisconnected, FreeTx, FilledRx, fixedVars, deviceVars,
     workerVars, writerVars, Stages, DiskIsPrefix, CopiedTo, InLoop, Sectors
<1>18. CASE PollMirror
  BY <1>0, <1>18 DEF PollMirror, fixedVars, deviceVars, workerVars, writerVars,
     Stages, DiskIsPrefix, CopiedTo, InLoop, Sectors
<1>19. CASE Fill
  BY <1>0, <1>19 DEF Fill, fixedVars, deviceVars, workerVars, writerVars, Stages,
     DiskIsPrefix, CopiedTo, InLoop, Sectors
<1>20. CASE FillError
  BY <1>0, <1>20 DEF FillError, fixedVars, deviceVars, workerVars, writerVars, Stages,
     DiskIsPrefix, CopiedTo, InLoop, Sectors
<1>21. CASE FillPanic
  BY <1>0, <1>21 DEF FillPanic, fixedVars, deviceVars, workerVars, writerVars, Stages,
     DiskIsPrefix, CopiedTo, InLoop, Sectors
<1>22. CASE Send
  BY <1>0, <1>22 DEF Send, FilledRx, fixedVars, deviceVars, workerVars, writerVars,
     Stages, DiskIsPrefix, CopiedTo, InLoop, Sectors
<1>23. CASE DropFilledTx
  BY <1>0, <1>23 DEF DropFilledTx, fixedVars, deviceVars, workerVars, writerVars,
     Stages, DiskIsPrefix, CopiedTo, InLoop, Sectors
<1>24. CASE DropFreeRx
  BY <1>0, <1>24 DEF DropFreeRx, fixedVars, deviceVars, workerVars, writerVars,
     Stages, DiskIsPrefix, CopiedTo, InLoop, Sectors
<1>25. CASE RequestCancel
  BY <1>0, <1>25 DEF RequestCancel, fixedVars, deviceVars, workerVars, writerVars,
     Stages, DiskIsPrefix, CopiedTo, InLoop, Sectors
<1>26. CASE Terminated
  BY <1>0, <1>26 DEF Terminated, vars, fixedVars, deviceVars, workerVars, writerVars,
     Stages, DiskIsPrefix, CopiedTo, InLoop, Sectors
<1> QED
  BY <1>1, <1>2, <1>3, <1>4, <1>5, <1>6, <1>7, <1>8, <1>9, <1>10, <1>11, <1>12, <1>13,
     <1>14, <1>15, <1>16, <1>17, <1>18, <1>19, <1>20, <1>21, <1>22, <1>23, <1>24,
     <1>25, <1>26 DEF Next, Main, Worker

\* A write loop that ends well has written the whole image.
LEMMA OutcomeStep ==
  ASSUME IInv, Next
  PROVE  LoopOutcome'
<1>0. TypeOK /\ Stages /\ Flow /\ LoopOutcome
  BY DEF IInv
<1>1. CASE Spawn
  BY <1>0, <1>1 DEF Spawn, fixedVars, deviceVars, workerVars, writerVars, TypeOK,
     WriterTypeOK, Stages, LoopOutcome, Cleanup, Leaving, Running, InLoop
<1>2. CASE RefuseZeroRate
  BY <1>0, <1>2 DEF RefuseZeroRate, Finish, fixedVars, deviceVars, workerVars,
     writerVars, TypeOK, WriterTypeOK, Stages, LoopOutcome, Cleanup, Leaving, Running,
     InLoop
<1>3. CASE SetupFault
  BY <1>0, <1>3 DEF SetupFault, Finish, fixedVars, deviceVars, workerVars, writerVars,
     TypeOK, WriterTypeOK, Stages, LoopOutcome, Cleanup, Leaving, Running, InLoop
<1>4. CASE CheckCancel
  BY <1>0, <1>4 DEF CheckCancel, LeaveCancelled, fixedVars, deviceVars, workerVars,
     writerVars, TypeOK, WriterTypeOK, Stages, LoopOutcome, Cleanup, Leaving, Running,
     InLoop
<1>5. CASE Recv
  <2>1. CASE Head(filled).ok
    BY <1>0, <1>5, <2>1 DEF Recv, fixedVars, workerVars, LoopOutcome, Cleanup, Leaving
  <2>2. CASE ~Head(filled).ok
    <3>1. InOrder /\ filled \in Seq(Item)
      BY <1>0, <1>5 DEF Recv, Flow, InLoop, TypeOK
    <3>2. Genuine(filled[1], Front) /\ ~filled[1].ok
      BY <1>5, <2>2, <3>1, TakeFirst DEF Recv, InOrder
    <3> QED
      BY <1>0, <1>5, <2>2, <3>2 DEF Recv, fixedVars, Genuine, LoopOutcome, Cleanup
  <2> QED
    BY <2>1, <2>2
<1>6. CASE RecvDisconnected
  BY <1>0, <1>6 DEF RecvDisconnected, FilledTx, fixedVars, deviceVars, workerVars,
     writerVars, TypeOK, WriterTypeOK, Stages, LoopOutcome, Cleanup, Leaving, Running,
     InLoop
<1>7. CASE JoinEarly
  BY <1>0, <1>7 DEF JoinEarly, fixedVars, deviceVars, workerVars, writerVars, TypeOK,
     WriterTypeOK, Stages, LoopOutcome, Cleanup, Leaving, Running, InLoop
<1>8. CASE ProcessContinue
  BY <1>8, FullChunkEffect DEF ProcessContinue, LoopOutcome, Cleanup
<1>9. CASE ProcessEnd
  <2>1. /\ pc = "chunk" /\ pc' = "drop_filled" /\ UNCHANGED <<imageLen, cancel, wpc>>
    BY <1>9 DEF ProcessEnd, fixedVars, workerVars
  <2>2. CASE LastChunk(hand)
    <3>1. total' = imageLen /\ outcome' = "ok" /\ faults' = faults
      BY <1>9, <2>2, LastChunkEffect DEF ProcessEnd
    <3>2. "panic" \notin faults => Leaving /\ faults = {}
      <4>1. LastIsFinal /\ hand.ok /\ wpc # "unborn" /\ wpc \in WorkerStates
            /\ faults \in SUBSET FaultKinds
        BY <1>0, <2>1 DEF Flow, InLoop, InOrder, TypeOK, WriterTypeOK
      <4>2. ~MoreAfter(hand)
        <5>1. CASE EmptyChunk(hand)
          BY <5>1, SizesAssumption DEF EmptyChunk, MoreAfter, SizesAssumption
        <5>2. CASE TailChunk(hand)
          <6>1. hand.n < BUF_SIZE /\ BUF_SIZE \in Nat
            BY <5>2, SizesAssumption DEF TailChunk, SizesAssumption
          <6>2. hand.n # BUF_SIZE
            BY <6>1
          <6> QED
            BY <6>2 DEF MoreAfter
        <5> QED
          BY <2>2, <5>1, <5>2 DEF LastChunk
      <4>3. ~Running /\ filled = << >>
        BY <2>1, <4>1, <4>2 DEF LastIsFinal
      <4>4. Leaving
        BY <4>1, <4>3 DEF Running, Leaving, WorkerStates
      <4>5. "reader" \notin faults
        BY <4>1, <4>3 DEF LastIsFinal, Running
      <4> QED
        BY <4>1, <4>4, <4>5 DEF LastIsFinal, FaultKinds
    <3> QED
      BY <2>1, <3>1, <3>2 DEF LoopOutcome, Leaving
  <2>3. CASE ChunkError(hand)
    BY <1>9, <2>1, <2>3, ChunkErrorEffect DEF ProcessEnd, LoopOutcome
  <2> QED
    BY <1>9, <2>2, <2>3 DEF ProcessEnd
<1>10. CASE ReturnBuffer
  BY <1>0, <1>10 DEF ReturnBuffer, FreeRx, fixedVars, deviceVars, workerVars,
     writerVars, TypeOK, WriterTypeOK, Stages, LoopOutcome, Cleanup, Leaving, Running,
     InLoop
<1>11. CASE Throttle
  BY <1>0, <1>11 DEF Throttle, LeaveCancelled, fixedVars, deviceVars, workerVars,
     writerVars, TypeOK, WriterTypeOK, Stages, LoopOutcome, Cleanup, Leaving, Running,
     InLoop
<1>12. CASE DropFilledRx
  BY <1>0, <1>12 DEF DropFilledRx, fixedVars, deviceVars, workerVars, writerVars,
     TypeOK, WriterTypeOK, Stages, LoopOutcome, Cleanup, Leaving, Running, InLoop
<1>13. CASE DropFreeTx
  BY <1>0, <1>13 DEF DropFreeTx, fixedVars, deviceVars, workerVars, writerVars,
     TypeOK, WriterTypeOK, Stages, LoopOutcome, Cleanup, Leaving, Running, InLoop
<1>14. CASE Join
  BY <1>0, <1>14 DEF Join, Finish, fixedVars, deviceVars, workerVars, writerVars,
     TypeOK, WriterTypeOK, Stages, LoopOutcome, Cleanup, Leaving, Running, InLoop
<1>15. CASE FinalizeMain
  BY <1>0, <1>15 DEF FinalizeMain, Finalize, ClearDirect, Fdatasync, FinalizeFault,
     Finish, fixedVars, deviceVars, workerVars, writerVars, TypeOK, WriterTypeOK,
     Stages, LoopOutcome, Cleanup, Leaving, Running, InLoop
<1>16. CASE Acquire
  BY <1>0, <1>16 DEF Acquire, fixedVars, deviceVars, workerVars, writerVars, TypeOK,
     WriterTypeOK, Stages, LoopOutcome, Cleanup, Leaving, Running, InLoop
<1>17. CASE AcquireDisconnected
  BY <1>0, <1>17 DEF AcquireDisconnected, FreeTx, FilledRx, fixedVars, deviceVars,
     workerVars, writerVars, TypeOK, WriterTypeOK, Stages, LoopOutcome, Cleanup,
     Leaving, Running, InLoop
<1>18. CASE PollMirror
  BY <1>0, <1>18 DEF PollMirror, fixedVars, deviceVars, workerVars, writerVars,
     TypeOK, WriterTypeOK, Stages, LoopOutcome, Cleanup, Leaving, Running, InLoop
<1>19. CASE Fill
  BY <1>0, <1>19 DEF Fill, fixedVars, deviceVars, workerVars, writerVars, TypeOK,
     WriterTypeOK, Stages, LoopOutcome, Cleanup, Leaving, Running, InLoop
<1>20. CASE FillError
  BY <1>0, <1>20 DEF FillError, fixedVars, deviceVars, workerVars, writerVars, TypeOK,
     WriterTypeOK, Stages, LoopOutcome, Cleanup, Leaving, Running, InLoop
<1>21. CASE FillPanic
  BY <1>0, <1>21 DEF FillPanic, fixedVars, deviceVars, workerVars, writerVars, TypeOK,
     WriterTypeOK, Stages, LoopOutcome, Cleanup, Leaving, Running, InLoop
<1>22. CASE Send
  BY <1>0, <1>22 DEF Send, FilledRx, fixedVars, deviceVars, workerVars, writerVars,
     TypeOK, WriterTypeOK, Stages, LoopOutcome, Cleanup, Leaving, Running, InLoop
<1>23. CASE DropFilledTx
  BY <1>0, <1>23 DEF DropFilledTx, fixedVars, deviceVars, workerVars, writerVars,
     TypeOK, WriterTypeOK, Stages, LoopOutcome, Cleanup, Leaving, Running, InLoop
<1>24. CASE DropFreeRx
  BY <1>0, <1>24 DEF DropFreeRx, fixedVars, deviceVars, workerVars, writerVars,
     TypeOK, WriterTypeOK, Stages, LoopOutcome, Cleanup, Leaving, Running, InLoop
<1>25. CASE RequestCancel
  BY <1>0, <1>25 DEF RequestCancel, fixedVars, deviceVars, workerVars, writerVars,
     TypeOK, WriterTypeOK, Stages, LoopOutcome, Cleanup, Leaving, Running, InLoop
<1>26. CASE Terminated
  BY <1>0, <1>26 DEF Terminated, vars, fixedVars, deviceVars, workerVars, writerVars,
     TypeOK, WriterTypeOK, Stages, LoopOutcome, Cleanup, Leaving, Running, InLoop
<1> QED
  BY <1>1, <1>2, <1>3, <1>4, <1>5, <1>6, <1>7, <1>8, <1>9, <1>10, <1>11, <1>12, <1>13,
     <1>14, <1>15, <1>16, <1>17, <1>18, <1>19, <1>20, <1>21, <1>22, <1>23, <1>24,
     <1>25, <1>26 DEF Next, Main, Worker

\* At most one chunk is written after the flag was set.
LEMMA CancelStep ==
  ASSUME IInv, Next
  PROVE  CancelBound'
<1>0. TypeOK /\ Stages /\ CancelBound
  BY DEF IInv
<1>1. CASE Spawn
  BY <1>0, <1>1 DEF Spawn, fixedVars, deviceVars, workerVars, writerVars, TypeOK,
     WriterTypeOK, Stages, CancelBound, InLoop
<1>2. CASE RefuseZeroRate
  BY <1>0, <1>2 DEF RefuseZeroRate, Finish, fixedVars, deviceVars, workerVars,
     writerVars, TypeOK, WriterTypeOK, Stages, CancelBound, InLoop
<1>3. CASE SetupFault
  BY <1>0, <1>3 DEF SetupFault, Finish, fixedVars, deviceVars, workerVars, writerVars,
     TypeOK, WriterTypeOK, Stages, CancelBound, InLoop
<1>4. CASE CheckCancel
  BY <1>0, <1>4 DEF CheckCancel, LeaveCancelled, fixedVars, deviceVars, workerVars,
     writerVars, TypeOK, WriterTypeOK, Stages, CancelBound, InLoop
<1>5. CASE Recv
  BY <1>0, <1>5 DEF Recv, fixedVars, deviceVars, workerVars, writerVars, TypeOK,
     WriterTypeOK, Stages, CancelBound, InLoop
<1>6. CASE RecvDisconnected
  BY <1>0, <1>6 DEF RecvDisconnected, FilledTx, fixedVars, deviceVars, workerVars,
     writerVars, TypeOK, WriterTypeOK, Stages, CancelBound, InLoop
<1>7. CASE JoinEarly
  BY <1>0, <1>7 DEF JoinEarly, fixedVars, deviceVars, workerVars, writerVars, TypeOK,
     WriterTypeOK, Stages, CancelBound, InLoop
<1>8. CASE ProcessContinue
  BY <1>8, FullChunkEffect DEF ProcessContinue, CancelBound
<1>9. CASE ProcessEnd
  <2>1. pc = "chunk" /\ pc' = "drop_filled" /\ cancel' = cancel /\ late = 0
    BY <1>0, <1>9 DEF ProcessEnd, CancelBound
  <2>2. CASE LastChunk(hand)
    BY <1>9, <2>1, <2>2, LastChunkEffect DEF ProcessEnd, CancelBound
  <2>3. CASE ChunkError(hand)
    BY <1>9, <2>1, <2>3, ChunkErrorEffect DEF ProcessEnd, CancelBound
  <2> QED
    BY <1>9, <2>2, <2>3 DEF ProcessEnd
<1>10. CASE ReturnBuffer
  BY <1>0, <1>10 DEF ReturnBuffer, FreeRx, fixedVars, deviceVars, workerVars,
     writerVars, TypeOK, WriterTypeOK, Stages, CancelBound, InLoop
<1>11. CASE Throttle
  BY <1>0, <1>11 DEF Throttle, LeaveCancelled, fixedVars, deviceVars, workerVars,
     writerVars, TypeOK, WriterTypeOK, Stages, CancelBound, InLoop
<1>12. CASE DropFilledRx
  BY <1>0, <1>12 DEF DropFilledRx, fixedVars, deviceVars, workerVars, writerVars,
     TypeOK, WriterTypeOK, Stages, CancelBound, InLoop
<1>13. CASE DropFreeTx
  BY <1>0, <1>13 DEF DropFreeTx, fixedVars, deviceVars, workerVars, writerVars,
     TypeOK, WriterTypeOK, Stages, CancelBound, InLoop
<1>14. CASE Join
  BY <1>0, <1>14 DEF Join, Finish, fixedVars, deviceVars, workerVars, writerVars,
     TypeOK, WriterTypeOK, Stages, CancelBound, InLoop
<1>15. CASE FinalizeMain
  BY <1>0, <1>15 DEF FinalizeMain, Finalize, ClearDirect, Fdatasync, FinalizeFault,
     Finish, fixedVars, deviceVars, workerVars, writerVars, TypeOK, WriterTypeOK,
     Stages, CancelBound, InLoop
<1>16. CASE Acquire
  BY <1>0, <1>16 DEF Acquire, fixedVars, deviceVars, workerVars, writerVars, TypeOK,
     WriterTypeOK, Stages, CancelBound, InLoop
<1>17. CASE AcquireDisconnected
  BY <1>0, <1>17 DEF AcquireDisconnected, FreeTx, FilledRx, fixedVars, deviceVars,
     workerVars, writerVars, TypeOK, WriterTypeOK, Stages, CancelBound, InLoop
<1>18. CASE PollMirror
  BY <1>0, <1>18 DEF PollMirror, fixedVars, deviceVars, workerVars, writerVars,
     TypeOK, WriterTypeOK, Stages, CancelBound, InLoop
<1>19. CASE Fill
  BY <1>0, <1>19 DEF Fill, fixedVars, deviceVars, workerVars, writerVars, TypeOK,
     WriterTypeOK, Stages, CancelBound, InLoop
<1>20. CASE FillError
  BY <1>0, <1>20 DEF FillError, fixedVars, deviceVars, workerVars, writerVars, TypeOK,
     WriterTypeOK, Stages, CancelBound, InLoop
<1>21. CASE FillPanic
  BY <1>0, <1>21 DEF FillPanic, fixedVars, deviceVars, workerVars, writerVars, TypeOK,
     WriterTypeOK, Stages, CancelBound, InLoop
<1>22. CASE Send
  BY <1>0, <1>22 DEF Send, FilledRx, fixedVars, deviceVars, workerVars, writerVars,
     TypeOK, WriterTypeOK, Stages, CancelBound, InLoop
<1>23. CASE DropFilledTx
  BY <1>0, <1>23 DEF DropFilledTx, fixedVars, deviceVars, workerVars, writerVars,
     TypeOK, WriterTypeOK, Stages, CancelBound, InLoop
<1>24. CASE DropFreeRx
  BY <1>0, <1>24 DEF DropFreeRx, fixedVars, deviceVars, workerVars, writerVars,
     TypeOK, WriterTypeOK, Stages, CancelBound, InLoop
<1>25. CASE RequestCancel
  BY <1>0, <1>25 DEF RequestCancel, fixedVars, deviceVars, workerVars, writerVars,
     TypeOK, WriterTypeOK, Stages, CancelBound, InLoop
<1>26. CASE Terminated
  BY <1>0, <1>26 DEF Terminated, vars, fixedVars, deviceVars, workerVars, writerVars,
     TypeOK, WriterTypeOK, Stages, CancelBound, InLoop
<1> QED
  BY <1>1, <1>2, <1>3, <1>4, <1>5, <1>6, <1>7, <1>8, <1>9, <1>10, <1>11, <1>12, <1>13,
     <1>14, <1>15, <1>16, <1>17, <1>18, <1>19, <1>20, <1>21, <1>22, <1>23, <1>24,
     <1>25, <1>26 DEF Next, Main, Worker

\* What the phase returns keeps its word.
LEMMA PromisesStep ==
  ASSUME IInv, Next
  PROVE  SuccessIsDurableImage' /\ FailureHasCause' /\ WorkerSettled'
<1>0. /\ Stages /\ DiskIsPrefix /\ LoopOutcome
      /\ SuccessIsDurableImage /\ FailureHasCause /\ WorkerSettled
  BY DEF IInv
<1>1. CASE Spawn
  BY <1>0, <1>1 DEF Spawn, fixedVars, deviceVars, workerVars, writerVars, Stages,
     DiskIsPrefix, LoopOutcome, Cleanup, CopiedTo, InLoop, SuccessIsDurableImage,
     FailureHasCause, WorkerSettled
<1>2. CASE RefuseZeroRate
  BY <1>0, <1>2 DEF RefuseZeroRate, Finish, fixedVars, deviceVars, workerVars,
     writerVars, Stages, DiskIsPrefix, LoopOutcome, Cleanup, CopiedTo, InLoop,
     SuccessIsDurableImage, FailureHasCause, WorkerSettled
<1>3. CASE SetupFault
  BY <1>0, <1>3 DEF SetupFault, Finish, fixedVars, deviceVars, workerVars, writerVars,
     Stages, DiskIsPrefix, LoopOutcome, Cleanup, CopiedTo, InLoop,
     SuccessIsDurableImage, FailureHasCause, WorkerSettled
<1>4. CASE CheckCancel
  BY <1>0, <1>4 DEF CheckCancel, LeaveCancelled, fixedVars, deviceVars, workerVars,
     writerVars, Stages, DiskIsPrefix, LoopOutcome, Cleanup, CopiedTo, InLoop,
     SuccessIsDurableImage, FailureHasCause, WorkerSettled
<1>5. CASE Recv
  BY <1>0, <1>5 DEF Recv, fixedVars, deviceVars, workerVars, writerVars, Stages,
     DiskIsPrefix, LoopOutcome, Cleanup, CopiedTo, InLoop, SuccessIsDurableImage,
     FailureHasCause, WorkerSettled
<1>6. CASE RecvDisconnected
  BY <1>0, <1>6 DEF RecvDisconnected, FilledTx, fixedVars, deviceVars, workerVars,
     writerVars, Stages, DiskIsPrefix, LoopOutcome, Cleanup, CopiedTo, InLoop,
     SuccessIsDurableImage, FailureHasCause, WorkerSettled
<1>7. CASE JoinEarly
  BY <1>0, <1>7 DEF JoinEarly, fixedVars, deviceVars, workerVars, writerVars, Stages,
     DiskIsPrefix, LoopOutcome, Cleanup, CopiedTo, InLoop, SuccessIsDurableImage,
     FailureHasCause, WorkerSettled
<1>8. CASE ProcessContinue
  BY <1>0, <1>8 DEF ProcessContinue, fixedVars, deviceVars, workerVars, writerVars,
     Stages, DiskIsPrefix, LoopOutcome, Cleanup, CopiedTo, InLoop,
     SuccessIsDurableImage, FailureHasCause, WorkerSettled
<1>9. CASE ProcessEnd
  BY <1>0, <1>9 DEF ProcessEnd, fixedVars, deviceVars, workerVars, writerVars, Stages,
     DiskIsPrefix, LoopOutcome, Cleanup, CopiedTo, InLoop, SuccessIsDurableImage,
     FailureHasCause, WorkerSettled
<1>10. CASE ReturnBuffer
  BY <1>0, <1>10 DEF ReturnBuffer, FreeRx, fixedVars, deviceVars, workerVars,
     writerVars, Stages, DiskIsPrefix, LoopOutcome, Cleanup, CopiedTo, InLoop,
     SuccessIsDurableImage, FailureHasCause, WorkerSettled
<1>11. CASE Throttle
  BY <1>0, <1>11 DEF Throttle, LeaveCancelled, fixedVars, deviceVars, workerVars,
     writerVars, Stages, DiskIsPrefix, LoopOutcome, Cleanup, CopiedTo, InLoop,
     SuccessIsDurableImage, FailureHasCause, WorkerSettled
<1>12. CASE DropFilledRx
  BY <1>0, <1>12 DEF DropFilledRx, fixedVars, deviceVars, workerVars, writerVars,
     Stages, DiskIsPrefix, LoopOutcome, Cleanup, CopiedTo, InLoop,
     SuccessIsDurableImage, FailureHasCause, WorkerSettled
<1>13. CASE DropFreeTx
  BY <1>0, <1>13 DEF DropFreeTx, fixedVars, deviceVars, workerVars, writerVars,
     Stages, DiskIsPrefix, LoopOutcome, Cleanup, CopiedTo, InLoop,
     SuccessIsDurableImage, FailureHasCause, WorkerSettled
<1>14. CASE Join
  <2>1. outcome \in Outcomes /\ result = "running" /\ pc = "join" /\ wpc = "gone"
    BY <1>0, <1>14 DEF Join, Stages, IInv, TypeOK, WriterTypeOK
  <2>2. CASE result' = "running"
    BY <1>0, <1>14, <2>1, <2>2
       DEF Join, SuccessIsDurableImage, FailureHasCause, WorkerSettled
  <2>3. CASE "panic" \in faults /\ result' = "panic"
    BY <1>0, <1>14, <2>1, <2>3
       DEF Join, workerVars, SuccessIsDurableImage, FailureHasCause, WorkerSettled
  <2>4. CASE "panic" \notin faults /\ outcome # "ok" /\ result' = outcome
    BY <1>0, <1>14, <2>1, <2>4
       DEF Join, fixedVars, workerVars, Outcomes, LoopOutcome, SuccessIsDurableImage,
           FailureHasCause, WorkerSettled
  <2> QED
    BY <1>14, <2>1, <2>2, <2>3, <2>4 DEF Join, Finish
<1>15. CASE FinalizeMain
  BY <1>0, <1>15 DEF FinalizeMain, Finalize, ClearDirect, Fdatasync, FinalizeFault,
     Finish, fixedVars, deviceVars, workerVars, writerVars, Stages, DiskIsPrefix,
     LoopOutcome, Cleanup, CopiedTo, InLoop, SuccessIsDurableImage, FailureHasCause,
     WorkerSettled
<1>16. CASE Acquire
  BY <1>0, <1>16 DEF Acquire, fixedVars, deviceVars, workerVars, writerVars, Stages,
     DiskIsPrefix, LoopOutcome, Cleanup, CopiedTo, InLoop, SuccessIsDurableImage,
     FailureHasCause, WorkerSettled
<1>17. CASE AcquireDisconnected
  BY <1>0, <1>17 DEF AcquireDisconnected, FreeTx, FilledRx, fixedVars, deviceVars,
     workerVars, writerVars, Stages, DiskIsPrefix, LoopOutcome, Cleanup, CopiedTo,
     InLoop, SuccessIsDurableImage, FailureHasCause, WorkerSettled
<1>18. CASE PollMirror
  BY <1>0, <1>18 DEF PollMirror, fixedVars, deviceVars, workerVars, writerVars,
     Stages, DiskIsPrefix, LoopOutcome, Cleanup, CopiedTo, InLoop,
     SuccessIsDurableImage, FailureHasCause, WorkerSettled
<1>19. CASE Fill
  BY <1>0, <1>19 DEF Fill, fixedVars, deviceVars, workerVars, writerVars, Stages,
     DiskIsPrefix, LoopOutcome, Cleanup, CopiedTo, InLoop, SuccessIsDurableImage,
     FailureHasCause, WorkerSettled
<1>20. CASE FillError
  BY <1>0, <1>20 DEF FillError, fixedVars, deviceVars, workerVars, writerVars, Stages,
     DiskIsPrefix, LoopOutcome, Cleanup, CopiedTo, InLoop, SuccessIsDurableImage,
     FailureHasCause, WorkerSettled
<1>21. CASE FillPanic
  BY <1>0, <1>21 DEF FillPanic, fixedVars, deviceVars, workerVars, writerVars, Stages,
     DiskIsPrefix, LoopOutcome, Cleanup, CopiedTo, InLoop, SuccessIsDurableImage,
     FailureHasCause, WorkerSettled
<1>22. CASE Send
  BY <1>0, <1>22 DEF Send, FilledRx, fixedVars, deviceVars, workerVars, writerVars,
     Stages, DiskIsPrefix, LoopOutcome, Cleanup, CopiedTo, InLoop,
     SuccessIsDurableImage, FailureHasCause, WorkerSettled
<1>23. CASE DropFilledTx
  BY <1>0, <1>23 DEF DropFilledTx, fixedVars, deviceVars, workerVars, writerVars,
     Stages, DiskIsPrefix, LoopOutcome, Cleanup, CopiedTo, InLoop,
     SuccessIsDurableImage, FailureHasCause, WorkerSettled
<1>24. CASE DropFreeRx
  BY <1>0, <1>24 DEF DropFreeRx, fixedVars, deviceVars, workerVars, writerVars,
     Stages, DiskIsPrefix, LoopOutcome, Cleanup, CopiedTo, InLoop,
     SuccessIsDurableImage, FailureHasCause, WorkerSettled
<1>25. CASE RequestCancel
  BY <1>0, <1>25 DEF RequestCancel, fixedVars, deviceVars, workerVars, writerVars,
     Stages, DiskIsPrefix, LoopOutcome, Cleanup, CopiedTo, InLoop,
     SuccessIsDurableImage, FailureHasCause, WorkerSettled
<1>26. CASE Terminated
  BY <1>0, <1>26 DEF Terminated, vars, fixedVars, deviceVars, workerVars, writerVars,
     Stages, DiskIsPrefix, LoopOutcome, Cleanup, CopiedTo, InLoop,
     SuccessIsDurableImage, FailureHasCause, WorkerSettled
<1> QED
  BY <1>1, <1>2, <1>3, <1>4, <1>5, <1>6, <1>7, <1>8, <1>9, <1>10, <1>11, <1>12, <1>13,
     <1>14, <1>15, <1>16, <1>17, <1>18, <1>19, <1>20, <1>21, <1>22, <1>23, <1>24,
     <1>25, <1>26 DEF Next, Main, Worker
-----------------------------------------------------------------------------
(* The invariant. *)

\* The strengthened invariant holds before the first step.
LEMMA InitInv == Init => IInv
<1> SUFFICES ASSUME Init PROVE IInv
  OBVIOUS
<1> USE SizesAssumption DEF SizesAssumption
<1>1. pc = "setup" /\ wpc = "unborn" /\ result = "running" /\ outcome = "ok"
  BY DEF Init, WriterInit
<1>2. WriterTypeOK
  BY DEF Init, WriterInit, WriterTypeOK, Sectors, Throttles, FaultKinds, Outcomes
<1>3. TypeOK
  <2>1. Nothing \in Item /\ << >> \in Seq(Item)
    BY DEF Nothing, Item
  <2> QED
    <3>1. /\ hand = Nothing /\ filled = << >> /\ free = 0 /\ mirror = FALSE
          /\ pos = 0 /\ item = Nothing
      BY DEF Init
    <3>2. hand \in Item /\ item \in Item /\ filled \in Seq(Item)
      BY <2>1, <3>1, Zenon
    <3>3. pc \in MainStates /\ wpc \in WorkerStates
      BY <1>1 DEF MainStates, WorkerStates
    <3>4. free \in 0 .. POOL /\ pos \in Nat
      BY <3>1 DEF POOL
    <3>5. mirror \in BOOLEAN
      BY <3>1, Zenon
    <3> QED
      BY <1>2, <3>2, <3>3, <3>4, <3>5 DEF TypeOK
<1>4. Stages
  BY DEF Init, WriterInit, Stages, InLoop
<1>5. DiskIsPrefix
  <2>1. disk = CopiedTo(0)
    BY DEF Init, WriterInit, CopiedTo, Sectors
  <2>2. total = 0 /\ offset = 0 /\ 0 <= imageLen /\ 0 \in 0 .. DevSize
    BY <1>2 DEF Init, WriterInit, WriterTypeOK
  <2>3. offset % BUF_SIZE = 0
    BY <2>2
  <2> QED
    BY <2>1, <2>2, <2>3 DEF DiskIsPrefix
<1>6. Flow /\ LoopOutcome /\ CancelBound
  BY <1>1 DEF Init, WriterInit, Flow, InLoop, LoopOutcome, Cleanup, CancelBound
<1>7. SuccessIsDurableImage /\ FailureHasCause /\ WorkerSettled
  BY <1>1 DEF SuccessIsDurableImage, FailureHasCause, WorkerSettled
<1> QED
  BY <1>3, <1>4, <1>5, <1>6, <1>7 DEF IInv

\* Every step of either thread, or of the caller, keeps it.
LEMMA StepInv == IInv /\ [Next]_vars => IInv'
<1> SUFFICES ASSUME IInv, [Next]_vars PROVE IInv'
  OBVIOUS
<1>1. CASE Next
  <2>1. Flow'
    BY <1>1, FlowStep DEF Flow
  <2> QED
    BY <1>1, <2>1, TypeStep, StagesStep, DiskStep, OutcomeStep, CancelStep, PromisesStep
       DEF IInv
<1>2. CASE UNCHANGED vars
  <2> USE <1>2 DEF IInv, vars, writerVars, workerVars
  <2>1. TypeOK'
    BY DEF TypeOK, WriterTypeOK
  <2>2. Stages'
    BY DEF Stages
  <2>3. DiskIsPrefix'
    BY DEF DiskIsPrefix, CopiedTo
  <2>4. InOrder' = InOrder /\ LastIsFinal' = LastIsFinal /\ PoolConserved' = PoolConserved
    BY DEF InOrder, Held, Front, Queued, Sending, Genuine, FillAt, LastIsFinal, Running,
           Leaving, MoreAfter, PoolConserved, InUse
  <2>5. Flow'
    BY <2>4 DEF Flow
  <2>6. LoopOutcome' /\ CancelBound'
    BY DEF LoopOutcome, Cleanup, Leaving, CancelBound
  <2>7. SuccessIsDurableImage' /\ FailureHasCause' /\ WorkerSettled'
    BY DEF SuccessIsDurableImage, FailureHasCause, WorkerSettled
  <2> QED
    BY <2>1, <2>2, <2>3, <2>5, <2>6, <2>7
<1> QED
  BY <1>1, <1>2

\* The strengthened invariant holds in every reachable state.
THEOREM Invariance == Spec => []IInv
<1> QED
  BY InitInv, StepInv, PTL DEF Spec

\* Both threads keep every variable in its type; free never exceeds the pool.
THEOREM TypeCorrect == Spec => []TypeOK
<1>1. IInv => TypeOK
  BY DEF IInv
<1> QED
  BY <1>1, Invariance, PTL

\* run returning Ok means a complete, durable, unharmed image on the device.
THEOREM SuccessMeansImage == Spec => []SuccessIsDurableImage
<1>1. IInv => SuccessIsDurableImage
  BY DEF IInv
<1> QED
  BY <1>1, Invariance, PTL

\* flash_pipelined reports no error that the environment did not cause; the
\* protocol-violation branch of the recv disconnect is dead.
THEOREM FailureIsCaused == Spec => []FailureHasCause
<1>1. IInv => FailureHasCause
  BY DEF IInv
<1> QED
  BY <1>1, Invariance, PTL

\* The two polls of the cancel flag admit at most one write after it was set.
THEOREM CancelIsPrompt == Spec => []CancelStopsWriting
<1>1. IInv => CancelStopsWriting
  BY DEF IInv, CancelBound, CancelStopsWriting
<1> QED
  BY <1>1, Invariance, PTL

\* The two threads never wait for each other: two buffers are enough, and the
\* channel halves are dropped before the join.
THEOREM NoDeadlock == Spec => []NeverBothParked
<1>1. IInv => NeverBothParked
  <2> SUFFICES ASSUME IInv, MainParked, WorkerParked PROVE FALSE
    BY DEF NeverBothParked
  <2>1. CASE pc = "recv" /\ filled = << >>
    <3>1. PoolConserved /\ Len(filled) = 0
      BY <2>1 DEF IInv, Flow, InLoop
    <3>2. InUse = 0
      BY <2>1, <3>1 DEF InUse
    <3> QED
      BY <3>1, <3>2 DEF WorkerParked, PoolConserved, Running, POOL
  <2>2. CASE pc = "join"
    BY <2>2 DEF WorkerParked, FreeTx, FilledRx, InLoop
  <2>3. CASE pc = "join_early"
    BY <2>3 DEF WorkerParked, IInv, Stages
  <2> QED
    BY <2>1, <2>2, <2>3 DEF MainParked
<1> QED
  BY <1>1, Invariance, PTL

\* The phase ends only over a worker that ended, and no panic of it is lost.
THEOREM WorkerIsSettled == Spec => []WorkerSettled
<1>1. IInv => WorkerSettled
  BY DEF IInv
<1> QED
  BY <1>1, Invariance, PTL

-----------------------------------------------------------------------------
(* The pipelined arm implements ImageCopy. *)

\* One step of the two threads is a step of the abstract copy, or a stutter.
LEMMA CopyStep == IInv /\ IInv' /\ [Next]_vars => [Copy!Next]_(Copy!vars)
<1> SUFFICES ASSUME IInv, IInv', [Next]_vars PROVE [Copy!Next]_(Copy!vars)
  OBVIOUS
<1> DEFINE V == IF result \in {"running", "ok"} THEN result ELSE "failed"
<1>1. ASSUME UNCHANGED <<imageLen, disk, result>> PROVE [Copy!Next]_(Copy!vars)
  BY <1>1 DEF Copy!vars
<1>2. ASSUME UNCHANGED <<imageLen, result>>, result = "running",
             NEW j \in 0 .. DevSize, NEW k \in 0 .. DevSize,
             j <= k, k <= imageLen, disk = CopiedTo(j), disk' = CopiedTo(k)
      PROVE  [Copy!Next]_(Copy!vars)
  BY <1>2 DEF Copy!Next, Copy!Extend, Copy!Advance, Copy!CopiedTo, CopiedTo, Sectors
<1>3. ASSUME UNCHANGED <<imageLen, disk>>, result = "running", pc' = "done",
             result' # "ok"
      PROVE  [Copy!Next]_(Copy!vars)
  <2>1. PICK k \in 0 .. DevSize : k <= imageLen /\ disk = CopiedTo(k)
    BY DEF IInv, DiskIsPrefix
  <2>2. k <= k
    BY <2>1
  <2>3. Copy!Advance
    BY <1>3, <2>1, <2>2 DEF Copy!Advance, Copy!CopiedTo, CopiedTo, Sectors
  <2>4. result' # "running"
    BY <1>3 DEF IInv, Stages
  <2> QED
    BY <1>3, <2>3, <2>4 DEF Copy!Next, Copy!Fail
<1>4. CASE Fdatasync /\ UNCHANGED imageLen
  <2>1. /\ pc = "sync" /\ result = "running" /\ outcome = "ok" /\ "panic" \notin faults
        /\ result' = "ok" /\ UNCHANGED disk
    BY <1>4 DEF Fdatasync, Finish, IInv, Stages
  <2>2. total = imageLen /\ total <= DevSize /\ disk = CopiedTo(total)
    BY <2>1 DEF IInv, LoopOutcome, Cleanup, DiskIsPrefix
  <2> QED
    BY <1>4, <2>1, <2>2 DEF Copy!Next, Copy!Succeed, Copy!CopiedTo, CopiedTo, Sectors
<1>5. CASE ProcessContinue
  <2>1. /\ disk = CopiedTo(offset) /\ offset \in Nat /\ offset <= offset + BUF_SIZE
        /\ result = "running" /\ BUF_SIZE \in Nat
    BY <1>5, SizesAssumption
       DEF ProcessContinue, SizesAssumption, IInv, TypeOK, WriterTypeOK, Stages, InLoop,
           DiskIsPrefix
  <2>2. /\ disk' = CopiedTo(offset + BUF_SIZE) /\ offset + BUF_SIZE <= imageLen
        /\ offset + BUF_SIZE <= DevSize
    BY <1>5, FullChunkEffect DEF ProcessContinue
  <2>3. offset \in 0 .. DevSize /\ offset + BUF_SIZE \in 0 .. DevSize
    BY <2>1, <2>2, SizesAssumption DEF SizesAssumption
  <2>4. UNCHANGED <<imageLen, result>>
    BY <1>5 DEF ProcessContinue, fixedVars
  <2> QED
    BY <1>2, <2>1, <2>2, <2>3, <2>4
<1>6. CASE ProcessEnd
  <2>1. /\ disk = CopiedTo(offset) /\ offset \in Nat /\ offset <= imageLen
        /\ offset <= DevSize /\ result = "running" /\ imageLen \in Nat
    BY <1>6 DEF ProcessEnd, IInv, TypeOK, WriterTypeOK, Stages, InLoop, DiskIsPrefix
  <2>2. \E k \in 0 .. DevSize : offset <= k /\ k <= imageLen /\ disk' = CopiedTo(k)
    <3>1. CASE LastChunk(hand)
      <4>1. disk' = CopiedTo(imageLen) /\ imageLen <= DevSize
        BY <1>6, <3>1, LastChunkEffect DEF ProcessEnd
      <4>2. imageLen \in 0 .. DevSize /\ imageLen <= imageLen
        BY <2>1, <4>1, SizesAssumption DEF SizesAssumption
      <4> QED
        BY <2>1, <4>1, <4>2
    <3>2. CASE ChunkError(hand)
      BY <1>6, <3>2, ChunkErrorEffect DEF ProcessEnd
    <3> QED
      BY <1>6, <3>1, <3>2 DEF ProcessEnd
  <2>3. UNCHANGED <<imageLen, result>> /\ offset \in 0 .. DevSize
    BY <1>6, <2>1, SizesAssumption DEF ProcessEnd, fixedVars, SizesAssumption
  <2> QED
    BY <1>2, <2>1, <2>2, <2>3
<1>7. CASE Worker \/ RequestCancel \/ UNCHANGED vars
  BY <1>1, <1>7
     DEF Worker, Acquire, AcquireDisconnected, PollMirror, Fill, FillError, FillPanic,
         Send, DropFilledTx, DropFreeRx, RequestCancel, vars, writerVars, fixedVars,
         deviceVars
<1>8. CASE Spawn \/ CheckCancel \/ Recv \/ RecvDisconnected \/ JoinEarly \/ ReturnBuffer
           \/ Throttle \/ DropFilledRx \/ DropFreeTx
  BY <1>1, <1>8
     DEF Spawn, CheckCancel, Recv, RecvDisconnected, JoinEarly, ReturnBuffer, Throttle,
         DropFilledRx, DropFreeTx, fixedVars, deviceVars
<1>9. CASE RefuseZeroRate \/ SetupFault
  BY <1>3, <1>9 DEF RefuseZeroRate, SetupFault, Finish, fixedVars, IInv, Stages
<1>10. CASE Join
  <2>1. UNCHANGED <<imageLen, disk>> /\ result = "running"
    BY <1>10 DEF Join, fixedVars, deviceVars, IInv, Stages
  <2>2. UNCHANGED result \/ (pc' = "done" /\ result' # "ok")
    BY <1>10 DEF Join, Finish
  <2> QED
    BY <1>1, <1>3, <2>1, <2>2
<1>11. CASE FinalizeMain
  <2>1. UNCHANGED imageLen
    BY <1>11 DEF FinalizeMain, fixedVars
  <2>2. CASE ClearDirect
    BY <1>1, <2>1, <2>2 DEF ClearDirect
  <2>3. CASE FinalizeFault
    BY <1>3, <2>1, <2>3 DEF FinalizeFault, Finish, deviceVars, IInv, Stages
  <2> QED
    BY <1>4, <1>11, <2>1, <2>2, <2>3 DEF FinalizeMain, Finalize
<1> QED
  BY <1>5, <1>6, <1>7, <1>8, <1>9, <1>10, <1>11 DEF Next, Main, Terminated

\* Phase 4's pipelined arm keeps the promise ImageCopy states: the device only
\* ever holds an in-order prefix of the image, and Ok comes with the whole of it.
THEOREM PipelineCopies == Spec => CopySpec
<1>1. Init => Copy!Init
  BY DEF Init, WriterInit, Copy!Init, Copy!CopiedTo, Sectors
<1> QED
  BY <1>1, Invariance, CopyStep, PTL DEF Spec, CopySpec, Copy!Spec
=============================================================================
