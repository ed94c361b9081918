------------------------ MODULE VerifyPipelineProofs ------------------------
(***************************************************************************)
(* Proofs about the pipelined arm of Phase 5b, for every buffer, device    *)
(* and image size.  The worker and main count down from bytes_written      *)
(* separately; IInv says that the two counts, the items under way and the  *)
(* buffers always add up.                                                  *)
(***************************************************************************)
EXTENDS VerifyPipeline, SequenceTheorems, TLAPS

-----------------------------------------------------------------------------
(* `filled`, a channel of at most two items: the pool has two buffers. *)

\* `filled` never holds more than two items: it is empty, a single or a pair.
LEMMA OneOrTwo ==
  ASSUME NEW n \in Nat, n # 0, n <= 2
  PROVE  n \in {1, 2}
  OBVIOUS

\* With room for one item only, `filled` is empty or a single.
LEMMA AtMostOne ==
  ASSUME NEW n \in Nat, n # 0, n <= 1
  PROVE  n = 1
  OBVIOUS

\* A sequence with an item has a positive length.
LEMMA NonEmpty ==
  ASSUME NEW S, NEW s \in Seq(S)
  PROVE  s # << >> <=> Len(s) # 0
  BY EmptySeq

\* What recv takes from the front of `filled`, and what it leaves.
LEMMA TakeFirst ==
  ASSUME NEW S, NEW s \in Seq(S), s # << >>, Len(s) <= 2
  PROVE  /\ Head(s) = s[1]
         /\ s[1] \in S
         /\ Tail(s) \in Seq(S)
         /\ Len(s) \in {1, 2}
         /\ Len(Tail(s)) = Len(s) - 1
         /\ Len(s) = 1 => Tail(s) = << >>
         /\ Len(s) = 2 => Tail(s) # << >> /\ Tail(s)[1] = s[2]
<1>1. Len(s) \in {1, 2}
  BY NonEmpty, OneOrTwo, LenProperties
<1>2. Head(s) = s[1] /\ s[1] \in S
  BY <1>1
<1>3. /\ Tail(s) \in Seq(S)
      /\ Len(Tail(s)) = Len(s) - 1
      /\ \A i \in 1 .. Len(Tail(s)) : Tail(s)[i] = s[i+1]
  BY HeadTailProperties
<1>4. Len(s) = 1 => Tail(s) = << >>
  <2>1. Len(s) = 1 => Len(Tail(s)) = 0
    BY <1>3
  <2> QED
    BY <1>3, <2>1, NonEmpty
<1>5. Len(s) = 2 => Tail(s) # << >>
  <2>1. Len(s) = 2 => Len(Tail(s)) # 0
    BY <1>3
  <2> QED
    BY <1>3, <2>1, NonEmpty
<1>6. Len(s) = 2 => Tail(s)[1] = s[2]
  BY <1>3
<1> QED
  BY <1>1, <1>2, <1>3, <1>4, <1>5, <1>6

\* What send appends to `filled`, item by item.
LEMMA AddLast ==
  ASSUME NEW S, NEW s \in Seq(S), NEW e \in S, Len(s) <= 1
  PROVE  /\ Append(s, e) \in Seq(S)
         /\ Append(s, e) # << >>
         /\ Len(Append(s, e)) = Len(s) + 1
         /\ Append(s, e)[Len(s) + 1] = e
         /\ s = << >> => Append(s, e)[1] = e /\ Len(s) = 0
         /\ s # << >> => Append(s, e)[1] = s[1] /\ Append(s, e)[2] = e /\ Len(s) = 1
<1>1. /\ Append(s, e) \in Seq(S)
      /\ Append(s, e) # << >>
      /\ Len(Append(s, e)) = Len(s) + 1
      /\ Append(s, e)[Len(s) + 1] = e
      /\ \A i \in 1 .. Len(s) : Append(s, e)[i] = s[i]
  BY AppendProperties
<1>2. s = << >> => Len(s) = 0
  BY EmptySeq
<1>3. s # << >> => Len(s) = 1
  BY AtMostOne, NonEmpty, LenProperties
<1>4. Len(s) = 0 => Append(s, e)[1] = e
  BY <1>1
<1>5. Len(s) = 1 => Append(s, e)[1] = s[1] /\ Append(s, e)[2] = e
  BY <1>1
<1> QED
  BY <1>1, <1>2, <1>3, <1>4, <1>5

-----------------------------------------------------------------------------
(* The invariant. *)

Running == wpc \in {"acquire", "poll", "fill", "send"}
Leaving == wpc \in {"drop_filled", "drop_free", "gone"}
Cleanup == {"drop_filled", "drop_free", "join"}

\* How far main is, and what that says of the outcome so far.
Stages ==
  /\ result = "running" <=> pc # "done"
  /\ wpc = "unborn" => pc \in {"setup", "done"}
  /\ pc = "setup" => /\ wpc = "unborn" /\ filled = << >> /\ free = 0
                     /\ left = written /\ offset = 0 /\ outcome = "ok" /\ ~mirror
                     /\ faults = {} /\ late = 0
  /\ pc \in InLoop \cup {"join_early"} => outcome = "ok" /\ ~mirror
  /\ pc \in {"read", "recv", "chunk"} => remaining > 0
  /\ pc = "join_early" => "panic" \in faults
  /\ pc = "done" => wpc \in {"unborn", "gone"}

AgreesTo(k) == \A i \in 0 .. k - 1 : disk[i] = i

\* What was compared is equal, and a mismatch is at the first difference.
Compared ==
  /\ offset + remaining = written
  /\ offset <= imageLen
  /\ AgreesTo(offset)
  /\ outcome = "mismatch" =>
       diffAt \in offset .. written - 1 /\ disk[diffAt] # diffAt /\ AgreesTo(diffAt)

\* The worker's own count, whatever main does: it runs while chunks are left, and
\* a reader that failed leaves some.
WorkerCount ==
  /\ Running => left > 0
  /\ wpc = "send" /\ item.ok => item.n = ChunkOf(left)
  /\ "reader" \in faults => left > 0 /\ (Leaving \/ (wpc = "send" /\ ~item.ok))
  /\ "panic" \in faults => left > 0 /\ Leaving

\* While main consumes: what it holds, what is queued and what the worker is
\* about to send are the chunks that follow each other from offset on.
Held == IF pc = "chunk" THEN hand.n ELSE 0
Front == offset + Held
Queued == IF filled = << >> THEN 0
          ELSE IF Len(filled) = 1 THEN filled[1].n
          ELSE filled[1].n + filled[2].n
Genuine(i, p) == IF i.ok THEN i.from = p /\ i.n = ChunkOf(written - p) /\ p + i.n <= imageLen
                 ELSE i.n = 0 /\ ("reader" \in faults \/ imageLen < written)

InOrder ==
  /\ Len(filled) <= 2
  /\ pc = "chunk" => hand.ok /\ Genuine(hand, offset)
  /\ filled # << >> => Genuine(filled[1], Front)
  /\ Len(filled) = 2 => Genuine(filled[2], Front + filled[1].n)
  /\ wpc = "send" => Genuine(item, Front + Queued)
  /\ Front + Queued + left = written

\* An error is the last item, and a worker that left without a panic has sent
\* either everything or an error.
LastIsFinal ==
  /\ Len(filled) = 2 => filled[1].ok
  /\ Running /\ filled # << >> => filled[Len(filled)].ok
  /\ Leaving /\ "panic" \notin faults =>
       left = 0 \/ (filled # << >> /\ ~filled[Len(filled)].ok)
  /\ faults \cap {"device", "spawn"} = {}

\* Both buffers are accounted for until the worker leaves.
InUse == Len(filled) + (IF pc \in {"chunk", "return"} THEN 1 ELSE 0)
PoolConserved ==
  /\ Running => free + InUse + (IF wpc = "acquire" THEN 0 ELSE 1) = POOL
  /\ Leaving => free + InUse <= POOL

Flow == pc \in InLoop => wpc # "unborn" /\ InOrder /\ LastIsFinal /\ PoolConserved

\* After the loop a good outcome means that all was compared, or a panic.
LoopOutcome ==
  /\ pc \in Cleanup /\ outcome = "ok" /\ "panic" \notin faults =>
       remaining = 0 /\ left = 0 /\ faults = {}
  /\ outcome = "cancelled" => cancel
  /\ outcome = "io" => faults \cap {"device", "reader"} # {} \/ imageLen < written
  /\ outcome \notin {"rate", "protocol"}

CancelBound ==
  /\ late <= 1
  /\ late > 0 => cancel
  /\ pc = "read" => late = 0

IInv ==
  /\ TypeOK
  /\ Stages
  /\ Compared
  /\ WorkerCount
  /\ Flow
  /\ LoopOutcome
  /\ CancelBound
  /\ PassIsFullCompare
  /\ FailureHasCause
  /\ WorkerSettled

-----------------------------------------------------------------------------
(* One chunk. *)

\* A chunk is no longer than a buffer or than what is left, and not empty before
\* the end.
LEMMA ChunkBounds ==
  ASSUME NEW l \in Nat
  PROVE  /\ ChunkOf(l) \in Nat
         /\ ChunkOf(l) \in 0 .. BUF_SIZE
         /\ ChunkOf(l) <= l
         /\ l > 0 => ChunkOf(l) > 0
         /\ l - ChunkOf(l) \in 0 .. l
  BY ReaderAssumption DEF ReaderAssumption, ChunkOf

\* The types the steps below compute with.
LEMMA Numbers ==
  ASSUME IInv
  PROVE  /\ written \in Nat /\ imageLen \in Nat /\ remaining \in Nat /\ offset \in Nat
         /\ left \in Nat /\ free \in Nat /\ late \in Nat
         /\ filled \in Seq(Item) /\ item \in Item /\ hand \in Item
         /\ \A i \in Item : i.n \in Nat
<1>1. TypeOK /\ DevSize \in Nat
  BY ReaderAssumption DEF IInv, ReaderAssumption
<1>2. written \in Nat /\ imageLen \in Nat /\ remaining \in Nat /\ offset \in Nat /\ left \in Nat
  BY <1>1 DEF TypeOK, ReaderTypeOK
<1>3. free \in Nat /\ late \in Nat
  BY <1>1 DEF TypeOK, ReaderTypeOK, POOL
<1>4. \A i \in Item : i.n \in Nat
  BY ReaderAssumption DEF ReaderAssumption, Item
<1> QED
  BY <1>1, <1>2, <1>3, <1>4 DEF TypeOK

\* The chunk main holds is the one it expects, and it compares it whole.
LEMMA CompareEffect ==
  ASSUME IInv, CompareChunk
  PROVE  /\ hand.n = ChunkOf(remaining) /\ hand.n \in Nat /\ hand.n > 0
         /\ hand.n <= remaining
         /\ \/ /\ outcome' = "ok" /\ pc' = "return" /\ diffAt' = diffAt
               /\ offset' = offset + hand.n /\ remaining' = remaining - hand.n
               /\ offset' <= imageLen /\ AgreesTo(offset + hand.n)
            \/ /\ outcome' = "mismatch" /\ pc' = "drop_filled"
               /\ offset' = offset /\ remaining' = remaining
               /\ diffAt' \in offset .. written - 1 /\ disk[diffAt'] # diffAt'
               /\ AgreesTo(diffAt')
<1>1. /\ pc = "chunk" /\ outcome = "ok" /\ remaining > 0 /\ AgreesTo(offset)
      /\ offset + remaining = written
  BY DEF CompareChunk, IInv, Stages, InLoop, Compared
<1>2. hand.ok /\ Genuine(hand, offset)
  BY <1>1 DEF IInv, Flow, InLoop, InOrder
<1>3. /\ hand.from = offset /\ hand.n = ChunkOf(written - offset)
      /\ offset + hand.n <= imageLen
  BY <1>2 DEF Genuine
<1>4. written - offset = remaining
  BY <1>1, Numbers
<1>5. hand.n = ChunkOf(remaining) /\ hand.n \in Nat /\ hand.n > 0 /\ hand.n <= remaining
  BY <1>1, <1>3, <1>4, Numbers, ChunkBounds, ReaderAssumption DEF ReaderAssumption
<1>6. Matched(offset, hand.n) \/ Mismatched(offset, hand.n)
  BY <1>3, <1>5 DEF CompareChunk
<1>7. pc' = IF outcome' = "ok" THEN "return" ELSE "drop_filled"
  BY DEF CompareChunk
<1>8. CASE Matched(offset, hand.n)
  <2>1. AgreesTo(offset + hand.n)
    <3> SUFFICES ASSUME NEW i \in 0 .. (offset + hand.n) - 1 PROVE disk[i] = i
      BY DEF AgreesTo
    <3>1. CASE i < offset
      BY <1>1, <3>1, Numbers DEF AgreesTo
    <3>2. CASE i >= offset
      <4>1. i - offset \in 0 .. hand.n - 1 /\ offset + (i - offset) = i
        BY <1>5, <3>2, Numbers
      <4>2. i - offset \notin Differing(offset, hand.n)
        BY <1>8 DEF Matched
      <4> QED
        BY <4>1, <4>2 DEF Differing
    <3> QED
      BY <3>1, <3>2, <1>5, Numbers
  <2> QED
    BY <1>1, <1>3, <1>5, <1>7, <1>8, <2>1 DEF Matched
<1>9. CASE Mismatched(offset, hand.n)
  <2>1. PICK i \in Differing(offset, hand.n) :
          (\A j \in Differing(offset, hand.n) : i <= j) /\ diffAt' = offset + i
    BY <1>9 DEF Mismatched
  <2>2. i \in 0 .. hand.n - 1 /\ disk[offset + i] # offset + i
    BY <2>1 DEF Differing
  <2>3. diffAt' \in offset .. written - 1
    BY <1>1, <1>5, <2>1, <2>2, Numbers
  <2>4. AgreesTo(offset + i)
    <3> SUFFICES ASSUME NEW k \in 0 .. (offset + i) - 1 PROVE disk[k] = k
      BY DEF AgreesTo
    <3>1. CASE k < offset
      BY <1>1, <3>1, Numbers DEF AgreesTo
    <3>2. CASE k >= offset
      <4>1. k - offset \in 0 .. hand.n - 1 /\ offset + (k - offset) = k /\ k - offset < i
        BY <1>5, <2>2, <3>2, Numbers
      <4>2. k - offset \notin Differing(offset, hand.n)
        BY <2>1, <2>2, <4>1
      <4> QED
        BY <4>1, <4>2 DEF Differing
    <3> QED
      BY <3>1, <3>2, <1>5, <2>2, Numbers
  <2>5. outcome' = "mismatch" /\ offset' = offset /\ remaining' = remaining
    BY <1>9 DEF Mismatched
  <2> QED
    BY <1>5, <1>7, <2>1, <2>2, <2>3, <2>4, <2>5
<1> QED
  BY <1>6, <1>8, <1>9

-----------------------------------------------------------------------------
(* The flow of chunks between the threads, while main is in its loop. *)

\* Every step keeps the items between the threads consecutive and accounted for.
LEMMA FlowStep ==
  ASSUME IInv, Next, pc' \in InLoop
  PROVE  wpc' # "unborn" /\ InOrder' /\ LastIsFinal' /\ PoolConserved'
<1> USE ReaderAssumption DEF ReaderAssumption
<1>1. CASE Spawn
  BY <1>1, Numbers
     DEF Spawn, WorkerNext, fixedVars, IInv, Stages, TypeOK, InLoop, InOrder, Held,
         Front, Queued, LastIsFinal, Running, Leaving, PoolConserved, InUse, POOL
<1> SUFFICES ASSUME ~Spawn
             PROVE  wpc' # "unborn" /\ InOrder' /\ LastIsFinal' /\ PoolConserved'
  BY <1>1
<1>2. pc \in InLoop
  BY DEF Next, Main, Worker, InLoop, RefuseZeroRate, SetupFault, Check, ReadDevice,
     ReadFault, Recv, RecvDisconnected, JoinEarly, CompareChunk, ReturnBuffer, Throttle,
     DropFilledRx, DropFreeTx, Join, Finish, Acquire, AcquireDisconnected, PollMirror,
     Fill, FillError, FillPanic, Send, DropFilledTx, DropFreeRx, RequestCancel,
     Terminated, readerVars, vars, LeaveCancelled
<1>3. /\ wpc # "unborn" /\ InOrder /\ LastIsFinal /\ PoolConserved /\ WorkerCount
      /\ outcome = "ok" /\ ~mirror
  BY <1>2 DEF IInv, Flow, Stages
<1>4. /\ filled \in Seq(Item) /\ item \in Item /\ hand \in Item
      /\ \A i \in Item : i.n \in Nat
      /\ written \in Nat /\ offset \in Nat /\ left \in Nat /\ free \in Nat
      /\ imageLen \in Nat
  BY Numbers
<1>lens. /\ hand.n \in Nat /\ item.n \in Nat /\ Len(filled) \in Nat
         /\ filled # << >> => Len(filled) \in {1, 2} /\ filled[1].n \in Nat
         /\ Len(filled) = 2 => filled # << >> /\ filled[2].n \in Nat
  <2>1. Len(filled) \in Nat /\ hand.n \in Nat /\ item.n \in Nat
    BY <1>4
  <2>2. filled # << >> => Len(filled) \in {1, 2} /\ filled[1] \in Item
    BY <1>3, <1>4, TakeFirst DEF InOrder
  <2>3. Len(filled) = 2 => filled # << >> /\ filled[2] \in Item
    <3>1. Len(filled) = 2 => filled[2] \in Item
      BY <1>4
    <3>2. filled # << >> <=> Len(filled) # 0
      BY <1>4, NonEmpty
    <3> QED
      BY <3>1, <3>2
  <2> QED
    BY <1>4, <2>1, <2>2, <2>3
<1>sums. Front \in Nat /\ Queued \in Nat
  BY <1>lens, <1>4 DEF Front, Held, Queued
<1>5. CASE Check \/ ReadDevice \/ Throttle
  <2>1. /\ pc \in {"check", "read", "throttle"} /\ pc' \in {"check", "read", "recv"}
        /\ UNCHANGED <<written, imageLen, faults, offset, filled, hand, free, wpc, left,
                       item>>
    BY <1>5 DEF Check, ReadDevice, ReadsDevice, Throttle, LeaveCancelled, InLoop,
                fixedVars, workerVars
  <2> QED
    BY <1>3, <2>1 DEF InOrder, Held, Front, Queued, Genuine, ChunkOf, LastIsFinal,
                      Running, Leaving, PoolConserved, InUse
<1>6. CASE Recv
  <2>1. /\ filled # << >> /\ Len(filled) \in {1, 2} /\ Head(filled) = filled[1]
        /\ filled' = Tail(filled) /\ Len(filled') = Len(filled) - 1
        /\ filled[1] \in Item
        /\ Len(filled) = 1 => filled' = << >>
        /\ Len(filled) = 2 => filled' # << >> /\ filled'[1] = filled[2]
    BY <1>3, <1>4, <1>6, TakeFirst DEF Recv, InOrder
  <2>2. /\ pc = "recv" /\ pc' = "chunk" /\ filled[1].ok /\ hand' = filled[1]
        /\ UNCHANGED <<written, imageLen, faults, offset, free, wpc, left, item>>
    BY <1>6, <2>1 DEF Recv, InLoop, workerVars, fixedVars
  <2>3. InOrder'
    <3>1. Front = offset /\ Front' = offset + filled[1].n
      BY <1>4, <2>2 DEF Front, Held
    <3>2. Front' + Queued' = Front + Queued
      <4>1. CASE Len(filled) = 1
        BY <1>lens, <1>4, <2>1, <3>1, <4>1 DEF Queued
      <4>2. CASE Len(filled) = 2
        <5>1. Queued' = filled[2].n /\ Queued = filled[1].n + filled[2].n
          BY <2>1, <4>2 DEF Queued
        <5> QED
          BY <1>lens, <1>4, <3>1, <4>2, <5>1
      <4> QED
        BY <2>1, <4>1, <4>2
    <3>4. Genuine(filled[1], offset)
      BY <1>3, <2>1, <3>1 DEF InOrder
    <3>5. Len(filled) = 2 => Genuine(filled[2], Front')
      BY <1>3, <3>1 DEF InOrder
    <3>6. Len(filled') <= 1
      BY <2>1
    <3>7. (pc = "chunk" => hand.ok /\ Genuine(hand, offset))'
      BY <2>2, <3>4 DEF Genuine, ChunkOf
    <3>8. (filled # << >> => Genuine(filled[1], Front))'
      BY <2>1, <2>2, <3>5 DEF Genuine, ChunkOf
    <3>9. (wpc = "send" => Genuine(item, Front + Queued))'
      BY <1>3, <2>2, <3>2 DEF InOrder, Genuine, ChunkOf
    <3>10. (Front + Queued + left = written)'
      BY <1>3, <2>2, <3>2 DEF InOrder
    <3> QED
      BY <3>6, <3>7, <3>8, <3>9, <3>10 DEF InOrder
  <2>4. LastIsFinal'
    BY <1>3, <1>4, <2>1, <2>2 DEF LastIsFinal, Running, Leaving
  <2>5. PoolConserved'
    BY <1>3, <1>4, <2>1, <2>2 DEF PoolConserved, Running, Leaving, InUse
  <2> QED
    BY <1>3, <2>2, <2>3, <2>4, <2>5
<1>7. CASE CompareChunk
  <2>1. /\ pc = "chunk" /\ pc' = "return" /\ offset' = offset + hand.n
        /\ UNCHANGED <<written, imageLen, faults, filled, hand, free, wpc, left, item>>
    BY <1>7, CompareEffect DEF CompareChunk, InLoop, workerVars, fixedVars
  <2>2. InOrder'
    <3>1. Front' = Front /\ Queued' = Queued
      BY <1>lens, <1>4, <2>1 DEF Front, Held, Queued
    <3> QED
      BY <1>3, <2>1, <3>1 DEF InOrder, Genuine, ChunkOf
  <2>3. LastIsFinal'
    BY <1>3, <2>1 DEF LastIsFinal, Running, Leaving
  <2>4. PoolConserved'
    BY <1>3, <2>1 DEF PoolConserved, Running, Leaving, InUse
  <2> QED
    BY <1>3, <2>1, <2>2, <2>3, <2>4
<1>8. CASE ReturnBuffer
  <2>1. /\ pc = "return" /\ pc' \in {"throttle", "check"}
        /\ free' = IF wpc # "gone" THEN free + 1 ELSE free
        /\ UNCHANGED <<written, imageLen, faults, offset, filled, hand, wpc, left, item>>
    BY <1>8 DEF ReturnBuffer, FreeRx, workerVars, fixedVars
  <2>2. InOrder' /\ LastIsFinal'
    BY <1>3, <2>1 DEF InOrder, Held, Front, Queued, Genuine, ChunkOf, LastIsFinal,
                      Running, Leaving
  <2>3. PoolConserved'
    <3> DEFINE u == InUse
               v == InUse'
    <3>1. u = v + 1 /\ u \in Nat /\ v \in Nat
      BY <1>lens, <2>1 DEF InUse
    <3>2. (Running' <=> Running) /\ (Leaving' <=> Leaving)
      BY <2>1 DEF Running, Leaving
    <3>3. Running => free + u + (IF wpc = "acquire" THEN 0 ELSE 1) = 2
      BY <1>3 DEF PoolConserved, POOL
    <3>4. Leaving => free + u <= 2
      BY <1>3 DEF PoolConserved, POOL
    <3>5. Running => free' = free + 1
      BY <2>1 DEF Running
    <3> HIDE DEF u, v
    <3>6. Running => free' + v + (IF wpc = "acquire" THEN 0 ELSE 1) = 2
      BY <1>4, <3>1, <3>3, <3>5
    <3>7. Leaving => free' + v <= 2
      BY <1>4, <2>1, <3>1, <3>4
    <3> QED
      BY <2>1, <3>2, <3>6, <3>7 DEF PoolConserved, POOL, v
  <2> QED
    BY <1>3, <2>1, <2>2, <2>3
<1>9. CASE Acquire \/ PollMirror
  <2>1. /\ Running /\ wpc' \in {"poll", "fill"}
        /\ \/ wpc = "acquire" /\ free' = free - 1
           \/ wpc # "acquire" /\ free' = free
        /\ UNCHANGED <<written, imageLen, faults, offset, filled, hand, pc, left, item>>
    BY <1>3, <1>9 DEF Acquire, PollMirror, readerVars, Running
  <2>2. InOrder'
    BY <1>3, <2>1 DEF InOrder, Held, Front, Queued, Genuine, ChunkOf
  <2>3. LastIsFinal'
    BY <1>3, <2>1 DEF LastIsFinal, Running, Leaving
  <2>4. PoolConserved'
    <3>1. InUse' = InUse /\ InUse \in Nat
      BY <1>lens, <2>1 DEF InUse
    <3>2. Running' /\ ~Leaving' /\ wpc' # "acquire"
      BY <2>1 DEF Running, Leaving
    <3>3. free' + InUse + 1 = 2
      BY <1>3, <1>4, <2>1, <3>1 DEF PoolConserved, POOL
    <3> QED
      BY <3>1, <3>2, <3>3 DEF PoolConserved, POOL
  <2> QED
    BY <2>1, <2>2, <2>3, <2>4
<1>10. CASE Fill
  <2>1. /\ wpc = "fill" /\ wpc' = "send"
        /\ UNCHANGED <<written, imageLen, faults, offset, filled, hand, free, pc, left>>
    BY <1>10 DEF Fill, readerVars
  <2>2. Front + Queued = written - left
    BY <1>3, <1>4, <1>sums DEF InOrder
  <2>3. Front' = Front /\ Queued' = Queued
    BY <2>1 DEF Front, Held, Queued
  <2>4. (wpc = "send" => Genuine(item, Front + Queued))'
    <3> DEFINE from == written - left
               n == ChunkOf(left)
    <3>1. from \in Nat /\ written - from = left /\ n \in Nat /\ n <= left
      <4>1. n \in Nat /\ n <= left
        BY <1>4, ChunkBounds
      <4>2. Front + Queued + left = written
        BY <1>3 DEF InOrder
      <4> QED
        BY <1>4, <1>sums, <4>1, <4>2
    <3>2. CASE from + n <= imageLen
      <4>1. item' = [ok |-> TRUE, from |-> from, n |-> n]
        BY <1>10, <3>2 DEF Fill, Yields
      <4>2. item'.ok /\ item'.from = from /\ item'.n = ChunkOf(written - from)
        BY <3>1, <4>1
      <4> QED
        BY <2>1, <2>2, <2>3, <3>2, <4>1, <4>2 DEF Genuine, ChunkOf
    <3>3. CASE ~(from + n <= imageLen)
      <4>1. item' = Nothing
        BY <1>10, <3>3 DEF Fill, Yields
      <4>2. imageLen < written
        BY <1>4, <3>1, <3>3
      <4> QED
        BY <2>1, <4>1, <4>2 DEF Genuine, Nothing
    <3> QED
      BY <3>2, <3>3
  <2>5. InOrder'
    BY <1>3, <2>1, <2>3, <2>4 DEF InOrder, Genuine, ChunkOf
  <2>6. LastIsFinal' /\ PoolConserved'
    BY <1>3, <2>1 DEF LastIsFinal, Running, Leaving, PoolConserved, InUse
  <2> QED
    BY <2>1, <2>5, <2>6
<1>11. CASE FillError
  BY <1>3, <1>4, <1>11
     DEF FillError, Nothing, fixedVars, InOrder, Held, Front, Queued, Genuine, ChunkOf,
         LastIsFinal, Running, Leaving, PoolConserved, InUse
<1>12. CASE FillPanic
  BY <1>3, <1>4, <1>12
     DEF FillPanic, fixedVars, InOrder, Held, Front, Queued, Genuine, ChunkOf,
         LastIsFinal, Running, Leaving, PoolConserved, InUse, POOL
<1>13. CASE Send
  <2>1. Len(filled) <= 1 /\ wpc = "send"
    <3>1. Len(filled) \in Nat
      BY <1>4
    <3> QED
      BY <1>3, <1>4, <1>13, <3>1 DEF Send, PoolConserved, Running, InUse, POOL
  <2>2. /\ filled' = Append(filled, item)
        /\ UNCHANGED <<written, imageLen, faults, offset, hand, free, pc, item>>
    BY <1>2, <1>13 DEF Send, FilledRx, readerVars, fixedVars
  <2>3. /\ left' = IF item.ok THEN left - item.n ELSE left
        /\ wpc' = IF item.ok /\ left' # 0 THEN "acquire" ELSE "drop_filled"
    BY <1>2, <1>13 DEF Send, FilledRx, WorkerNext
  <2>4. /\ filled' # << >> /\ Len(filled') = Len(filled) + 1
        /\ filled'[Len(filled')] = item
        /\ filled = << >> => filled'[1] = item /\ Len(filled) = 0
        /\ filled # << >> => filled'[1] = filled[1] /\ filled'[2] = item /\ Len(filled) = 1
    BY <1>4, <2>1, <2>2, AddLast
  <2>5. Genuine(item, Front + Queued) /\ (~item.ok => item.n = 0)
    BY <1>3, <2>1 DEF InOrder, Genuine
  <2>6. InOrder'
    <3>1. Front' = Front
      BY <2>2 DEF Front, Held
    <3>2. Queued' = Queued + item.n /\ Len(filled') <= 2
      BY <1>lens, <2>1, <2>2, <2>4 DEF Queued
    <3>3. left' + item.n = left
      BY <1>lens, <1>4, <2>3, <2>5
    <3>4. filled = << >> => Queued = 0
      BY DEF Queued
    <3>5. filled # << >> => Queued = filled[1].n
      BY <2>4 DEF Queued
    <3>6. (filled # << >> => Genuine(filled[1], Front))'
      BY <1>3, <1>sums, <2>2, <2>4, <2>5, <3>1, <3>4 DEF InOrder, Genuine, ChunkOf
    <3>7. (Len(filled) = 2 => Genuine(filled[2], Front + filled[1].n))'
      BY <2>2, <2>4, <2>5, <3>1, <3>5 DEF Genuine, ChunkOf
    <3>8. (pc = "chunk" => hand.ok /\ Genuine(hand, offset))'
      BY <1>3, <2>2 DEF InOrder, Genuine, ChunkOf
    <3>9. (Front + Queued + left = written)'
      <4>1. Front + Queued + left = written
        BY <1>3 DEF InOrder
      <4>2. left' = left - item.n
        BY <1>lens, <1>4, <2>3, <2>5
      <4>3. Front + (Queued + item.n) + (left - item.n) = written
        BY <1>lens, <1>sums, <1>4, <4>1
      <4> QED
        BY <2>2, <3>1, <3>2, <4>2, <4>3
    <3>10. wpc' # "send"
      BY <2>3
    <3> QED
      BY <3>2, <3>6, <3>7, <3>8, <3>9, <3>10 DEF InOrder
  <2>7. LastIsFinal'
    <3>1. Running /\ "panic" \notin faults
      BY <1>3, <2>1 DEF Running, WorkerCount, Leaving
    <3>2. (Len(filled) = 2 => filled[1].ok)'
      <4>1. CASE filled = << >>
        BY <2>4, <4>1
      <4>2. CASE filled # << >>
        BY <1>3, <2>4, <3>1, <4>2 DEF LastIsFinal
      <4> QED
        BY <4>1, <4>2
    <3>3. (Running /\ filled # << >> => filled[Len(filled)].ok)'
      BY <2>3, <2>4 DEF Running
    <3>4. (Leaving => left = 0 \/ (filled # << >> /\ ~filled[Len(filled)].ok))'
      BY <2>3, <2>4 DEF Leaving
    <3> QED
      BY <1>3, <2>2, <3>2, <3>3, <3>4 DEF LastIsFinal
  <2>8. PoolConserved'
    BY <1>3, <1>4, <2>1, <2>2, <2>3, <2>4 DEF PoolConserved, Running, Leaving, InUse
  <2> QED
    BY <2>3, <2>6, <2>7, <2>8
<1>14. CASE DropFilledTx
  BY <1>3, <1>4, <1>14
     DEF DropFilledTx, readerVars, InOrder, Held, Front, Queued, Genuine, ChunkOf,
         LastIsFinal, Running, Leaving, PoolConserved, InUse
<1>15. CASE DropFreeRx
  <2>1. /\ wpc = "drop_free" /\ wpc' = "gone" /\ free' = 0
        /\ UNCHANGED <<written, imageLen, faults, offset, filled, hand, pc, left, item>>
    BY <1>15 DEF DropFreeRx, readerVars
  <2>2. InOrder' /\ LastIsFinal'
    BY <1>3, <2>1 DEF InOrder, Held, Front, Queued, Genuine, ChunkOf, LastIsFinal,
                      Running, Leaving
  <2>3. InUse' = InUse /\ InUse \in Nat
    BY <1>lens, <2>1 DEF InUse
  <2>4. PoolConserved'
    BY <1>3, <1>4, <2>1, <2>3 DEF PoolConserved, Running, Leaving, POOL
  <2> QED
    BY <2>1, <2>2, <2>4
<1>16. CASE RequestCancel
  BY <1>3, <1>4, <1>16
     DEF RequestCancel, fixedVars, workerVars, InOrder, Held, Front, Queued, Genuine,
         ChunkOf, LastIsFinal, Running, Leaving, PoolConserved, InUse
<1> QED
  BY <1>2, <1>5, <1>6, <1>7, <1>8, <1>9, <1>10, <1>11, <1>12, <1>13, <1>14, <1>15, <1>16
     DEF Next, Main, Worker, InLoop, FilledRx, FreeTx, RefuseZeroRate, SetupFault,
         ReadFault, RecvDisconnected, JoinEarly, DropFilledRx, DropFreeTx, Join, Finish,
         AcquireDisconnected, Terminated

-----------------------------------------------------------------------------
(* One lemma per conjunct of the invariant. *)

\* What main owns, the worker leaves alone, and the other way round.
LEMMA WorkerFrame ==
  ASSUME Worker
  PROVE  /\ UNCHANGED <<written, imageLen, throttle, disk, cancel, pc, remaining, offset,
                        outcome, diffAt, result, late, hand, mirror>>
         /\ \/ faults' = faults
            \/ wpc = "fill" /\ faults' = faults \cup {"reader"}
            \/ wpc = "fill" /\ faults' = faults \cup {"panic"}
         /\ wpc \in {"drop_filled", "drop_free"} => faults' = faults /\ left' = left
         /\ wpc \notin {"unborn", "gone"} /\ wpc' # "unborn"
  BY DEF Worker, Acquire, AcquireDisconnected, PollMirror, Fill, FillError, FillPanic,
     Send, WorkerNext, DropFilledTx, DropFreeRx, readerVars, fixedVars

LEMMA MainFrame ==
  ASSUME Main
  PROVE  /\ UNCHANGED <<written, imageLen, throttle, disk, cancel, left, item>>
         /\ wpc' = wpc \/ Spawn
  BY DEF Main, Spawn, RefuseZeroRate, SetupFault, Check, ReadDevice, ReadFault, Recv,
     RecvDisconnected, JoinEarly, CompareChunk, ReturnBuffer, Throttle, DropFilledRx,
     DropFreeTx, Join, fixedVars, workerVars

LEMMA CancelFrame ==
  ASSUME RequestCancel
  PROVE  /\ cancel'
         /\ UNCHANGED <<written, imageLen, throttle, disk, faults, pc, remaining, offset,
                        outcome, diffAt, result, late, hand, filled, free, mirror, wpc,
                        left, item>>
  BY DEF RequestCancel, fixedVars, workerVars

\* The worker's count goes down by what it sent, and never below nothing.
LEMMA CountStep ==
  ASSUME IInv, Next
  PROVE  WorkerCount' /\ left' \in 0 .. left
<1>1. WorkerCount /\ Stages /\ left \in Nat /\ written \in Nat
  BY Numbers DEF IInv
<1>2. CASE Worker
  <2>1. CASE Acquire \/ AcquireDisconnected \/ PollMirror \/ DropFilledTx \/ DropFreeRx
    BY <1>1, <2>1 DEF Acquire, AcquireDisconnected, PollMirror, DropFilledTx, DropFreeRx,
       readerVars, WorkerCount, Running, Leaving, ChunkOf
  <2>2. CASE Fill \/ FillError \/ FillPanic
    BY <1>1, <2>2 DEF Fill, FillError, FillPanic, Nothing, readerVars, fixedVars,
       WorkerCount, Running, Leaving, ChunkOf
  <2>3. CASE Send
    <3>1. wpc = "send" /\ item' = item /\ faults' = faults
      BY <2>3 DEF Send, readerVars
    <3>2. CASE FilledRx /\ item.ok
      <4>1. left' = left - ChunkOf(left) /\ wpc' = WorkerNext(left')
        BY <1>1, <2>3, <3>1, <3>2 DEF Send, WorkerCount
      <4>2. left' \in 0 .. left
        BY <1>1, <4>1, ChunkBounds
      <4>3. "reader" \notin faults /\ "panic" \notin faults
        BY <1>1, <3>1, <3>2 DEF WorkerCount, Leaving
      <4>4. wpc' # "send" /\ (Running' => left' > 0)
        BY <4>1, <4>2, <1>1 DEF WorkerNext, Running
      <4> QED
        BY <3>1, <4>2, <4>3, <4>4 DEF WorkerCount
    <3>3. CASE ~(FilledRx /\ item.ok)
      BY <1>1, <2>3, <3>1, <3>3 DEF Send, WorkerCount, Running, Leaving
    <3> QED
      BY <3>2, <3>3
  <2> QED
    BY <1>2, <2>1, <2>2, <2>3 DEF Worker
<1>3. CASE Main
  <2>1. CASE Spawn
    BY <1>1, <2>1 DEF Spawn, WorkerNext, Stages, fixedVars, WorkerCount, Running, Leaving,
       ChunkOf
  <2>2. CASE ~Spawn
    <3>1. UNCHANGED <<wpc, left, item>>
      BY <1>3, <2>2, MainFrame
    <3>2. "reader" \in faults' => "reader" \in faults
      BY <1>3, <2>2 DEF Main, RefuseZeroRate, SetupFault, Check, ReadDevice, ReadFault,
         Recv, RecvDisconnected, JoinEarly, CompareChunk, ReturnBuffer, Throttle,
         DropFilledRx, DropFreeTx, Join
    <3>3. "panic" \in faults' => "panic" \in faults
      BY <1>3, <2>2 DEF Main, RefuseZeroRate, SetupFault, Check, ReadDevice, ReadFault,
         Recv, RecvDisconnected, JoinEarly, CompareChunk, ReturnBuffer, Throttle,
         DropFilledRx, DropFreeTx, Join
    <3> QED
      BY <1>1, <3>1, <3>2, <3>3 DEF WorkerCount, Running, Leaving, ChunkOf
  <2> QED
    BY <2>1, <2>2
<1>4. CASE RequestCancel
  BY <1>1, <1>4, CancelFrame DEF WorkerCount, Running, Leaving, ChunkOf
<1>5. CASE Terminated
  BY <1>1, <1>5 DEF Terminated, vars, readerVars, workerVars, WorkerCount, Running,
     Leaving, ChunkOf
<1> QED
  BY <1>2, <1>3, <1>4, <1>5 DEF Next

\* main ends up where Stages says, and joins early only over a panic.
LEMMA StagesStep ==
  ASSUME IInv, Next
  PROVE  Stages'
<1>1. /\ TypeOK /\ Stages /\ WorkerCount
      /\ outcome \in Outcomes /\ wpc \in WorkerStates
  BY DEF IInv, TypeOK, ReaderTypeOK
<1>2. CASE Worker
  BY <1>1, <1>2, WorkerFrame DEF Stages, InLoop
<1>3. CASE Spawn \/ RefuseZeroRate \/ SetupFault
  BY <1>1, <1>3 DEF Spawn, WorkerNext, RefuseZeroRate, SetupFault, Finish, Outcomes,
     fixedVars, workerVars, Stages, InLoop
<1>4. CASE Check \/ ReadDevice \/ ReadFault \/ Throttle
  <2>1. remaining \in Nat
    BY Numbers
  <2> QED
    BY <1>1, <1>4, <2>1 DEF Check, ReadDevice, ReadsDevice, ReadFault, Throttle,
       LeaveCancelled, fixedVars, workerVars, Stages, InLoop
<1>5. CASE Recv
  BY <1>1, <1>5 DEF Recv, fixedVars, workerVars, Stages, InLoop
<1>6. CASE RecvDisconnected
  <2>1. "panic" \in faults
    <3> SUFFICES ASSUME "panic" \notin faults PROVE FALSE
      OBVIOUS
    <3>1. pc = "recv" /\ filled = << >> /\ Leaving
      BY <1>6 DEF RecvDisconnected, FilledTx, Leaving
    <3>2. LastIsFinal /\ InOrder /\ remaining > 0 /\ offset + remaining = written
      BY <1>1, <3>1 DEF IInv, Flow, InLoop, Stages, Compared
    <3>3. left = 0
      BY <3>1, <3>2 DEF LastIsFinal
    <3>4. offset + 0 + 0 + left = written
      BY <3>1, <3>2, Numbers DEF InOrder, Front, Held, Queued
    <3> QED
      BY <3>2, <3>3, <3>4, Numbers
  <2> QED
    BY <1>1, <1>6, <2>1 DEF RecvDisconnected, fixedVars, workerVars, Stages, InLoop
<1>7. CASE JoinEarly \/ ReturnBuffer \/ DropFilledRx \/ DropFreeTx
  BY <1>1, <1>7 DEF JoinEarly, ReturnBuffer, DropFilledRx, DropFreeTx, fixedVars,
     workerVars, Stages, InLoop
<1>8. CASE CompareChunk
  BY <1>1, <1>8, CompareEffect DEF CompareChunk, fixedVars, workerVars, Stages, InLoop
<1>9. CASE Join
  BY <1>1, <1>9 DEF Join, Finish, Outcomes, fixedVars, workerVars, Stages, InLoop
<1>10. CASE RequestCancel
  BY <1>1, <1>10, CancelFrame DEF Stages, InLoop
<1>11. CASE Terminated
  BY <1>1, <1>11 DEF Terminated, vars, readerVars, workerVars, Stages, InLoop
<1> QED
  BY <1>2, <1>3, <1>4, <1>5, <1>6, <1>7, <1>8, <1>9, <1>10, <1>11 DEF Next, Main

\* The main thread's steps that neither compare a chunk nor touch the counters.
LEMMA CountersFrame ==
  ASSUME Main, ~CompareChunk
  PROVE  /\ UNCHANGED <<remaining, offset, diffAt>>
         /\ outcome' \in {outcome, "cancelled", "io", "protocol"}
         /\ mirror' \in {mirror, TRUE}
         /\ late' \in {late, late + 1}
         /\ faults' \in {faults, faults \cup {"device"}, faults \cup {"spawn"}}
  BY DEF Main, Spawn, RefuseZeroRate, SetupFault, Check, ReadDevice, ReadsDevice,
     ReadFault, Recv, RecvDisconnected, JoinEarly, ReturnBuffer, Throttle, LeaveCancelled,
     DropFilledRx, DropFreeTx, Join, fixedVars

\* What was found equal stays so: the device and the image are fixed.
LEMMA ComparedStep ==
  ASSUME IInv, Next
  PROVE  Compared'
<1>1. Compared /\ outcome \in Outcomes
  BY DEF IInv, TypeOK, ReaderTypeOK
<1>2. CASE Worker
  BY <1>1, <1>2, WorkerFrame DEF Compared, AgreesTo
<1>3. CASE Main /\ ~CompareChunk
  BY <1>1, <1>3, MainFrame, CountersFrame DEF Compared, AgreesTo
<1>4. CASE CompareChunk
  <2>1. UNCHANGED <<written, imageLen, disk>>
    BY <1>4 DEF CompareChunk, fixedVars
  <2>2. CASE outcome' = "ok"
    <3>1. /\ offset' = offset + hand.n /\ remaining' = remaining - hand.n
          /\ offset' <= imageLen /\ AgreesTo(offset + hand.n) /\ hand.n \in Nat
      BY <1>4, <2>2, CompareEffect
    <3>2. offset' + remaining' = written
      BY <1>1, <3>1, Numbers DEF Compared
    <3>3. AgreesTo(offset)'
      BY <2>1, <3>1 DEF AgreesTo
    <3> QED
      BY <2>1, <2>2, <3>1, <3>2, <3>3 DEF Compared
  <2>3. CASE outcome' # "ok"
    <3>1. /\ offset' = offset /\ remaining' = remaining
          /\ diffAt' \in offset .. written - 1 /\ disk[diffAt'] # diffAt'
          /\ AgreesTo(diffAt')
      BY <1>4, <2>3, CompareEffect
    <3>2. AgreesTo(offset)' /\ AgreesTo(diffAt)'
      BY <1>1, <2>1, <3>1 DEF AgreesTo, Compared
    <3> QED
      BY <1>1, <2>1, <3>1, <3>2 DEF Compared
  <2> QED
    BY <2>2, <2>3
<1>5. CASE RequestCancel
  BY <1>1, <1>5, CancelFrame DEF Compared, AgreesTo
<1>6. CASE Terminated
  BY <1>1, <1>6 DEF Terminated, vars, readerVars, Compared, AgreesTo
<1> QED
  BY <1>2, <1>3, <1>4, <1>5, <1>6 DEF Next

\* At most one chunk is read from the device after the flag was set.
LEMMA CancelStep ==
  ASSUME IInv, Next
  PROVE  CancelBound'
<1>1. CancelBound /\ Stages /\ late \in Nat /\ cancel \in BOOLEAN
  BY Numbers DEF IInv, TypeOK, ReaderTypeOK
<1>2. CASE Worker
  BY <1>1, <1>2, WorkerFrame DEF CancelBound
<1>3. CASE ReadDevice
  BY <1>1, <1>3 DEF ReadDevice, ReadsDevice, fixedVars, CancelBound
<1>4. CASE Check
  BY <1>1, <1>4 DEF Check, LeaveCancelled, fixedVars, CancelBound
<1>5. CASE Main /\ ~ReadDevice /\ ~Check
  BY <1>1, <1>5 DEF Main, Spawn, RefuseZeroRate, SetupFault, ReadFault, Recv,
     RecvDisconnected, JoinEarly, CompareChunk, ReturnBuffer, Throttle, LeaveCancelled,
     DropFilledRx, DropFreeTx, Join, Finish, CancelBound
<1>6. CASE RequestCancel
  BY <1>1, <1>6, CancelFrame DEF CancelBound
<1>7. CASE Terminated
  BY <1>1, <1>7 DEF Terminated, vars, readerVars, CancelBound
<1> QED
  BY <1>2, <1>3, <1>4, <1>5, <1>6, <1>7 DEF Next

\* The loop ends well only when everything was compared, badly only for a reason.
LEMMA OutcomeStep ==
  ASSUME IInv, Next
  PROVE  LoopOutcome'
<1>1. LoopOutcome /\ Stages /\ WorkerCount /\ Compared
  BY DEF IInv
<1>2. CASE Worker
  <2>1. "panic" \notin faults' => "panic" \notin faults
    BY <1>2, WorkerFrame
  <2>2. ASSUME pc' \in Cleanup, outcome' = "ok", "panic" \notin faults'
        PROVE  remaining' = 0 /\ left' = 0 /\ faults' = {}
    <3>1. pc \in Cleanup /\ outcome = "ok" /\ "panic" \notin faults
      BY <1>2, <2>1, <2>2, WorkerFrame
    <3>2. remaining = 0 /\ left = 0 /\ faults = {}
      BY <1>1, <3>1 DEF LoopOutcome
    <3>3. left' = 0
      BY <3>2, CountStep
    <3>4. wpc # "fill"
      BY <1>1, <3>2 DEF WorkerCount, Running
    <3> QED
      BY <1>2, <3>2, <3>3, <3>4, WorkerFrame
  <2>3. faults \subseteq faults'
    BY <1>2, WorkerFrame
  <2> QED
    BY <1>1, <1>2, <2>2, <2>3, WorkerFrame DEF LoopOutcome
<1>3. CASE Check
  <2>1. ASSUME remaining = 0 PROVE left = 0 /\ faults = {}
    <3>1. InOrder /\ LastIsFinal /\ pc = "check" /\ faults \subseteq FaultKinds
      BY <1>3 DEF Check, IInv, Flow, InLoop, TypeOK, ReaderTypeOK
    <3>2. Front = offset /\ Queued \in Nat
      <4>1. filled # << >> => filled[1] \in Item /\ Len(filled) \in {1, 2}
        BY <3>1, Numbers, TakeFirst DEF InOrder
      <4>2. Len(filled) = 2 => filled[2] \in Item
        <5>1. filled \in Seq(Item)
          BY Numbers
        <5> QED
          BY <5>1
      <4>3. Queued \in Nat
        <5>1. CASE filled = << >>
          BY <5>1 DEF Queued
        <5>2. CASE filled # << >> /\ Len(filled) = 1
          BY <4>1, <5>2, Numbers DEF Queued
        <5>3. CASE filled # << >> /\ Len(filled) = 2
          <6>1. filled[1].n \in Nat /\ filled[2].n \in Nat
            BY <4>1, <4>2, <5>3, Numbers
          <6> QED
            BY <5>3, <6>1 DEF Queued
        <5> QED
          BY <4>1, <5>1, <5>2, <5>3
      <4> QED
        BY <3>1, <4>3, Numbers DEF Front, Held
    <3>3. Front + Queued + left = written /\ offset = written
      BY <1>1, <2>1, <3>1, Numbers DEF InOrder, Compared
    <3>4. left = 0
      BY <3>2, <3>3, Numbers
    <3>5. "reader" \notin faults /\ "panic" \notin faults
      BY <1>1, <3>4 DEF WorkerCount
    <3> QED
      BY <3>1, <3>4, <3>5 DEF LastIsFinal, FaultKinds
  <2> QED
    BY <1>1, <1>3, <2>1 DEF Check, LeaveCancelled, fixedVars, workerVars, Stages, InLoop,
       Cleanup, LoopOutcome
<1>4. CASE Recv
  <2>1. filled # << >> /\ Head(filled) = filled[1] /\ Genuine(filled[1], Front)
    BY <1>4, Numbers, TakeFirst DEF Recv, IInv, Flow, InLoop, InOrder
  <2>2. ~filled[1].ok => "reader" \in faults \/ imageLen < written
    BY <2>1 DEF Genuine
  <2> QED
    BY <1>1, <1>4, <2>1, <2>2 DEF Recv, fixedVars, workerVars, Cleanup, LoopOutcome
<1>5. CASE CompareChunk
  BY <1>1, <1>5, CompareEffect DEF CompareChunk, fixedVars, workerVars, Cleanup,
     LoopOutcome
<1>6. CASE Spawn \/ RefuseZeroRate \/ SetupFault \/ ReadDevice \/ ReadFault
           \/ RecvDisconnected \/ JoinEarly
  BY <1>1, <1>6 DEF Spawn, RefuseZeroRate, SetupFault, ReadDevice, ReadFault,
     RecvDisconnected, JoinEarly, Finish, fixedVars, workerVars, Stages, InLoop, Cleanup,
     LoopOutcome
<1>7. CASE ReturnBuffer \/ Throttle \/ DropFilledRx \/ DropFreeTx \/ Join
  BY <1>1, <1>7 DEF ReturnBuffer, Throttle, LeaveCancelled, DropFilledRx, DropFreeTx,
     Join, Finish, fixedVars, workerVars, Cleanup, LoopOutcome
<1>8. CASE RequestCancel
  BY <1>1, <1>8, CancelFrame DEF Cleanup, LoopOutcome
<1>9. CASE Terminated
  BY <1>1, <1>9 DEF Terminated, vars, readerVars, workerVars, Cleanup, LoopOutcome
<1> QED
  BY <1>2, <1>3, <1>4, <1>5, <1>6, <1>7, <1>8, <1>9 DEF Next, Main

\* The pool never overflows: the buffer main gives back is one of the two.
LEMMA ReturnHasRoom ==
  ASSUME IInv, ReturnBuffer, FreeRx
  PROVE  free + 1 <= POOL
<1>1. /\ free \in Nat /\ Len(filled) \in Nat /\ pc = "return" /\ wpc \in WorkerStates
  BY Numbers DEF ReturnBuffer, IInv, TypeOK
<1>2. PoolConserved /\ wpc # "unborn"
  BY <1>1 DEF IInv, Flow, InLoop
<1>3. Running \/ Leaving
  BY <1>1, <1>2 DEF FreeRx, Running, Leaving, WorkerStates
<1>4. InUse = Len(filled) + 1
  BY <1>1 DEF InUse
<1>5. Running => free + InUse <= POOL
  BY <1>1, <1>2, <1>4 DEF PoolConserved, POOL
<1> QED
  BY <1>1, <1>2, <1>3, <1>4, <1>5 DEF PoolConserved, POOL

\* Every step keeps the variables in their types.
LEMMA TypeStep ==
  ASSUME IInv, Next
  PROVE  TypeOK'
<1>1. TypeOK /\ BUF_SIZE \in Nat \ {0} /\ DevSize \in Nat
  BY ReaderAssumption DEF ReaderAssumption, IInv
<1>2. UNCHANGED <<written, imageLen, throttle, disk>>
  <2>1. CASE Terminated
    BY <2>1 DEF Terminated, vars, readerVars
  <2> QED
    BY <2>1, WorkerFrame, MainFrame, CancelFrame DEF Next
<1>3. left' \in 0 .. written'
  BY <1>1, <1>2, CountStep, Numbers DEF TypeOK
<1>4. CASE Worker
  <2>1. ReaderTypeOK'
    BY <1>1, <1>4, WorkerFrame DEF TypeOK, ReaderTypeOK, FaultKinds
  <2>2. wpc' \in WorkerStates
    BY <1>4 DEF Worker, Acquire, AcquireDisconnected, PollMirror, Fill, FillError,
       FillPanic, Send, WorkerNext, DropFilledTx, DropFreeRx, WorkerStates
  <2>3. item' \in Item
    <3>1. CASE Fill
      <4>1. Nothing \in Item
        BY <1>1 DEF Nothing, Item
      <4>2. written - left \in Nat /\ ChunkOf(left) \in 0 .. BUF_SIZE
        <5>1. left \in 0 .. written /\ written \in Nat /\ left \in Nat
          BY <1>1, Numbers DEF TypeOK
        <5>2. ChunkOf(left) \in 0 .. BUF_SIZE
          BY <5>1, ChunkBounds
        <5> QED
          BY <5>1, <5>2
      <4>3. [ok |-> TRUE, from |-> written - left, n |-> ChunkOf(left)] \in Item
        BY <4>2 DEF Item
      <4> QED
        BY <3>1, <4>1, <4>3 DEF Fill
    <3>2. CASE FillError
      BY <1>1, <3>2 DEF FillError, Nothing, Item
    <3>3. CASE ~Fill /\ ~FillError
      BY <1>1, <1>4, <3>3 DEF TypeOK, Worker, Acquire, AcquireDisconnected, PollMirror,
         FillPanic, Send, DropFilledTx, DropFreeRx
    <3> QED
      BY <3>1, <3>2, <3>3
  <2>4. filled' \in Seq(Item)
    BY <1>1, <1>4 DEF TypeOK, Worker, Acquire, AcquireDisconnected, PollMirror, Fill,
       FillError, FillPanic, Send, DropFilledTx, DropFreeRx
  <2>5. free' \in 0 .. POOL
    BY <1>1, <1>4 DEF TypeOK, POOL, Worker, Acquire, AcquireDisconnected, PollMirror, Fill,
       FillError, FillPanic, Send, DropFilledTx, DropFreeRx
  <2> QED
    BY <1>1, <1>3, <1>4, <2>1, <2>2, <2>3, <2>4, <2>5, WorkerFrame DEF TypeOK
<1>5. CASE Main
  <2>1. remaining' \in 0 .. written /\ offset' \in 0 .. written /\ diffAt' \in Nat
    <3>1. CASE CompareChunk
      <4>1. offset' + remaining' = written'
        BY <1>5, ComparedStep DEF Compared
      <4>2. offset' \in Nat /\ remaining' \in Nat /\ diffAt' \in Nat
        BY <1>1, <3>1, CompareEffect, Numbers DEF TypeOK, ReaderTypeOK
      <4> QED
        BY <1>2, <4>1, <4>2, Numbers
    <3>2. CASE ~CompareChunk
      BY <1>1, <1>5, <3>2, CountersFrame DEF TypeOK, ReaderTypeOK
    <3> QED
      BY <3>1, <3>2
  <2>2. outcome' \in Outcomes
    BY <1>1, <1>5, CompareEffect, CountersFrame DEF TypeOK, ReaderTypeOK, Outcomes
  <2>3. result' \in Outcomes \cup {"running", "panic"}
    BY <1>1, <1>5 DEF TypeOK, ReaderTypeOK, Outcomes, Main, Spawn, RefuseZeroRate,
       SetupFault, Check, ReadDevice, ReadFault, Recv, RecvDisconnected, JoinEarly,
       CompareChunk, ReturnBuffer, Throttle, DropFilledRx, DropFreeTx, Join, Finish
  <2>4. late' \in Nat /\ faults' \in SUBSET FaultKinds /\ cancel' \in BOOLEAN
    <3>1. cancel \in BOOLEAN /\ faults \in SUBSET FaultKinds /\ late \in Nat
      BY <1>1 DEF TypeOK, ReaderTypeOK
    <3>2. cancel' = cancel
      BY <1>5, MainFrame
    <3>3. cancel' \in BOOLEAN
      BY <3>1, <3>2, Zenon
    <3>4. late' \in Nat /\ faults' \in SUBSET FaultKinds
      <4>1. CASE CompareChunk
        BY <3>1, <4>1 DEF CompareChunk
      <4>2. CASE ~CompareChunk
        <5>1. /\ late' \in {late, late + 1}
              /\ faults' \in {faults, faults \cup {"device"}, faults \cup {"spawn"}}
          BY <1>5, <4>2, CountersFrame
        <5>2. late' \in Nat
          BY <3>1, <5>1
        <5>3. faults' \in SUBSET FaultKinds
          BY <3>1, <5>1 DEF FaultKinds
        <5> QED
          BY <5>2, <5>3
      <4> QED
        BY <4>1, <4>2
    <3> QED
      BY <3>3, <3>4
  <2>5. ReaderTypeOK'
    BY <1>1, <1>2, <2>1, <2>2, <2>3, <2>4 DEF TypeOK, ReaderTypeOK
  <2>6. pc' \in MainStates
    BY <1>5 DEF Main, Spawn, RefuseZeroRate, SetupFault, Check, ReadDevice, ReadFault,
       Recv, RecvDisconnected, JoinEarly, CompareChunk, ReturnBuffer, Throttle,
       LeaveCancelled, DropFilledRx, DropFreeTx, Join, Finish, MainStates, InLoop
  <2>7. wpc' \in WorkerStates
    BY <1>1, <1>5, MainFrame DEF TypeOK, Spawn, WorkerNext, WorkerStates
  <2>8. hand' \in Item /\ filled' \in Seq(Item)
    <3>1. CASE Recv
      <4>1. Tail(filled) \in Seq(Item) /\ Head(filled) \in Item
        BY <1>1, <3>1 DEF Recv, TypeOK
      <4> QED
        BY <1>1, <3>1, <4>1 DEF Recv, TypeOK
    <3>2. CASE ~Recv
      <4>1. hand' = hand /\ filled' \in {filled, << >>}
        BY <1>5, <3>2 DEF Main, Spawn, RefuseZeroRate, SetupFault, Check, ReadDevice,
           ReadFault, RecvDisconnected, JoinEarly, CompareChunk, ReturnBuffer, Throttle,
           DropFilledRx, DropFreeTx, Join
      <4>2. << >> \in Seq(Item) /\ hand \in Item /\ filled \in Seq(Item)
        BY <1>1 DEF TypeOK
      <4> QED
        BY <4>1, <4>2, Zenon
    <3> QED
      BY <3>1, <3>2
  <2>9. free' \in 0 .. POOL
    <3>1. CASE ReturnBuffer
      BY <1>1, <3>1, ReturnHasRoom DEF ReturnBuffer, TypeOK, POOL
    <3>2. CASE ~ReturnBuffer
      BY <1>1, <1>5, <3>2 DEF TypeOK, POOL, Main, Spawn, RefuseZeroRate, SetupFault,
         Check, ReadDevice, ReadFault, Recv, RecvDisconnected, JoinEarly, CompareChunk,
         Throttle, DropFilledRx, DropFreeTx, Join
    <3> QED
      BY <3>1, <3>2
  <2>10. mirror' \in BOOLEAN
    <3>1. CASE CompareChunk
      BY <1>1, <3>1 DEF CompareChunk, TypeOK
    <3>2. CASE ~CompareChunk
      BY <1>1, <1>5, <3>2, CountersFrame DEF TypeOK
    <3> QED
      BY <3>1, <3>2
  <2>11. item' \in Item
    BY <1>1, <1>5, MainFrame DEF TypeOK
  <2> QED
    BY <1>3, <2>5, <2>6, <2>7, <2>8, <2>9, <2>10, <2>11 DEF TypeOK
<1>6. CASE RequestCancel
  BY <1>1, <1>6, CancelFrame DEF TypeOK, ReaderTypeOK
<1>7. CASE Terminated
  BY <1>1, <1>7 DEF Terminated, vars, readerVars, workerVars, TypeOK, ReaderTypeOK
<1> QED
  BY <1>4, <1>5, <1>6, <1>7 DEF Next

Promises == PassIsFullCompare /\ FailureHasCause /\ WorkerSettled

\* A phase that runs has promised nothing, and one that ended changes no more.
LEMMA PromisesStep ==
  ASSUME IInv, Next
  PROVE  Promises'
<1>1. Promises /\ Stages /\ LoopOutcome /\ Compared /\ outcome \in Outcomes
  BY DEF IInv, Promises, TypeOK, ReaderTypeOK
<1>2. CASE result' = "running"
  BY <1>2 DEF Promises, PassIsFullCompare, FailureHasCause, WorkerSettled
<1>3. CASE RefuseZeroRate \/ SetupFault
  BY <1>1, <1>3 DEF RefuseZeroRate, SetupFault, Finish, fixedVars, workerVars, Stages,
     Promises, PassIsFullCompare, FailureHasCause, WorkerSettled
<1>4. CASE Join
  <2>1. /\ wpc' = "gone" /\ result' = IF "panic" \in faults THEN "panic" ELSE outcome
        /\ UNCHANGED <<written, imageLen, throttle, disk, cancel, faults, remaining, offset>>
        /\ pc = "join"
    BY <1>4 DEF Join, Finish, fixedVars, workerVars
  <2>2. CASE "panic" \in faults
    BY <2>1, <2>2 DEF Promises, PassIsFullCompare, FailureHasCause, WorkerSettled
  <2>3. CASE "panic" \notin faults /\ outcome = "ok"
    <3>1. remaining = 0 /\ faults = {}
      BY <1>1, <2>1, <2>3 DEF LoopOutcome, Cleanup
    <3>2. offset = written /\ offset <= imageLen /\ AgreesTo(written)
      BY <1>1, <3>1, Numbers DEF Compared
    <3> QED
      BY <2>1, <2>3, <3>1, <3>2, Numbers
         DEF AgreesTo, Promises, PassIsFullCompare, FailureHasCause, WorkerSettled
  <2>4. CASE "panic" \notin faults /\ outcome # "ok"
    BY <1>1, <2>1, <2>4 DEF LoopOutcome, Outcomes, Promises, PassIsFullCompare,
       FailureHasCause, WorkerSettled
  <2> QED
    BY <2>2, <2>3, <2>4
<1>5. CASE result # "running"
  <2>1. pc = "done" /\ wpc \in {"unborn", "gone"}
    BY <1>1, <1>5 DEF Stages
  <2>2. ~Worker /\ ~Main
    BY <2>1, WorkerFrame DEF Main, Spawn, RefuseZeroRate, SetupFault, Check, ReadDevice,
       ReadFault, Recv, RecvDisconnected, JoinEarly, CompareChunk, ReturnBuffer, Throttle,
       DropFilledRx, DropFreeTx, Join
  <2>3. CASE RequestCancel
    BY <1>1, <2>3, CancelFrame DEF Promises, PassIsFullCompare, FailureHasCause,
       WorkerSettled
  <2>4. CASE Terminated
    BY <1>1, <2>4 DEF Terminated, vars, readerVars, workerVars, Promises,
       PassIsFullCompare, FailureHasCause, WorkerSettled
  <2> QED
    BY <2>2, <2>3, <2>4 DEF Next
<1>6. result' = result \/ RefuseZeroRate \/ SetupFault \/ Join
  BY WorkerFrame, CancelFrame DEF Next, Main, Spawn, Check, ReadDevice, ReadFault, Recv,
     RecvDisconnected, JoinEarly, CompareChunk, ReturnBuffer, Throttle, DropFilledRx,
     DropFreeTx, Terminated, vars, readerVars
<1> QED
  BY <1>2, <1>3, <1>4, <1>5, <1>6

-----------------------------------------------------------------------------
(* The invariant. *)

\* The strengthened invariant holds before the first step.
LEMMA InitInv == Init => IInv
<1> SUFFICES ASSUME Init PROVE IInv
  OBVIOUS
<1> USE ReaderAssumption DEF ReaderAssumption
<1>1. /\ pc = "setup" /\ wpc = "unborn" /\ result = "running" /\ outcome = "ok"
      /\ faults = {} /\ late = 0 /\ offset = 0 /\ remaining = written /\ left = written
      /\ hand = Nothing /\ item = Nothing /\ filled = << >> /\ free = 0 /\ mirror = FALSE
      /\ written \in 0 .. DevSize /\ imageLen \in 0 .. MaxImage
  BY DEF Init, ReaderInit
<1>2. written \in Nat /\ imageLen \in Nat
  BY <1>1
<1>3. ReaderTypeOK
  <2>1. disk \in [Places -> Nat \cup {Old}]
    <3>1. PICK lost \in SUBSET (0 .. written - 1) :
            disk = [i \in Places |-> IF i < written /\ i \notin lost THEN i ELSE Old]
      BY DEF Init, ReaderInit
    <3>2. \A i \in Places : i \in Nat
      BY DEF Places
    <3> QED
      BY <3>1, <3>2
  <2>2. throttle \in {"off", "rate", "zero"} /\ cancel = FALSE /\ diffAt = 0
    BY DEF Init, ReaderInit
  <2>3. /\ remaining \in 0 .. written /\ offset \in 0 .. written /\ diffAt \in Nat
        /\ late \in Nat /\ faults \in SUBSET FaultKinds
    BY <1>1, <1>2, <2>2
  <2>4. outcome \in Outcomes /\ result \in Outcomes \cup {"running", "panic"}
    BY <1>1 DEF Outcomes
  <2>5. cancel \in BOOLEAN
    BY <2>2, Zenon
  <2> QED
    BY <1>1, <2>1, <2>2, <2>3, <2>4, <2>5 DEF ReaderTypeOK
<1>4. TypeOK
  <2>1. Nothing \in Item /\ << >> \in Seq(Item)
    BY DEF Nothing, Item
  <2>2. hand \in Item /\ item \in Item /\ filled \in Seq(Item)
    BY <1>1, <2>1, Zenon
  <2>3. pc \in MainStates /\ wpc \in WorkerStates
    BY <1>1 DEF MainStates, WorkerStates
  <2>4. free \in 0 .. POOL /\ left \in 0 .. written
    BY <1>1, <1>2 DEF POOL
  <2>5. mirror \in BOOLEAN
    BY <1>1, Zenon
  <2> QED
    BY <1>3, <2>2, <2>3, <2>4, <2>5 DEF TypeOK
<1>5. Stages
  BY <1>1 DEF Stages, InLoop
<1>6. Compared
  BY <1>1, <1>2 DEF Compared, AgreesTo
<1>7. WorkerCount /\ Flow /\ LoopOutcome /\ CancelBound
  BY <1>1 DEF WorkerCount, Running, Flow, InLoop, LoopOutcome, Cleanup, CancelBound
<1>8. PassIsFullCompare /\ FailureHasCause /\ WorkerSettled
  BY <1>1 DEF PassIsFullCompare, FailureHasCause, WorkerSettled
<1> QED
  BY <1>4, <1>5, <1>6, <1>7, <1>8 DEF IInv

\* Every step of either thread, or of the caller, keeps it.
LEMMA StepInv == IInv /\ [Next]_vars => IInv'
<1> SUFFICES ASSUME IInv, [Next]_vars PROVE IInv'
  OBVIOUS
<1>1. CASE Next
  <2>1. Flow'
    BY <1>1, FlowStep DEF Flow
  <2> QED
    BY <1>1, <2>1, TypeStep, StagesStep, ComparedStep, CountStep, OutcomeStep, CancelStep,
       PromisesStep DEF IInv, Promises
<1>2. CASE UNCHANGED vars
  <2> USE <1>2 DEF IInv, vars, readerVars, workerVars
  <2>1. TypeOK' /\ Stages' /\ Compared'
    BY DEF TypeOK, ReaderTypeOK, Stages, Compared, AgreesTo
  <2>2. WorkerCount' /\ LoopOutcome' /\ CancelBound'
    BY DEF WorkerCount, Running, Leaving, ChunkOf, LoopOutcome, Cleanup, CancelBound
  <2>3. Flow'
    BY DEF Flow, InOrder, Held, Front, Queued, Genuine, ChunkOf, LastIsFinal, Running,
           Leaving, PoolConserved, InUse
  <2>4. PassIsFullCompare' /\ FailureHasCause' /\ WorkerSettled'
    BY DEF PassIsFullCompare, FailureHasCause, WorkerSettled
  <2> QED
    BY <2>1, <2>2, <2>3, <2>4
<1> QED
  BY <1>1, <1>2

\* The strengthened invariant holds in every reachable state.
THEOREM Invariance == Spec => []IInv
<1> QED
  BY InitInv, StepInv, PTL DEF Spec

\* Both threads keep every variable in its type; neither count goes below zero
\* and free never exceeds the pool.
THEOREM TypeCorrect == Spec => []TypeOK
<1>1. IInv => TypeOK
  BY DEF IInv
<1> QED
  BY <1>1, Invariance, PTL

\* verify returning Ok means that every byte Phase 4 reported was compared.
THEOREM PassMeansEqual == Spec => []PassIsFullCompare
<1>1. IInv => PassIsFullCompare
  BY DEF IInv
<1> QED
  BY <1>1, Invariance, PTL

\* The phase reports no error that the environment did not cause: the two chunk
\* sequences agree, and both protocol-violation branches are dead.
THEOREM FailureIsCaused == Spec => []FailureHasCause
<1>1. IInv => FailureHasCause
  BY DEF IInv
<1> QED
  BY <1>1, Invariance, PTL

\* The polls of the cancel flag admit at most one read after it was set.
THEOREM CancelIsPrompt == Spec => []CancelStopsReading
<1>1. IInv => CancelStopsReading
  BY DEF IInv, CancelBound, CancelStopsReading
<1> QED
  BY <1>1, Invariance, PTL

\* The phase ends only over a worker that ended, and no panic of it is lost.
THEOREM WorkerIsSettled == Spec => []WorkerSettled
<1>1. IInv => WorkerSettled
  BY DEF IInv
<1> QED
  BY <1>1, Invariance, PTL

\* The two threads never wait for each other.
THEOREM NoDeadlock == Spec => []NeverBothParked
<1>1. IInv => NeverBothParked
  <2> SUFFICES ASSUME IInv, MainParked, WorkerParked PROVE FALSE
    BY DEF NeverBothParked
  <2>1. CASE pc = "recv" /\ filled = << >>
    <3>1. PoolConserved /\ Len(filled) = 0
      BY <2>1 DEF IInv, Flow, InLoop
    <3>2. InUse = 0
      BY <2>1, <3>1 DEF InUse
    <3> QED
      BY <3>1, <3>2 DEF WorkerParked, PoolConserved, Running, POOL
  <2>2. CASE pc = "join"
    BY <2>2 DEF WorkerParked, FreeTx, FilledRx, InLoop
  <2>3. CASE pc = "join_early"
    BY <2>3 DEF WorkerParked, IInv, Stages, WorkerCount, Leaving
  <2> QED
    BY <2>1, <2>2, <2>3 DEF MainParked
<1> QED
  BY <1>1, Invariance, PTL

-----------------------------------------------------------------------------
(* The pipelined arm implements ImageCompare. *)

\* One step of the two threads is a step of the abstract compare, or a stutter.
LEMMA CompareStep == IInv /\ IInv' /\ [Next]_vars => [Promise!Next]_(Promise!vars)
<1> SUFFICES ASSUME IInv, IInv', [Next]_vars PROVE [Promise!Next]_(Promise!vars)
  OBVIOUS
<1>1. ASSUME UNCHANGED <<written, disk, offset, result>>, result = "running"
      PROVE  [Promise!Next]_(Promise!vars)
  BY <1>1 DEF Promise!vars
<1>2. ASSUME UNCHANGED <<written, disk, offset, result, diffAt>>
      PROVE  [Promise!Next]_(Promise!vars)
  BY <1>2 DEF Promise!vars
<1>3. ASSUME UNCHANGED <<written, disk, offset>>, result = "running",
             result' \notin {"running", "ok", "mismatch"}
      PROVE  [Promise!Next]_(Promise!vars)
  BY <1>3 DEF Promise!Next, Promise!Fail
<1>4. CASE CompareChunk
  <2>1. /\ result = "running" /\ result' = "running" /\ UNCHANGED <<written, disk>>
        /\ offset \in Nat /\ remaining \in Nat /\ offset + remaining = written
    BY <1>4, Numbers DEF CompareChunk, fixedVars, IInv, Stages, InLoop, Compared
  <2>2. CASE outcome' = "ok"
    <3>1. /\ offset' = offset + hand.n /\ hand.n \in Nat /\ hand.n > 0
          /\ hand.n <= remaining /\ AgreesTo(offset + hand.n)
      BY <1>4, <2>2, CompareEffect
    <3>2. offset' \in offset + 1 .. written
      BY <2>1, <3>1
    <3>3. Promise!AgreesTo(offset')
      BY <3>1 DEF AgreesTo, Promise!AgreesTo
    <3> QED
      BY <2>1, <3>2, <3>3 DEF Promise!Next, Promise!Agree
  <2>3. CASE outcome' # "ok"
    <3>1. offset' = offset
      BY <1>4, <2>3, CompareEffect
    <3> QED
      BY <1>1, <2>1, <3>1
  <2> QED
    BY <2>2, <2>3
<1>5. CASE Join
  <2>1. /\ UNCHANGED <<written, disk, offset, diffAt>> /\ pc = "join"
        /\ result' = IF "panic" \in faults THEN "panic" ELSE outcome
    BY <1>5 DEF Join, Finish, fixedVars
  <2>2. result = "running" /\ LoopOutcome /\ Compared /\ outcome \in Outcomes
    BY <2>1 DEF IInv, Stages, TypeOK, ReaderTypeOK
  <2>3. CASE result' = "ok"
    <3>1. outcome = "ok" /\ "panic" \notin faults
      BY <2>1, <2>3
    <3>2. remaining = 0
      BY <2>1, <2>2, <3>1 DEF LoopOutcome, Cleanup
    <3>3. offset = written
      BY <2>2, <3>2, Numbers DEF Compared
    <3> QED
      BY <2>1, <2>2, <2>3, <3>3 DEF Promise!Next, Promise!Succeed
  <2>4. CASE result' = "mismatch"
    <3>1. outcome = "mismatch"
      BY <2>1, <2>4
    <3>2. /\ diffAt \in offset .. written - 1 /\ disk[diffAt] # diffAt /\ AgreesTo(diffAt)
      BY <2>2, <3>1 DEF Compared
    <3>3. Promise!AgreesTo(diffAt)
      BY <3>2 DEF AgreesTo, Promise!AgreesTo
    <3> QED
      BY <2>1, <2>2, <2>4, <3>2, <3>3 DEF Promise!Next, Promise!Mismatch, Promise!AgreesTo
  <2>5. CASE result' \notin {"ok", "mismatch"}
    <3>1. result' \notin {"running", "ok", "mismatch"}
      BY <2>1, <2>2, <2>5 DEF Outcomes
    <3> QED
      BY <1>3, <2>1, <2>2, <3>1
  <2> QED
    BY <2>3, <2>4, <2>5
<1>6. CASE RefuseZeroRate \/ SetupFault
  BY <1>3, <1>6 DEF RefuseZeroRate, SetupFault, Finish, fixedVars, IInv, Stages
<1>7. CASE Main /\ ~CompareChunk /\ ~Join /\ ~RefuseZeroRate /\ ~SetupFault
  <2>1. UNCHANGED <<written, disk, offset, diffAt>>
    BY <1>7, MainFrame, CountersFrame
  <2>2. result' = result
    BY <1>7 DEF Main, Spawn, Check, ReadDevice, ReadFault, Recv, RecvDisconnected,
       JoinEarly, ReturnBuffer, Throttle, DropFilledRx, DropFreeTx
  <2> QED
    BY <1>2, <2>1, <2>2
<1>8. CASE Worker \/ RequestCancel
  BY <1>2, <1>8, WorkerFrame, CancelFrame
<1>9. CASE UNCHANGED vars
  BY <1>2, <1>9 DEF vars, readerVars
<1> QED
  BY <1>4, <1>5, <1>6, <1>7, <1>8, <1>9 DEF Next, Terminated

\* Phase 5b's pipelined arm keeps the promise ImageCompare states: what it passes
\* agrees with the image, and a mismatch names the first place that does not.
THEOREM PipelineCompares == Spec => CompareSpec
<1>1. Init => Promise!Init
  <2> SUFFICES ASSUME Init PROVE Promise!Init
    OBVIOUS
  <2>1. TypeOK
    BY InitInv DEF IInv
  <2> QED
    BY <2>1 DEF Init, ReaderInit, TypeOK, ReaderTypeOK, Places, Promise!Init
<1> QED
  BY <1>1, Invariance, CompareStep, PTL DEF Spec, CompareSpec, Promise!Spec
=============================================================================
