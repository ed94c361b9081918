--------------------------- MODULE VerifyPipeline ---------------------------
(***************************************************************************)
(* The pipelined arm of Phase 5b (phases/phase_5.rs, verify_pipelined and  *)
(* verify_worker_loop): the worker decompresses the image a second time    *)
(* while main reads the device.  The channels are those of the write       *)
(* pipeline; what differs is that both threads pace themselves by          *)
(* bytes_written, that main reads before it receives, and that the loop    *)
(* has one more way out: everything compared.                              *)
(***************************************************************************)
EXTENDS ChunkReader, Sequences

VARIABLES
  hand,    \* the item main took from `filled`
  filled,  \* items in flight to main
  free,    \* buffers in flight to the worker
  mirror,  \* local_cancel, the copy of the cancel flag the worker can see
  wpc,     \* the worker's program counter
  left,    \* the worker's own count of what is still to be produced
  item     \* what the worker is about to send

readerVars == <<written, imageLen, throttle, disk, cancel, faults, pc, remaining,
                offset, outcome, diffAt, result, late>>
workerVars == <<wpc, left, item>>
vars == <<readerVars, hand, filled, free, mirror, workerVars>>

POOL == 2

Item == [ok : BOOLEAN, from : Nat, n : 0 .. BUF_SIZE]
Nothing == [ok |-> FALSE, from |-> 0, n |-> 0]

InLoop == {"check", "read", "recv", "chunk", "return", "throttle"}
MainStates == {"setup", "join_early", "drop_filled", "drop_free", "join", "done"}
                \cup InLoop
WorkerStates == {"unborn", "acquire", "poll", "fill", "send", "drop_filled",
                 "drop_free", "gone"}

TypeOK ==
  /\ ReaderTypeOK
  /\ pc \in MainStates
  /\ wpc \in WorkerStates
  /\ hand \in Item
  /\ item \in Item
  /\ filled \in Seq(Item)
  /\ free \in 0 .. POOL
  /\ mirror \in BOOLEAN
  /\ left \in 0 .. written

Init ==
  /\ ReaderInit
  /\ hand = Nothing
  /\ filled = << >>
  /\ free = 0
  /\ mirror = FALSE
  /\ wpc = "unborn"
  /\ left = written
  /\ item = Nothing

\* The four channel halves, alive until their owner drops them.
FilledTx == wpc \notin {"drop_free", "gone"}
FreeRx == wpc # "gone"
FilledRx == pc \in {"setup", "join_early", "drop_filled"} \cup InLoop

FreeTx == FilledRx \/ pc = "drop_free"

-----------------------------------------------------------------------------
(* The main thread. *)

\* Top of the worker's loop: done once the last chunk was sent.
WorkerNext(l) == IF l = 0 THEN "drop_filled" ELSE "acquire"

\* Seed the pool, start the worker.
Spawn ==
  /\ pc = "setup"
  /\ throttle # "zero"
  /\ free' = POOL
  /\ wpc' = WorkerNext(left)
  /\ pc' = "check"
  /\ UNCHANGED <<fixedVars, cancel, faults, remaining, offset, outcome, diffAt,
                 result, late, hand, filled, mirror, left, item>>

RefuseZeroRate ==
  /\ pc = "setup"
  /\ throttle = "zero"
  /\ Finish("rate")
  /\ UNCHANGED <<fixedVars, cancel, faults, remaining, offset, outcome, diffAt,
                 late, hand, filled, free, mirror, workerVars>>

\* A buffer allocation fails, or the OS refuses the thread and spawn panics.
SetupFault ==
  /\ pc = "setup"
  /\ \/ Finish("io") /\ faults' = faults \cup {"device"}
     \/ throttle # "zero" /\ Finish("panic") /\ faults' = faults \cup {"spawn"}
  /\ UNCHANGED <<fixedVars, cancel, remaining, offset, outcome, diffAt, late,
                 hand, filled, free, mirror, workerVars>>

\* Leave the loop as cancelled, telling the worker.
LeaveCancelled ==
  /\ mirror' = TRUE
  /\ outcome' = "cancelled"
  /\ pc' = "drop_filled"

\* Mutant of Check: the flag is only looked at before the first chunk.
CheckOnce ==
  /\ pc = "check"
  /\ IF remaining = 0
     THEN pc' = "drop_filled" /\ UNCHANGED <<mirror, outcome>>
     ELSE IF cancel /\ offset = 0 THEN LeaveCancelled
     ELSE pc' = "read" /\ UNCHANGED <<mirror, outcome>>
  /\ UNCHANGED <<fixedVars, cancel, faults, remaining, offset, diffAt, result,
                 late, hand, filled, free, workerVars>>

\* Top of 'verify_loop: everything compared, or the cancel check.
Check ==
  /\ pc = "check"
  /\ IF remaining = 0
     THEN pc' = "drop_filled" /\ UNCHANGED <<mirror, outcome>>
     ELSE IF cancel THEN LeaveCancelled
     ELSE pc' = "read" /\ UNCHANGED <<mirror, outcome>>
  /\ UNCHANGED <<fixedVars, cancel, faults, remaining, offset, diffAt, result,
                 late, hand, filled, free, workerVars>>

\* The device is read first, while the worker decompresses.
ReadDevice ==
  /\ pc = "read"
  /\ ReadsDevice
  /\ pc' = "recv"
  /\ UNCHANGED <<fixedVars, cancel, faults, remaining, offset, outcome, diffAt,
                 result, hand, filled, free, mirror, workerVars>>

ReadFault ==
  /\ pc = "read"
  /\ outcome' = "io"
  /\ faults' = faults \cup {"device"}
  /\ pc' = "drop_filled"
  /\ UNCHANGED <<fixedVars, cancel, remaining, offset, diffAt, result, late,
                 hand, filled, free, mirror, workerVars>>

\* filled_rx.recv() finds an item: a chunk to compare, or the worker's error.
Recv ==
  /\ pc = "recv"
  /\ filled # << >>
  /\ filled' = Tail(filled)
  /\ IF Head(filled).ok
     THEN hand' = Head(filled) /\ pc' = "chunk" /\ UNCHANGED outcome
     ELSE outcome' = "io" /\ pc' = "drop_filled" /\ UNCHANGED hand
  /\ UNCHANGED <<fixedVars, cancel, faults, remaining, offset, diffAt, result,
                 late, free, mirror, workerVars>>

\* filled_rx.recv() finds the channel disconnected and empty.
RecvDisconnected ==
  /\ pc = "recv"
  /\ filled = << >>
  /\ ~FilledTx
  /\ pc' = "join_early"
  /\ UNCHANGED <<fixedVars, cancel, faults, remaining, offset, outcome, diffAt,
                 result, late, hand, filled, free, mirror, workerVars>>

\* Mutant of JoinEarly: a worker that left early is taken for the end.
JoinEarlyAsEnd ==
  /\ pc = "join_early"
  /\ wpc = "gone"
  /\ pc' = "drop_filled"
  /\ faults' = faults \ {"panic"}
  /\ UNCHANGED <<fixedVars, cancel, remaining, offset, outcome, diffAt, result,
                 late, hand, filled, free, mirror, workerVars>>

\* Joining tells a panic, re-raised after the cleanup, from a silent exit.
JoinEarly ==
  /\ pc = "join_early"
  /\ wpc = "gone"
  /\ outcome' = IF "panic" \in faults THEN outcome ELSE "protocol"
  /\ pc' = "drop_filled"
  /\ UNCHANGED <<fixedVars, cancel, faults, remaining, offset, diffAt, result,
                 late, hand, filled, free, mirror, workerVars>>

\* The two lengths must agree before the chunks are compared.
CompareChunk ==
  /\ pc = "chunk"
  /\ IF hand.n # ChunkOf(remaining)
     THEN outcome' = "protocol" /\ UNCHANGED <<remaining, offset, diffAt>>
     ELSE Matched(hand.from, hand.n) \/ Mismatched(hand.from, hand.n)
  /\ pc' = IF outcome' = "ok" THEN "return" ELSE "drop_filled"
  /\ UNCHANGED <<fixedVars, cancel, faults, result, late, hand, filled, free,
                 mirror, workerVars>>

\* Mutant of ReturnBuffer: the buffer is dropped.
ReturnNothing ==
  /\ pc = "return"
  /\ pc' = IF throttle = "rate" THEN "throttle" ELSE "check"
  /\ UNCHANGED <<fixedVars, cancel, faults, remaining, offset, outcome, diffAt,
                 result, late, hand, filled, free, mirror, workerVars>>

\* free_tx.send(img_buf); once the worker is gone the buffer is just dropped.
ReturnBuffer ==
  /\ pc = "return"
  /\ free' = IF FreeRx THEN free + 1 ELSE free
  /\ pc' = IF throttle = "rate" THEN "throttle" ELSE "check"
  /\ UNCHANGED <<fixedVars, cancel, faults, remaining, offset, outcome, diffAt,
                 result, late, hand, filled, mirror, workerVars>>

\* Throttled: either the chunk already took its time, or main sleeps and polls
\* the flag again -- after the last chunk too, when nothing is left to compare.
Throttle ==
  /\ pc = "throttle"
  /\ \/ pc' = "check" /\ UNCHANGED <<mirror, outcome>>
     \/ cancel /\ LeaveCancelled
  /\ UNCHANGED <<fixedVars, cancel, faults, remaining, offset, diffAt, result,
                 late, hand, filled, free, workerVars>>

\* The cleanup every exit of the loop reaches: both channel halves, then join.
DropFilledRx ==
  /\ pc = "drop_filled"
  /\ filled' = << >>
  /\ pc' = "drop_free"
  /\ UNCHANGED <<fixedVars, cancel, faults, remaining, offset, outcome, diffAt,
                 result, late, hand, free, mirror, workerVars>>

DropFreeTx ==
  /\ pc = "drop_free"
  /\ pc' = "join"
  /\ UNCHANGED <<fixedVars, cancel, faults, remaining, offset, outcome, diffAt,
                 result, late, hand, filled, free, mirror, workerVars>>

\* Mutant of Join: the loop's outcome is returned without the join.
JoinSkipped ==
  /\ pc = "join"
  /\ Finish(outcome)
  /\ UNCHANGED <<fixedVars, cancel, faults, remaining, offset, outcome, diffAt,
                 late, hand, filled, free, mirror, workerVars>>

\* A worker panic outranks the loop's own outcome.
Join ==
  /\ pc = "join"
  /\ wpc = "gone"
  /\ Finish(IF "panic" \in faults THEN "panic" ELSE outcome)
  /\ UNCHANGED <<fixedVars, cancel, faults, remaining, offset, outcome, diffAt,
                 late, hand, filled, free, mirror, workerVars>>

Main ==
  \/ Spawn \/ RefuseZeroRate \/ SetupFault
  \/ Check \/ ReadDevice \/ ReadFault \/ Recv \/ RecvDisconnected \/ JoinEarly
  \/ CompareChunk \/ ReturnBuffer \/ Throttle
  \/ DropFilledRx \/ DropFreeTx \/ Join

-----------------------------------------------------------------------------
(* The worker thread. *)

\* Mutant of Acquire: the pool does not shrink.
AcquireCopy ==
  /\ wpc = "acquire"
  /\ free > 0
  /\ wpc' = "poll"
  /\ UNCHANGED <<readerVars, hand, filled, free, mirror, left, item>>

Acquire ==
  /\ wpc = "acquire"
  /\ free > 0
  /\ free' = free - 1
  /\ wpc' = "poll"
  /\ UNCHANGED <<readerVars, hand, filled, mirror, left, item>>

\* free_rx.recv() fails only once main dropped its half and the queue is empty.
AcquireDisconnected ==
  /\ wpc = "acquire"
  /\ free = 0
  /\ ~FreeTx
  /\ wpc' = "drop_filled"
  /\ UNCHANGED <<readerVars, hand, filled, free, mirror, left, item>>

PollMirror ==
  /\ wpc = "poll"
  /\ wpc' = IF mirror THEN "drop_filled" ELSE "fill"
  /\ UNCHANGED <<readerVars, hand, filled, free, mirror, left, item>>

\* fill_exact of the worker's own chunk; a stream that ends early is an error.
Fill ==
  /\ wpc = "fill"
  /\ LET from == written - left  n == ChunkOf(left) IN
       item' = IF Yields(from, n) THEN [ok |-> TRUE, from |-> from, n |-> n]
               ELSE Nothing
  /\ wpc' = "send"
  /\ UNCHANGED <<readerVars, hand, filled, free, mirror, left>>

\* The image file or the decoder reports an error, or the decoder panics.
FillError ==
  /\ wpc = "fill"
  /\ item' = Nothing
  /\ faults' = faults \cup {"reader"}
  /\ wpc' = "send"
  /\ UNCHANGED <<fixedVars, cancel, pc, remaining, offset, outcome, diffAt,
                 result, late, hand, filled, free, mirror, left>>

FillPanic ==
  /\ wpc = "fill"
  /\ faults' = faults \cup {"panic"}
  /\ wpc' = "drop_filled"
  /\ UNCHANGED <<fixedVars, cancel, pc, remaining, offset, outcome, diffAt,
                 result, late, hand, filled, free, mirror, left, item>>

\* A chunk counts only once it was handed over; an error is the last item.
Send ==
  /\ wpc = "send"
  /\ filled' = IF FilledRx THEN Append(filled, item) ELSE filled
  /\ IF FilledRx /\ item.ok
     THEN left' = left - item.n /\ wpc' = WorkerNext(left')
     ELSE wpc' = "drop_filled" /\ UNCHANGED left
  /\ UNCHANGED <<readerVars, hand, free, mirror, item>>

\* The thread ends: its captured channel halves are dropped in this order.
DropFilledTx ==
  /\ wpc = "drop_filled"
  /\ wpc' = "drop_free"
  /\ UNCHANGED <<readerVars, hand, filled, free, mirror, left, item>>

DropFreeRx ==
  /\ wpc = "drop_free"
  /\ free' = 0
  /\ wpc' = "gone"
  /\ UNCHANGED <<readerVars, hand, filled, mirror, left, item>>

Worker ==
  \/ Acquire \/ AcquireDisconnected \/ PollMirror
  \/ Fill \/ FillError \/ FillPanic \/ Send
  \/ DropFilledTx \/ DropFreeRx

-----------------------------------------------------------------------------
\* The caller's flag, stored by a signal handler or by another thread.
RequestCancel ==
  /\ ~cancel
  /\ cancel' = TRUE
  /\ UNCHANGED <<fixedVars, faults, pc, remaining, offset, outcome, diffAt,
                 result, late, hand, filled, free, mirror, workerVars>>

Terminated == pc = "done" /\ wpc \in {"unborn", "gone"} /\ UNCHANGED vars

Next == Main \/ Worker \/ RequestCancel \/ Terminated

Spec == Init /\ [][Next]_vars

\* Both threads are scheduled, and reads and device calls return.
FairSpec == Spec /\ WF_vars(Main) /\ WF_vars(Worker)

-----------------------------------------------------------------------------
(* Properties of the protocol between the threads. *)

MainParked ==
  \/ pc = "recv" /\ filled = << >> /\ FilledTx
  \/ pc \in {"join", "join_early"} /\ wpc # "gone"
WorkerParked == wpc = "acquire" /\ free = 0 /\ FreeTx

\* The two threads never wait for each other, though the loop may end with the
\* worker still holding, filling or waiting for a buffer.
NeverBothParked == ~(MainParked /\ WorkerParked)

\* The phase never returns or unwinds past a running worker, and a worker panic
\* is re-raised even if the loop ended with an outcome of its own.
WorkerSettled ==
  result # "running" =>
    /\ wpc \in {"unborn", "gone"}
    /\ "panic" \in faults => result = "panic"

\* The phase ends, cancelled or not, whatever fails.
Terminates == <>(pc = "done")
=============================================================================
