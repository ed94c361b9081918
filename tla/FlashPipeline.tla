--------------------------- MODULE FlashPipeline ---------------------------
(***************************************************************************)
(* The pipelined arm of Phase 4 (phases/phase_4.rs, flash_pipelined and    *)
(* worker_loop): a worker thread decompresses into one buffer while the    *)
(* main thread writes the other.  Two mpsc channels join them: `filled`    *)
(* carries buffers and a possible error to main, `free` carries drained    *)
(* buffers back.  Each channel operation, flag access and device operation *)
(* is a step of its own thread.                                            *)
(***************************************************************************)
EXTENDS ChunkWriter, Sequences

VARIABLES
  hand,    \* the item main took from `filled`
  filled,  \* items in flight to main
  free,    \* buffers in flight to the worker
  mirror,  \* local_cancel, the copy of the cancel flag the worker can see
  wpc,     \* the worker's program counter
  pos,     \* sectors the reader has yielded
  item     \* what the worker is about to send

writerVars == <<imageLen, throttle, cancel, faults, disk, direct, dirty,
                pc, offset, total, outcome, result, late>>
workerVars == <<wpc, pos, item>>
vars == <<writerVars, hand, filled, free, mirror, workerVars>>

POOL == 2

Item == [ok : BOOLEAN, from : Nat, n : 0 .. BUF_SIZE]
Nothing == [ok |-> FALSE, from |-> 0, n |-> 0]

InLoop == {"check", "recv", "chunk", "return", "throttle"}
MainStates == {"setup", "join_early", "drop_filled", "drop_free", "join",
               "clear_direct", "sync", "done"} \cup InLoop
WorkerStates == {"unborn", "acquire", "poll", "fill", "send", "drop_filled",
                 "drop_free", "gone"}

TypeOK ==
  /\ WriterTypeOK
  /\ pc \in MainStates
  /\ wpc \in WorkerStates
  /\ hand \in Item
  /\ item \in Item
  /\ filled \in Seq(Item)
  /\ free \in 0 .. POOL
  /\ mirror \in BOOLEAN
  /\ pos \in Nat

Init ==
  /\ WriterInit
  /\ hand = Nothing
  /\ filled = << >>
  /\ free = 0
  /\ mirror = FALSE
  /\ wpc = "unborn"
  /\ pos = 0
  /\ item = Nothing

\* The four channel halves, alive until their owner drops them.
FilledTx == wpc \notin {"drop_free", "gone"}
FreeRx == wpc # "gone"
FilledRx == pc \in {"setup", "join_early", "drop_filled"} \cup InLoop
\* Mutant of FreeTx: the half is dropped after the join.
FreeTxHeldInJoin == FilledRx \/ pc \in {"drop_free", "join"}

FreeTx == FilledRx \/ pc = "drop_free"

-----------------------------------------------------------------------------
(* The main thread. *)

\* Set O_DIRECT, seed the pool, start the worker.
Spawn ==
  /\ pc = "setup"
  /\ throttle # "zero"
  /\ direct' = TRUE
  /\ free' = POOL
  /\ wpc' = "acquire"
  /\ pc' = "check"
  /\ UNCHANGED <<fixedVars, cancel, faults, disk, dirty, offset, total, outcome,
                 result, late, hand, filled, mirror, pos, item>>

\* chunk_target_nanos refuses a zero rate, after O_DIRECT was set.
RefuseZeroRate ==
  /\ pc = "setup"
  /\ throttle = "zero"
  /\ direct' = TRUE
  /\ Finish("rate")
  /\ UNCHANGED <<fixedVars, cancel, faults, disk, dirty, offset, total, outcome,
                 late, hand, filled, free, mirror, workerVars>>

\* set_direct or a buffer allocation fails, or the OS refuses the thread and
\* thread::spawn panics.
SetupFault ==
  /\ pc = "setup"
  /\ \/ /\ direct' \in BOOLEAN
        /\ Finish("io")
        /\ faults' = faults \cup {"device"}
     \/ /\ throttle # "zero"
        /\ direct' = TRUE
        /\ Finish("panic")
        /\ faults' = faults \cup {"spawn"}
  /\ UNCHANGED <<fixedVars, cancel, disk, dirty, offset, total, outcome, late,
                 hand, filled, free, mirror, workerVars>>

\* Leave the write loop as cancelled, telling the worker.
LeaveCancelled ==
  /\ mirror' = TRUE
  /\ outcome' = "cancelled"
  /\ pc' = "drop_filled"

\* Mutant of CheckCancel: the top of the loop does not look at the flag.
CheckCancelSkipped ==
  /\ pc = "check"
  /\ pc' = "recv"
  /\ UNCHANGED <<fixedVars, cancel, faults, deviceVars, offset, total, outcome,
                 result, late, hand, filled, free, mirror, workerVars>>

CheckCancel ==
  /\ pc = "check"
  /\ IF cancel THEN LeaveCancelled
     ELSE pc' = "recv" /\ UNCHANGED <<mirror, outcome>>
  /\ UNCHANGED <<fixedVars, cancel, faults, deviceVars, offset, total, result,
                 late, hand, filled, free, workerVars>>

\* Mutant of Recv: the worker's error is taken for the end of the stream.
RecvErrorAsEnd ==
  /\ pc = "recv"
  /\ filled # << >>
  /\ filled' = Tail(filled)
  /\ hand' = Head(filled)
  /\ pc' = "chunk"
  /\ UNCHANGED <<fixedVars, cancel, faults, deviceVars, offset, total, outcome,
                 result, late, free, mirror, workerVars>>

\* filled_rx.recv() finds an item: a chunk to write, or the worker's error.
Recv ==
  /\ pc = "recv"
  /\ filled # << >>
  /\ filled' = Tail(filled)
  /\ IF Head(filled).ok
     THEN hand' = Head(filled) /\ pc' = "chunk" /\ UNCHANGED outcome
     ELSE outcome' = "io" /\ pc' = "drop_filled" /\ UNCHANGED hand
  /\ UNCHANGED <<fixedVars, cancel, faults, deviceVars, offset, total, result,
                 late, free, mirror, workerVars>>

\* filled_rx.recv() finds the channel disconnected and empty.
RecvDisconnected ==
  /\ pc = "recv"
  /\ filled = << >>
  /\ ~FilledTx
  /\ pc' = "join_early"
  /\ UNCHANGED <<fixedVars, cancel, faults, deviceVars, offset, total, outcome,
                 result, late, hand, filled, free, mirror, workerVars>>

\* Joining tells a panic, re-raised after the cleanup, from a silent exit.
JoinEarly ==
  /\ pc = "join_early"
  /\ wpc = "gone"
  /\ outcome' = IF "panic" \in faults THEN outcome ELSE "protocol"
  /\ pc' = "drop_filled"
  /\ UNCHANGED <<fixedVars, cancel, faults, deviceVars, offset, total, result,
                 late, hand, filled, free, mirror, workerVars>>

ProcessContinue ==
  /\ pc = "chunk"
  /\ FullChunk(hand)
  /\ pc' = IF outcome' = "ok" THEN "return" ELSE "drop_filled"
  /\ UNCHANGED <<fixedVars, cancel, result, hand, filled, free, mirror, workerVars>>

ProcessEnd ==
  /\ pc = "chunk"
  /\ LastChunk(hand) \/ ChunkError(hand)
  /\ pc' = "drop_filled"
  /\ UNCHANGED <<fixedVars, cancel, result, hand, filled, free, mirror, workerVars>>

\* Mutant of ReturnBuffer: the buffer is dropped.
ReturnNothing ==
  /\ pc = "return"
  /\ pc' = IF throttle = "rate" THEN "throttle" ELSE "check"
  /\ UNCHANGED <<fixedVars, cancel, faults, deviceVars, offset, total, outcome,
                 result, late, hand, filled, free, mirror, workerVars>>

\* free_tx.send(buf); once the worker is gone the buffer is just dropped.
ReturnBuffer ==
  /\ pc = "return"
  /\ free' = IF FreeRx THEN free + 1 ELSE free
  /\ pc' = IF throttle = "rate" THEN "throttle" ELSE "check"
  /\ UNCHANGED <<fixedVars, cancel, faults, deviceVars, offset, total, outcome,
                 result, late, hand, filled, mirror, workerVars>>

\* Throttled: either the chunk already took its time, or main sleeps and polls
\* the flag again before it blocks in the next recv.
Throttle ==
  /\ pc = "throttle"
  /\ \/ pc' = "check" /\ UNCHANGED <<mirror, outcome>>
     \/ cancel /\ LeaveCancelled
  /\ UNCHANGED <<fixedVars, cancel, faults, deviceVars, offset, total, result,
                 late, hand, filled, free, workerVars>>

\* The cleanup every exit of the loop reaches: both channel halves, then join.
DropFilledRx ==
  /\ pc = "drop_filled"
  /\ filled' = << >>
  /\ pc' = "drop_free"
  /\ UNCHANGED <<fixedVars, cancel, faults, deviceVars, offset, total, outcome,
                 result, late, hand, free, mirror, workerVars>>

DropFreeTx ==
  /\ pc = "drop_free"
  /\ pc' = "join"
  /\ UNCHANGED <<fixedVars, cancel, faults, deviceVars, offset, total, outcome,
                 result, late, hand, filled, free, mirror, workerVars>>

\* Mutant of Join: the loop's outcome outranks the worker's panic.
JoinOutcomeFirst ==
  /\ pc = "join"
  /\ wpc = "gone"
  /\ IF outcome # "ok" THEN Finish(outcome)
     ELSE IF "panic" \in faults THEN Finish("panic")
     ELSE pc' = "clear_direct" /\ UNCHANGED result
  /\ UNCHANGED <<fixedVars, cancel, faults, deviceVars, offset, total, outcome,
                 late, hand, filled, free, mirror, workerVars>>

\* A worker panic outranks the loop's own outcome.
Join ==
  /\ pc = "join"
  /\ wpc = "gone"
  /\ IF "panic" \in faults THEN Finish("panic")
     ELSE IF outcome # "ok" THEN Finish(outcome)
     ELSE pc' = "clear_direct" /\ UNCHANGED result
  /\ UNCHANGED <<fixedVars, cancel, faults, deviceVars, offset, total, outcome,
                 late, hand, filled, free, mirror, workerVars>>

FinalizeMain ==
  /\ Finalize
  /\ UNCHANGED <<fixedVars, cancel, hand, filled, free, mirror, workerVars>>

Main ==
  \/ Spawn \/ RefuseZeroRate \/ SetupFault
  \/ CheckCancel \/ Recv \/ RecvDisconnected \/ JoinEarly
  \/ ProcessContinue \/ ProcessEnd \/ ReturnBuffer \/ Throttle
  \/ DropFilledRx \/ DropFreeTx \/ Join \/ FinalizeMain

-----------------------------------------------------------------------------
(* The worker thread. *)

\* Mutant of Acquire: the pool does not shrink.
AcquireCopy ==
  /\ wpc = "acquire"
  /\ free > 0
  /\ wpc' = "poll"
  /\ UNCHANGED <<writerVars, hand, filled, free, mirror, pos, item>>

Acquire ==
  /\ wpc = "acquire"
  /\ free > 0
  /\ free' = free - 1
  /\ wpc' = "poll"
  /\ UNCHANGED <<writerVars, hand, filled, mirror, pos, item>>

\* free_rx.recv() fails only once main dropped its half and the queue is empty.
AcquireDisconnected ==
  /\ wpc = "acquire"
  /\ free = 0
  /\ ~FreeTx
  /\ wpc' = "drop_filled"
  /\ UNCHANGED <<writerVars, hand, filled, free, mirror, pos, item>>

PollMirror ==
  /\ wpc = "poll"
  /\ wpc' = IF mirror THEN "drop_filled" ELSE "fill"
  /\ UNCHANGED <<writerVars, hand, filled, free, mirror, pos, item>>

Fill ==
  /\ wpc = "fill"
  /\ item' = [ok |-> TRUE, from |-> pos, n |-> FillAt(pos)]
  /\ pos' = pos + FillAt(pos)
  /\ wpc' = "send"
  /\ UNCHANGED <<writerVars, hand, filled, free, mirror>>

\* The image file or the decoder reports an error, or the decoder panics.
FillError ==
  /\ wpc = "fill"
  /\ item' = Nothing
  /\ faults' = faults \cup {"reader"}
  /\ wpc' = "send"
  /\ UNCHANGED <<fixedVars, cancel, deviceVars, pc, offset, total, outcome,
                 result, late, hand, filled, free, mirror, pos>>

FillPanic ==
  /\ wpc = "fill"
  /\ faults' = faults \cup {"panic"}
  /\ wpc' = "drop_filled"
  /\ UNCHANGED <<fixedVars, cancel, deviceVars, pc, offset, total, outcome,
                 result, late, hand, filled, free, mirror, pos, item>>

\* Mutant of MoreAfter: no empty buffer follows a full last chunk.
MoreUnlessExact(i) == i.ok /\ i.n = BUF_SIZE /\ pos < imageLen

\* After this item the worker asks for another buffer.
MoreAfter(i) == i.ok /\ i.n = BUF_SIZE

Send ==
  /\ wpc = "send"
  /\ filled' = IF FilledRx THEN Append(filled, item) ELSE filled
  /\ wpc' = IF FilledRx /\ MoreAfter(item) THEN "acquire" ELSE "drop_filled"
  /\ UNCHANGED <<writerVars, hand, free, mirror, pos, item>>

\* The thread ends: its captured channel halves are dropped in this order.
DropFilledTx ==
  /\ wpc = "drop_filled"
  /\ wpc' = "drop_free"
  /\ UNCHANGED <<writerVars, hand, filled, free, mirror, pos, item>>

DropFreeRx ==
  /\ wpc = "drop_free"
  /\ free' = 0
  /\ wpc' = "gone"
  /\ UNCHANGED <<writerVars, hand, filled, mirror, pos, item>>

Worker ==
  \/ Acquire \/ AcquireDisconnected \/ PollMirror
  \/ Fill \/ FillError \/ FillPanic \/ Send
  \/ DropFilledTx \/ DropFreeRx

-----------------------------------------------------------------------------
\* The caller's flag, stored by a signal handler or by another thread.
RequestCancel ==
  /\ ~cancel
  /\ cancel' = TRUE
  /\ UNCHANGED <<fixedVars, faults, deviceVars, pc, offset, total, outcome,
                 result, late, hand, filled, free, mirror, workerVars>>

Terminated == pc = "done" /\ wpc \in {"unborn", "gone"} /\ UNCHANGED vars

Next == Main \/ Worker \/ RequestCancel \/ Terminated

Spec == Init /\ [][Next]_vars

\* Both threads are scheduled, and reads and device calls return.
FairSpec == Spec /\ WF_vars(Main) /\ WF_vars(Worker)

-----------------------------------------------------------------------------
(* Properties of the protocol between the threads. *)

MainParked ==
  \/ pc = "recv" /\ filled = << >> /\ FilledTx
  \/ pc \in {"join", "join_early"} /\ wpc # "gone"
WorkerParked == wpc = "acquire" /\ free = 0 /\ FreeTx

\* 11-threading.md's deadlock argument: whenever main waits in recv a buffer is
\* free, and whenever it waits in join the worker's recv can fail.
NeverBothParked == ~(MainParked /\ WorkerParked)

\* The phase never returns or unwinds past a running worker (the guard's FATAL
\* notice is printed over a settled pipeline), and a worker panic is re-raised
\* even if the loop ended with an outcome of its own.
WorkerSettled ==
  result # "running" =>
    /\ wpc \in {"unborn", "gone"}
    /\ "panic" \in faults => result = "panic"

\* The phase ends, cancelled or not, whatever fails.
Terminates == <>(pc = "done")
=============================================================================
