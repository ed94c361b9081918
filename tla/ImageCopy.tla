----------------------------- MODULE ImageCopy -----------------------------
(***************************************************************************)
(* What Phase 4 promises, whichever arm runs it: the device only ever      *)
(* holds an in-order prefix of the image over its old content, and the     *)
(* phase succeeds only when that prefix is the whole image.  There are no  *)
(* buffers, threads or channels here.                                      *)
(***************************************************************************)
EXTENDS Naturals

CONSTANTS
  DevSize,   \* size of the target device
  MaxImage,  \* bound on the size of the (decompressed) image
  Old        \* what a sector holds before the image reaches it

VARIABLES
  imageLen,  \* size of the image stream; never changes
  disk,      \* content of each sector: Old, or a position of the image
  verdict    \* "running", then "ok" or "failed"

vars == <<imageLen, disk, verdict>>

\* A device that received exactly the first k sectors of the image.
CopiedTo(k) == [i \in 0 .. DevSize - 1 |-> IF i < k THEN i ELSE Old]

Init ==
  /\ imageLen \in 0 .. MaxImage
  /\ disk = CopiedTo(0)
  /\ verdict = "running"

\* The device moves on from one prefix of the image to a longer (or the same) one.
Advance ==
  \E j, k \in 0 .. DevSize :
    /\ j <= k
    /\ k <= imageLen
    /\ disk = CopiedTo(j)
    /\ disk' = CopiedTo(k)

Extend ==
  /\ verdict = "running"
  /\ Advance
  /\ UNCHANGED <<imageLen, verdict>>

Succeed ==
  /\ verdict = "running"
  /\ imageLen <= DevSize
  /\ disk = CopiedTo(imageLen)
  /\ verdict' = "ok"
  /\ UNCHANGED <<imageLen, disk>>

\* The write that fails may itself have stored a part of its chunk.
Fail ==
  /\ verdict = "running"
  /\ verdict' = "failed"
  /\ Advance
  /\ UNCHANGED imageLen

Next == Extend \/ Succeed \/ Fail

Spec == Init /\ [][Next]_vars
=============================================================================
