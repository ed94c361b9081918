---------------------------- MODULE ImageCompare ----------------------------
(***************************************************************************)
(* What Phase 5b promises, whichever arm runs it: the device agrees with   *)
(* the image up to a position that only grows; success means that it       *)
(* agrees with all that was written, and a mismatch names the first place  *)
(* where it does not.  There are no buffers, threads or channels here.     *)
(***************************************************************************)
EXTENDS Naturals

CONSTANTS
  DevSize,  \* size of the target device
  Old       \* what a place of the device holds that is not the image's

VARIABLES
  written,   \* how much Phase 4 reported; never changes
  disk,      \* content of the device: Old, or a position of the image
  compared,  \* how much was found equal
  verdict,   \* "running", then "ok", "mismatch" or "failed"
  diffAt     \* the place a mismatch names

vars == <<written, disk, compared, verdict, diffAt>>

AgreesTo(k) == \A i \in 0 .. k - 1 : disk[i] = i

Init ==
  /\ written \in 0 .. DevSize
  /\ disk \in [0 .. DevSize - 1 -> Nat \cup {Old}]
  /\ compared = 0
  /\ verdict = "running"
  /\ diffAt = 0

\* Some more of the device was found equal.
Agree ==
  /\ verdict = "running"
  /\ compared' \in compared + 1 .. written
  /\ AgreesTo(compared')
  /\ UNCHANGED <<written, disk, verdict, diffAt>>

Succeed ==
  /\ verdict = "running"
  /\ compared = written
  /\ verdict' = "ok"
  /\ UNCHANGED <<written, disk, compared, diffAt>>

\* The verdict of a mismatch: the first place that differs.
Mismatch ==
  /\ verdict = "running"
  /\ verdict' = "mismatch"
  /\ diffAt' \in compared .. written - 1
  /\ AgreesTo(diffAt')
  /\ disk[diffAt'] # diffAt'
  /\ UNCHANGED <<written, disk, compared>>

Fail ==
  /\ verdict = "running"
  /\ verdict' = "failed"
  /\ UNCHANGED <<written, disk, compared, diffAt>>

Next == Agree \/ Succeed \/ Mismatch \/ Fail

Spec == Init /\ [][Next]_vars
=============================================================================
