------------------------- MODULE VerifySerialProofs -------------------------
(***************************************************************************)
(* Proofs about the serial arm of Phase 5b, for every buffer, device and   *)
(* image size: it keeps the promises of ChunkReader and implements         *)
(* ImageCompare.                                                           *)
(***************************************************************************)
EXTENDS VerifySerial, TLAPS

AgreesTo(k) == \A i \in 0 .. k - 1 : disk[i] = i

\* Where the loop is, and what that says of the chunk under way.
Stages ==
  /\ result = "running" <=> pc # "done"
  /\ pc # "done" => outcome = "ok" /\ faults = {}
  /\ pc \in {"read", "fill", "compare"} => remaining > 0
  /\ pc = "compare" => offset + ChunkOf(remaining) <= imageLen

\* What was compared is equal, and a mismatch is at the first difference.
Compared ==
  /\ offset + remaining = written
  /\ offset <= imageLen
  /\ AgreesTo(offset)
  /\ result = "mismatch" =>
       diffAt \in offset .. written - 1 /\ disk[diffAt] # diffAt /\ AgreesTo(diffAt)

CancelBound ==
  /\ late <= 1
  /\ late > 0 => cancel
  /\ pc = "read" => late = 0

IInv ==
  /\ TypeOK
  /\ Stages
  /\ Compared
  /\ CancelBound
  /\ PassIsFullCompare
  /\ FailureHasCause

-----------------------------------------------------------------------------
(* One chunk. *)

\* A chunk is no longer than what is left, and not empty before the end.
LEMMA ChunkBounds ==
  ASSUME NEW l \in Nat
  PROVE  /\ ChunkOf(l) \in Nat
         /\ ChunkOf(l) <= l
         /\ l > 0 => ChunkOf(l) > 0
  BY ReaderAssumption DEF ReaderAssumption, ChunkOf

\* The types the steps below compute with.
LEMMA Numbers ==
  ASSUME IInv
  PROVE  /\ written \in Nat /\ imageLen \in Nat /\ remaining \in Nat
         /\ offset \in Nat /\ late \in Nat /\ diffAt \in Nat
         /\ remaining <= written /\ offset <= written
<1>1. ReaderTypeOK /\ DevSize \in Nat
  BY ReaderAssumption DEF IInv, TypeOK, ReaderAssumption
<1> QED
  BY <1>1 DEF ReaderTypeOK

\* An equal chunk moves the agreement by its length, which is not zero.
LEMMA EqualEffect ==
  ASSUME IInv, CompareEqual
  PROVE  /\ offset' \in offset + 1 .. written
         /\ offset' + remaining' = written
         /\ remaining' \in Nat
         /\ offset' <= imageLen
         /\ AgreesTo(offset')
<1>1. /\ pc = "compare" /\ remaining > 0 /\ offset + ChunkOf(remaining) <= imageLen
      /\ offset + remaining = written /\ AgreesTo(offset)
  BY DEF CompareEqual, IInv, Stages, Compared
<1>2. PICK n \in Nat : n = ChunkOf(remaining) /\ 0 < n /\ n <= remaining
  BY <1>1, Numbers, ChunkBounds
<1>3. Differing(offset, n) = {} /\ offset' = offset + n /\ remaining' = remaining - n
  BY <1>2 DEF CompareEqual, Matched
<1>4. AgreesTo(offset + n)
  <2> SUFFICES ASSUME NEW i \in 0 .. (offset + n) - 1 PROVE disk[i] = i
    BY DEF AgreesTo
  <2>1. CASE i < offset
    BY <1>1, <2>1, Numbers DEF AgreesTo
  <2>2. CASE i >= offset
    <3>1. i - offset \in 0 .. n - 1 /\ offset + (i - offset) = i
      BY <2>2, Numbers
    <3> QED
      BY <1>3, <3>1 DEF Differing
  <2> QED
    BY <2>1, <2>2, Numbers
<1> QED
  BY <1>1, <1>2, <1>3, <1>4, Numbers

\* A chunk that differs is reported at its first difference.
LEMMA DiffersEffect ==
  ASSUME IInv, CompareDiffers
  PROVE  /\ diffAt' \in offset .. written - 1
         /\ disk[diffAt'] # diffAt'
         /\ AgreesTo(diffAt')
<1>1. remaining > 0 /\ offset + remaining = written /\ AgreesTo(offset)
  BY DEF CompareDiffers, IInv, Stages, Compared
<1>2. PICK n \in Nat : n = ChunkOf(remaining) /\ 0 < n /\ n <= remaining
  BY <1>1, Numbers, ChunkBounds
<1>3. PICK i \in Differing(offset, n) :
        (\A j \in Differing(offset, n) : i <= j) /\ diffAt' = offset + i
  BY <1>2 DEF CompareDiffers, Mismatched
<1>4. i \in 0 .. n - 1 /\ disk[offset + i] # offset + i
  BY <1>3 DEF Differing
<1>5. AgreesTo(offset + i)
  <2> SUFFICES ASSUME NEW k \in 0 .. (offset + i) - 1 PROVE disk[k] = k
    BY DEF AgreesTo
  <2>1. CASE k < offset
    BY <1>1, <2>1, Numbers DEF AgreesTo
  <2>2. CASE k >= offset
    <3>1. k - offset \in 0 .. n - 1 /\ offset + (k - offset) = k /\ k - offset < i
      BY <1>4, <2>2, Numbers
    <3>2. k - offset \notin Differing(offset, n)
      BY <1>3, <1>4, <3>1
    <3> QED
      BY <3>1, <3>2 DEF Differing
  <2> QED
    BY <2>1, <2>2, <1>4, Numbers
<1> QED
  BY <1>1, <1>2, <1>3, <1>4, <1>5, Numbers

-----------------------------------------------------------------------------
(* The invariant. *)

LEMMA InitInv == Init => IInv
<1> SUFFICES ASSUME Init PROVE IInv
  OBVIOUS
<1> USE ReaderAssumption DEF ReaderAssumption, Init, ReaderInit
<1>1. written \in 0 .. DevSize /\ written \in Nat
  OBVIOUS
<1>2. disk \in [Places -> Nat \cup {Old}]
  <2>1. PICK lost \in SUBSET (0 .. written - 1) :
          disk = [i \in Places |-> IF i < written /\ i \notin lost THEN i ELSE Old]
    OBVIOUS
  <2>2. \A i \in Places : i \in Nat
    BY DEF Places
  <2> QED
    BY <2>1, <2>2
<1>3. TypeOK
  <2>1. cancel \in BOOLEAN
    <3>1. cancel = FALSE
      OBVIOUS
    <3> QED
      BY <3>1, Zenon
  <2>2. /\ remaining \in 0 .. written /\ offset \in 0 .. written
        /\ faults \in SUBSET FaultKinds
    BY <1>1
  <2>3. pc \in States /\ outcome \in Outcomes /\ result \in Outcomes \cup {"running", "panic"}
    BY DEF States, Outcomes
  <2> QED
    BY <1>1, <1>2, <2>1, <2>2, <2>3 DEF TypeOK, ReaderTypeOK
<1>4. Stages /\ CancelBound /\ PassIsFullCompare /\ FailureHasCause
  BY DEF Stages, CancelBound, PassIsFullCompare, FailureHasCause
<1>5. Compared
  <2>1. imageLen \in 0 .. MaxImage
    OBVIOUS
  <2>2. 0 <= imageLen
    BY <2>1
  <2> QED
    BY <1>1, <2>2 DEF Compared, AgreesTo
<1> QED
  BY <1>3, <1>4, <1>5 DEF IInv

\* The loop's own steps leave the run's inputs alone.
LEMMA Inputs == [Next]_vars => UNCHANGED fixedVars
  BY DEF Next, Main, Setup, Check, ReadDevice, Fill, Fault, CompareEqual,
         CompareDiffers, Throttle, RequestCancel, Terminated, vars, fixedVars

LEMMA TypeStep ==
  ASSUME IInv, [Next]_vars
  PROVE  TypeOK'
<1> USE DEF TypeOK, ReaderTypeOK, States, FaultKinds, Outcomes, Finish
<1>1. TypeOK /\ UNCHANGED <<written, imageLen, throttle, disk>>
  BY Inputs DEF IInv, fixedVars
<1>2. CASE Setup \/ Check \/ Fill \/ Throttle
  BY <1>1, <1>2 DEF Setup, Check, Fill, Throttle
<1>3. CASE ReadDevice
  BY <1>1, <1>3 DEF ReadDevice, ReadsDevice
<1>4. CASE Fault
  BY <1>1, <1>4 DEF Fault
<1>5. CASE CompareEqual
  <2>1. offset' \in 0 .. written /\ remaining' \in 0 .. written
    BY <1>5, EqualEffect, Numbers
  <2> QED
    BY <1>1, <1>5, <2>1 DEF CompareEqual, Matched
<1>6. CASE CompareDiffers
  <2>1. diffAt' \in Nat
    BY <1>6, DiffersEffect, Numbers
  <2> QED
    BY <1>1, <1>6, <2>1 DEF CompareDiffers, Mismatched
<1>7. CASE RequestCancel
  <2>1. cancel' \in BOOLEAN
    BY <1>7, Zenon DEF RequestCancel
  <2> QED
    BY <1>1, <1>7, <2>1 DEF RequestCancel
<1>8. CASE Terminated \/ UNCHANGED vars
  <2>1. UNCHANGED <<cancel, faults, pc, remaining, offset, outcome, diffAt, result, late>>
    BY <1>8 DEF Terminated, vars
  <2> QED
    BY <1>1, <2>1
<1> QED
  BY <1>2, <1>3, <1>4, <1>5, <1>6, <1>7, <1>8 DEF Next, Main

LEMMA StagesStep ==
  ASSUME IInv, [Next]_vars
  PROVE  Stages'
<1> USE DEF Stages, Finish, fixedVars, Outcomes, ChunkOf
<1>1. Stages
  BY DEF IInv
<1>2. CASE Setup \/ Throttle \/ RequestCancel \/ ReadDevice
  BY <1>1, <1>2 DEF Setup, Throttle, RequestCancel, ReadDevice
<1>3. CASE Check
  BY <1>1, <1>3, Numbers DEF Check
<1>4. CASE Fill
  BY <1>1, <1>4 DEF Fill, Yields
<1>5. CASE Fault
  BY <1>1, <1>5 DEF Fault
<1>6. CASE CompareEqual
  BY <1>1, <1>6 DEF CompareEqual, Matched
<1>7. CASE CompareDiffers
  BY <1>1, <1>7 DEF CompareDiffers, Mismatched
<1>8. CASE Terminated \/ UNCHANGED vars
  BY <1>1, <1>8 DEF Terminated, vars
<1> QED
  BY <1>2, <1>3, <1>4, <1>5, <1>6, <1>7, <1>8 DEF Next, Main

LEMMA ComparedStep ==
  ASSUME IInv, [Next]_vars
  PROVE  Compared'
<1>1. Compared /\ Stages /\ UNCHANGED <<written, imageLen, disk>>
  BY Inputs DEF IInv, fixedVars
<1>2. CASE CompareEqual
  <2>1. result' = "running"
    BY <1>1, <1>2 DEF CompareEqual, Stages
  <2> QED
    BY <1>1, <1>2, <2>1, EqualEffect DEF Compared, AgreesTo
<1>3. CASE CompareDiffers
  <2>1. UNCHANGED <<offset, remaining>>
    BY <1>3 DEF CompareDiffers, Mismatched
  <2> QED
    BY <1>1, <1>3, <2>1, DiffersEffect DEF Compared, AgreesTo
<1>4. ASSUME ~CompareEqual, ~CompareDiffers PROVE Compared'
  <2>1. /\ UNCHANGED <<offset, remaining, diffAt>>
        /\ result' = "mismatch" => result = "mismatch"
    BY <1>4 DEF Next, Main, Setup, Check, ReadDevice, Fill, Fault, Throttle,
                RequestCancel, Terminated, vars, Finish
  <2> QED
    BY <1>1, <2>1 DEF Compared, AgreesTo
<1> QED
  BY <1>2, <1>3, <1>4

LEMMA CancelStep ==
  ASSUME IInv, [Next]_vars
  PROVE  CancelBound'
<1> USE DEF CancelBound, Finish
<1>1. CancelBound /\ late \in Nat /\ Stages /\ cancel \in BOOLEAN
  BY Numbers DEF IInv, TypeOK, ReaderTypeOK
<1>2. CASE Check
  BY <1>1, <1>2 DEF Check
<1>3. CASE ReadDevice
  BY <1>1, <1>3 DEF ReadDevice, ReadsDevice
<1>4. CASE Setup \/ Fill \/ Fault \/ CompareEqual \/ CompareDiffers \/ Throttle
  BY <1>1, <1>4 DEF Setup, Fill, Fault, CompareEqual, CompareDiffers, Throttle
<1>5. CASE RequestCancel \/ Terminated \/ UNCHANGED vars
  BY <1>1, <1>5 DEF RequestCancel, Terminated, vars
<1> QED
  BY <1>2, <1>3, <1>4, <1>5 DEF Next, Main

LEMMA PromisesStep ==
  ASSUME IInv, [Next]_vars
  PROVE  PassIsFullCompare' /\ FailureHasCause'
<1> USE DEF Finish
<1>1. /\ PassIsFullCompare /\ FailureHasCause /\ Stages /\ Compared
      /\ UNCHANGED <<written, imageLen, throttle, disk>>
  BY Inputs DEF IInv, fixedVars
<1>2. CASE result' = "running"
  BY <1>2 DEF PassIsFullCompare, FailureHasCause
<1>3. CASE UNCHANGED <<result, offset, remaining, faults, cancel>>
  BY <1>1, <1>3 DEF PassIsFullCompare, FailureHasCause
<1>4. CASE Setup
  BY <1>1, <1>4 DEF Setup, Stages, PassIsFullCompare, FailureHasCause
<1>5. CASE Check
  <2>1. CASE remaining = 0
    <3>1. offset = written /\ faults = {} /\ result' = "ok" /\ UNCHANGED <<offset, remaining, faults>>
      BY <1>1, <1>5, <2>1, Numbers DEF Check, Stages, Compared
    <3>2. \A i \in 0 .. written - 1 : disk[i] = i
      BY <1>1, <3>1 DEF Compared, AgreesTo
    <3> QED
      BY <1>1, <2>1, <3>1, <3>2, Numbers DEF PassIsFullCompare, FailureHasCause, Compared
  <2>2. CASE remaining # 0
    BY <1>1, <1>5, <2>2 DEF Check, Stages, PassIsFullCompare, FailureHasCause
  <2> QED
    BY <2>1, <2>2
<1>6. CASE Fill
  <2>1. CASE Yields(offset, ChunkOf(remaining))
    BY <1>1, <1>2, <1>6, <2>1 DEF Fill, Stages
  <2>2. CASE ~Yields(offset, ChunkOf(remaining))
    <3>1. imageLen < written
      BY <1>1, <2>2, ChunkBounds, Numbers DEF Yields, Compared
    <3> QED
      BY <1>1, <1>6, <2>2, <3>1 DEF Fill, PassIsFullCompare, FailureHasCause
  <2> QED
    BY <2>1, <2>2
<1>7. CASE Fault
  BY <1>1, <1>7 DEF Fault, PassIsFullCompare, FailureHasCause
<1>8. CASE CompareDiffers
  BY <1>8 DEF CompareDiffers, PassIsFullCompare, FailureHasCause
<1>9. CASE CompareEqual \/ ReadDevice \/ Throttle
  BY <1>1, <1>2, <1>9 DEF CompareEqual, ReadDevice, Throttle, Stages
<1>10. CASE RequestCancel
  BY <1>1, <1>10 DEF RequestCancel, PassIsFullCompare, FailureHasCause
<1>11. CASE Terminated \/ UNCHANGED vars
  BY <1>3, <1>11 DEF Terminated, vars
<1> QED
  BY <1>4, <1>5, <1>6, <1>7, <1>8, <1>9, <1>10, <1>11 DEF Next, Main

LEMMA StepInv == IInv /\ [Next]_vars => IInv'
  BY TypeStep, StagesStep, ComparedStep, CancelStep, PromisesStep DEF IInv

-----------------------------------------------------------------------------
(* The theorems. *)

\* The strengthened invariant: what verify_serial's loop knows at each step.
THEOREM Invariance == Spec => []IInv
  BY InitInv, StepInv, PTL DEF Spec

\* TypeOK: every variable of verify_serial stays in its type; its countdown does
\* not pass zero.
THEOREM TypeCorrect == Spec => []TypeOK
<1>1. IInv => TypeOK
  BY DEF IInv
<1> QED
  BY Invariance, <1>1, PTL

\* PassIsFullCompare: verify_serial returns Ok only when every byte Phase 4
\* reported was read back and found equal.
THEOREM PassMeansEqual == Spec => []PassIsFullCompare
<1>1. IInv => PassIsFullCompare
  BY DEF IInv
<1> QED
  BY Invariance, <1>1, PTL

\* FailureHasCause: verify_serial reports no error that the device, the image,
\* the flag or the rate did not cause.
THEOREM FailureIsCaused == Spec => []FailureHasCause
<1>1. IInv => FailureHasCause
  BY DEF IInv
<1> QED
  BY Invariance, <1>1, PTL

\* CancelStopsReading: after the flag is set at most one more chunk is read.
THEOREM CancelIsPrompt == Spec => []CancelStopsReading
<1>1. IInv => CancelStopsReading
  BY DEF IInv, CancelBound, CancelStopsReading
<1> QED
  BY Invariance, <1>1, PTL

\* The initial state of the loop is one of the abstract comparison.
LEMMA CompareInit == Init => Promise!Init
<1> SUFFICES ASSUME Init PROVE Promise!Init
  OBVIOUS
<1>1. IInv
  BY InitInv
<1>2. disk \in [0 .. DevSize - 1 -> Nat \cup {Old}]
  BY <1>1 DEF IInv, TypeOK, ReaderTypeOK, Places
<1> QED
  BY <1>2 DEF Init, ReaderInit, Promise!Init

\* One step of the loop is a step of the abstract comparison, or a stutter.
LEMMA CompareStep == IInv /\ IInv' /\ [Next]_vars => [Promise!Next]_(Promise!vars)
<1> SUFFICES ASSUME IInv, IInv', [Next]_vars
             PROVE  [Promise!Next]_(Promise!vars)
  OBVIOUS
<1> USE DEF Promise!vars, Finish
<1>1. /\ Stages /\ Stages' /\ Compared /\ Compared' /\ PassIsFullCompare'
      /\ UNCHANGED <<written, imageLen, throttle, disk>>
      /\ result' \in Outcomes \cup {"running", "panic"}
  BY Inputs DEF IInv, fixedVars, TypeOK, ReaderTypeOK
<1>2. CASE UNCHANGED <<offset, result, diffAt>>
  BY <1>1, <1>2
<1>3. CASE CompareEqual
  <2>1. result = "running" /\ result' = "running" /\ diffAt' = diffAt
    BY <1>1, <1>3 DEF CompareEqual, Matched, Stages
  <2>2. Promise!Agree
    BY <1>1, <1>3, <2>1, EqualEffect DEF Promise!Agree, Promise!AgreesTo, AgreesTo
  <2> QED
    BY <2>2 DEF Promise!Next
<1>4. CASE CompareDiffers
  <2>1. result = "running" /\ result' = "mismatch" /\ offset' = offset
    BY <1>1, <1>4 DEF CompareDiffers, Mismatched, Stages
  <2>2. Promise!Mismatch
    BY <1>1, <1>4, <2>1, DiffersEffect DEF Promise!Mismatch, Promise!AgreesTo, AgreesTo
  <2> QED
    BY <2>2 DEF Promise!Next
<1>5. CASE Setup \/ Check \/ Fill \/ Fault
  <2>1. /\ result = "running" /\ UNCHANGED <<offset, diffAt>>
        /\ result' \in {"running", "ok", "cancelled", "io", "rate"}
    BY <1>1, <1>5 DEF Setup, Check, Fill, Fault, Stages
  <2>2. CASE result' = "ok"
    <3>1. offset = written
      BY <1>1, <2>1, <2>2 DEF PassIsFullCompare
    <3>2. Promise!Succeed
      BY <1>1, <2>1, <2>2, <3>1 DEF Promise!Succeed
    <3> QED
      BY <3>2 DEF Promise!Next
  <2>3. CASE result' \in {"cancelled", "io", "rate"}
    <3>1. Promise!Fail
      BY <1>1, <2>1, <2>3 DEF Promise!Fail
    <3> QED
      BY <3>1 DEF Promise!Next
  <2> QED
    BY <1>2, <2>1, <2>2, <2>3
<1>6. CASE ReadDevice \/ Throttle \/ RequestCancel \/ Terminated \/ UNCHANGED vars
  BY <1>2, <1>6 DEF ReadDevice, Throttle, RequestCancel, Terminated, vars
<1> QED
  BY <1>3, <1>4, <1>5, <1>6 DEF Next, Main

\* CompareSpec: verify_serial implements the abstract comparison, so that what it
\* passes agrees with the image and a mismatch names the first place that does
\* not.
THEOREM SerialCompares == Spec => CompareSpec
<1>1. IInv /\ IInv' /\ [Next]_vars => [Promise!Next]_(Promise!vars)
  BY CompareStep
<1> QED
  BY Invariance, CompareInit, <1>1, PTL DEF Spec, CompareSpec, Promise!Spec
=============================================================================
