------------------------------ MODULE ImiError ------------------------------
(***************************************************************************)
(* The error type of the library (error.rs): layers of messages above a    *)
(* cause, and two classifications that have to come through all of them.   *)
(* A message is a member of a small set; the chain holds the outermost     *)
(* layer first, which is the order {:#} prints it in.                      *)
(***************************************************************************)
EXTENDS Naturals, Sequences

ErrorKind == {"Refused", "Cancelled", "VerificationFailed", "Failed"}
DeviceState == {"Untouched", "Indeterminate", "Written"}

\* The two markers, and whatever else the standard library or nix reports.
Cancelled == [type |-> "cancelled", text |-> "cancelled by user"]
CancelledDuring(what) == [type |-> "cancelled", text |-> what]
VerificationMismatch == [type |-> "mismatch", text |-> "verification mismatch"]
IoError == [type |-> "io", text |-> "io error"]

Error(Text) == [chain : Seq(Text), kind : ErrorKind, device : DeviceState]

\* A cause is an Error of a layer beneath, or one of the values above.
IsError(e) == "chain" \in DOMAIN e

\* Mutant of kind_of: an Error beneath a layer is a cause like any other.
MarkersOnly(e) ==
  IF IsError(e) THEN "Failed"
  ELSE CASE e.type = "cancelled" -> "Cancelled"
         [] e.type = "mismatch" -> "VerificationFailed"
         [] OTHER -> "Failed"

kind_of(e) ==
  IF IsError(e) THEN e.kind
  ELSE CASE e.type = "cancelled" -> "Cancelled"
         [] e.type = "mismatch" -> "VerificationFailed"
         [] OTHER -> "Failed"

msg(detail) == [chain |-> <<detail>>, kind |-> "Failed", device |-> "Indeterminate"]

\* bail! and err! of a value: its text becomes the message of the one layer.
from_source(cause) ==
  [chain |-> <<cause.text>>, kind |-> kind_of(cause), device |-> "Indeterminate"]

\* source(), walked to the end.
Beneath(e) == IF IsError(e) THEN e.chain ELSE <<e.text>>

\* Context::context of a Result: one layer above the cause it holds.
layer(detail, cause) ==
  [chain |-> <<detail>> \o Beneath(cause),
   kind |-> kind_of(cause),
   device |-> IF IsError(cause) THEN cause.device ELSE "Indeterminate"]

\* Error::context, for one that is an Error already.
context(e, detail) == [e EXCEPT !.chain = <<detail>> \o @]

\* The phase boundary records the device, and settles what a plain failure is.
at(e, device) ==
  [e EXCEPT !.device = device,
            !.kind = IF @ = "Failed" /\ device = "Untouched" THEN "Refused" ELSE @]
=============================================================================
