-------------------------- MODULE MCVerifySerial --------------------------
(***************************************************************************)
(* VerifySerial on the devices and images of MCVerifyPipeline.             *)
(***************************************************************************)
EXTENDS VerifySerial
=============================================================================
