------------------------- MODULE MCVerifyPipeline -------------------------
(***************************************************************************)
(* VerifyPipeline on a device of two buffers and a tail: every amount      *)
(* written, every set of places that differ, every second reading of the   *)
(* image, from one that is empty by now to one that grew by a place.       *)
(***************************************************************************)
EXTENDS VerifyPipeline
=============================================================================
