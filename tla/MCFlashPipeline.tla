-------------------------- MODULE MCFlashPipeline --------------------------
(***************************************************************************)
(* FlashPipeline on a device of three buffers and a tail, with every image *)
(* from the empty one to one that passes the device's end by a sector.     *)
(***************************************************************************)
EXTENDS FlashPipeline
=============================================================================
