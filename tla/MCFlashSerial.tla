--------------------------- MODULE MCFlashSerial ---------------------------
(***************************************************************************)
(* FlashSerial over the same device and images as MCFlashPipeline.         *)
(***************************************************************************)
EXTENDS FlashSerial
=============================================================================
