------------------------------ MODULE MCImiRun ------------------------------
(***************************************************************************)
(* ImiRun with the confirmed stick, one of the same make without a serial  *)
(* number of its own, and one of another make.                             *)
(***************************************************************************)
EXTENDS ImiRun, TLC

CONSTANTS confirmed, twin, other

MCDevices == {confirmed, twin, other}
MCIdentity ==
  confirmed :> "make A" @@ twin :> "make A" @@ other :> "make B" @@ NoDevice :> "none"

\* Only the confirmed stick, for the runs in which nothing is replugged.
OneDevice == {confirmed}
OneIdentity == confirmed :> "make A" @@ NoDevice :> "none"
=============================================================================
