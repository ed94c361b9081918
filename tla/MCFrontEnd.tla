----------------------------- MODULE MCFrontEnd -----------------------------
(***************************************************************************)
(* FrontEnd with a u64 of one byte and a kibi of four: 3G is the largest   *)
(* rate, 4G overflows, and rates from one to beyond a whole second's worth *)
(* of chunks give sleeps of many ticks, of one, and of none.               *)
(***************************************************************************)
EXTENDS FrontEnd

MCDigits == {0, 1, 3, 4}
=============================================================================
