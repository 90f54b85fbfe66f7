----------------------------- MODULE MCStartup ------------------------------
(***************************************************************************)
(* Three readings per measurement.  1 and -1 are noise, 9 comes from a     *)
(* robot that is being turned; a reset and the settling take as long as    *)
(* the delays allow, or less.                                              *)
(***************************************************************************)
EXTENDS Startup

MCReadings == {-1, 1, 9}
MCResetTimes == {1, 10}
MCSettleTimes == {80, 2010}

=============================================================================
