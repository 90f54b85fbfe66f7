----------------------------- MODULE MCImuTimer -----------------------------
(***************************************************************************)
(* Samples coarse enough for the heading to go round within a few ticks,   *)
(* both ways, and one within the dead zone.                                *)
(***************************************************************************)
EXTENDS ImuTimer

MCRates == {-1700, 1, 1000}
MCCommands == {-120}

=============================================================================
