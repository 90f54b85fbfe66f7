------------------------------ MODULE MCMotor -------------------------------
(***************************************************************************)
(* Motions on every axis, with and without normalisation, to and fro, the  *)
(* one that motor.cpp has a comment on, and the lift up, down and still.   *)
(***************************************************************************)
EXTENDS Motor

MCMotions == {-250, 0, 100} \X {-114, 0, 250} \X {-120, 0, 30} \cup {<<0, 100, 0>>}

MCLiftSpeeds == {-200, 0, 200}

=============================================================================
