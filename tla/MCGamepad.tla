----------------------------- MODULE MCGamepad ------------------------------
(***************************************************************************)
(* A pad with one servo and both directions of the lift, and a clock that  *)
(* wraps after less than two refreshes.                                    *)
(***************************************************************************)
EXTENDS Gamepad

MCPads == {{}, {"up"}, {"cross", "r1"}}

=============================================================================
