----------------------------- MODULE MCCrsfLink -----------------------------
(***************************************************************************)
(* The link with the sizes of the firmware, its checksum, and two frames   *)
(* as an ELRS or TBS transmitter sends them.                               *)
(***************************************************************************)
EXTENDS CrsfLink, Crc8

MCByte == 0 .. 255
MCReadLengths == {1, 7, 25}
MCNoise == {0, 24, 255}

\* All sixteen channels at 992, 1500us.
MCCentred ==
  <<200, 24, 22, 224, 3, 31, 248, 192, 7, 62, 240, 129, 15, 124,
    224, 3, 31, 248, 192, 7, 62, 240, 129, 15, 124, 173>>

\* The yaw stick (channel 3) to the left, at 268, the others at 992.
MCTurning ==
  <<200, 24, 22, 224, 3, 31, 248, 24, 2, 62, 240, 129, 15, 124,
    224, 3, 31, 248, 192, 7, 62, 240, 129, 15, 124, 152>>

=============================================================================
